--------------------------- MODULE ReceiptExport ---------------------------
(***************************************************************************)
(* The two exports of the SDK as what they are: a sequence of reads, each  *)
(* of its own ledger state, while anybody goes on calling the contract.    *)
(* exportReceipt reads the round, pages through the bidder index and then  *)
(* reads bid after bid; exportReceiptV2 starts with several reads whose    *)
(* answers come in any order.  A read that fails ends the export with      *)
(* nothing, which is an export that never finishes.                        *)
(***************************************************************************)
EXTENDS RoundContract, Receipts, ReceiptsV1

CONSTANTS PageSize     \* PAGE_SIZE of bidders()

VARIABLE export        \* the export under way

ASSUME ExportAssumption == PageSize \in Nat \ {0}

NoExport ==
    [phase |-> "idle", rid |-> None, round |-> None, bidders |-> <<>>, policy |-> None,
     reveal |-> None, due |-> {}, cursor |-> 0, taken |-> 0,
     parts |-> [b \in Account |-> None],
     before |-> None]     \* history: the round when the export began

ExportInit == export = NoExport

Reading(phase) == export.phase = phase

\* The loop over the bidders: record what was read of the next one.
TakePart(record) ==
    LET b == export.bidders[export.taken + 1]
    IN  export' = [export EXCEPT !.parts[b] = record[b], !.taken = @ + 1]

AllTaken == export.taken = Len(export.bidders)
FinishExport == AllTaken /\ export' = [export EXCEPT !.phase = "done"]

---------------------------------------------------------------------------
(* exportReceiptV2.                                                        *)

StartExportV2(r) ==
    /\ Reading("idle") /\ Stored(r)
    /\ export' = [export EXCEPT !.phase = "batch", !.rid = r, !.before = roundV2[r],
                                !.due = {"round", "bidders", "policy"}]

\* One answer of the initial Promise.all.
AnswerBatch(read) ==
    LET r == export.rid
        answered == [export EXCEPT !.due = @ \ {read}]
    IN  /\ Reading("batch") /\ read \in export.due
        /\ export' = CASE read = "round"   -> [answered EXCEPT !.round = roundV2[r]]
                       [] read = "bidders" -> [answered EXCEPT !.bidders = roundV2[r].bidders]
                       [] read = "policy"  -> [answered EXCEPT !.policy = policyV2[r]]

\* Mutant of AfterBatch: the reveal state of a v3 round is not exported.
AfterBatch_NoRevealState(round) == "submissions"

\* A v3 round has a reveal state to read, a v2 round has none.
AfterBatch(round) == IF round.protocol_version = 3 THEN "reveal" ELSE "submissions"

BatchComplete ==
    /\ Reading("batch") /\ export.due = {}
    /\ export.round.protocol_version = 3 => export.policy # None
    /\ export' = [export EXCEPT !.phase = AfterBatch(export.round)]

ReadRevealState ==
    /\ Reading("reveal")
    /\ export' = [export EXCEPT !.phase = "submissions", !.reveal = revealV3[export.rid]]

ReadSubmission ==
    /\ Reading("submissions")
    /\ IF AllTaken THEN FinishExport ELSE TakePart(submissionV2[export.rid])

---------------------------------------------------------------------------
(* exportReceipt.                                                          *)

\* get_bidders_page: the index from the cursor on, at most limit long.
BiddersPage(r, cursor, limit) ==
    LET index == roundV1[r].bidders
        start == IF cursor < Len(index) THEN cursor ELSE Len(index)
        end == IF start + limit < Len(index) THEN start + limit ELSE Len(index)
    IN  [data |-> SubSeq(index, start + 1, end),
         next_cursor |-> IF end < Len(index) THEN end ELSE 0]

StartExportV1(r) ==
    /\ Reading("idle") /\ StoredV1(r)
    /\ export' = [export EXCEPT !.phase = "pages", !.rid = r, !.round = roundV1[r],
                                !.before = roundV1[r]]

\* Mutant of NextPage: the cursor is the last entry read, not the one after it.
NextPage_Overlap(page) == IF page.next_cursor = 0 THEN 0 ELSE page.next_cursor - 1

NextPage(page) == page.next_cursor

\* bidders(): pages are fetched until a page has no successor.
ReadPage ==
    LET page == BiddersPage(export.rid, export.cursor, PageSize)
        cursor == NextPage(page)
    IN  /\ Reading("pages")
        /\ export' = [export EXCEPT !.bidders = @ \o page.data, !.cursor = cursor,
                                    !.phase = IF cursor = 0 THEN "bids" ELSE @]

ReadBid ==
    /\ Reading("bids")
    /\ IF AllTaken THEN FinishExport ELSE TakePart(bidV1[export.rid])

---------------------------------------------------------------------------
ExportStep ==
    \/ \E r \in RoundId : StartExportV2(r) \/ StartExportV1(r)
    \/ \E read \in {"round", "bidders", "policy"} : AnswerBatch(read)
    \/ BatchComplete \/ ReadRevealState \/ ReadSubmission
    \/ ReadPage \/ ReadBid

Exported(family(_)) == Reading("done") /\ family(export.rid)

\* exportReceipt reads the round first and a bid never changes after the
\* round is cleared, so whatever happens during the export its receipt
\* verifies, and it lists, once each, a beginning of the bidder index that has
\* everybody who was in it when the export began.
ExportVerifiesV1 ==
    Exported(StoredV1) =>
        /\ VerifyReceiptV1(ReceiptOfV1(export.round, export.bidders, export.parts))
        /\ IsPrefix(export.before.bidders, export.bidders)
        /\ IsPrefix(export.bidders, roundV1[export.rid].bidders)

\* exportReceiptV2 promises less: its receipt verifies if nobody committed to,
\* opened, cleared, settled or voided the round meanwhile; reveals may go on.
StableExportVerifiesV2 ==
    /\ Exported(Stored) /\ roundV2[export.rid] = export.before
    /\ ~ OpenedThenVoided(export.rid)
    => VerifyReceiptV2(ReceiptOf(export.round, export.bidders, export.policy, export.reveal,
                                 export.parts))
=============================================================================
