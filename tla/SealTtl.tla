------------------------------ MODULE SealTtl ------------------------------
(***************************************************************************)
(* How long a sealed ciphertext stays readable.  A seal is a Temporary     *)
(* entry: it dies at a ledger sequence number, while the round's deadlines *)
(* are in seconds.  storage.rs converts one into the other when it extends *)
(* the entry; the host only counts ledgers.  One bidder's seal of one      *)
(* round: seals of different bidders never influence each other.           *)
(***************************************************************************)
EXTENDS SaturatingU64

CONSTANTS
    Absent,
    LedgersPerDay,      \* LEDGERS_PER_DAY
    PostRevealBuffer,   \* POST_REVEAL_SEAL_BUFFER_SECS
    PersistentBump,     \* PERSISTENT_BUMP: cap on an extension
    TempThreshold,      \* TEMP_THRESHOLD: least extension
    U32Max,             \* u32::MAX, scaled down
    MinTempTtl,         \* network setting: the TTL of a fresh Temporary entry
    CloseSecs,          \* seconds from one ledger to the next
    Schedule,           \* [commit_deadline, reveal_deadline], from creation on
    MaxNow              \* bound: the last timestamp explored

VARIABLES
    now,          \* env.ledger().timestamp(), from the round's creation
    sequence,     \* env.ledger().sequence()
    round,        \* the deadlines of the round
    status,       \* "Open" or "Revealing"; no later step touches a seal
    liveUntil     \* last ledger the seal is in storage, Absent before a commit

vars == <<now, sequence, round, status, liveUntil>>

LedgerCloseSecs == 5   \* LEDGER_CLOSE_SECS

ASSUME SealTtlAssumption ==
    /\ LedgersPerDay \in Nat /\ PersistentBump \in Nat /\ TempThreshold \in Nat
    /\ MaxNow \in Nat /\ U32Max \in Nat
    /\ PostRevealBuffer = LedgerCloseSecs * LedgersPerDay
    /\ TempThreshold <= PersistentBump /\ PersistentBump <= U32Max
    /\ MinTempTtl \in 1 .. TempThreshold - LedgersPerDay
    /\ CloseSecs \subseteq Nat \ {0}
    /\ Schedule \subseteq [commit_deadline : 0 .. U64Max, reveal_deadline : 0 .. U64Max]
    /\ \A s \in Schedule : s.commit_deadline < s.reveal_deadline
    /\ Absent \notin Int

Live == liveUntil # Absent /\ sequence <= liveUntil

---------------------------------------------------------------------------
AtLeast(x, y) == IF x < y THEN y ELSE x
AtMost(x, y) == IF x > y THEN y ELSE x

\* Mutant of SealTtlFor: the buffer after the reveal window is left out.
SealTtlFor_NoBuffer(reveal_deadline, at) ==
    LET ledgers == SatSub(reveal_deadline, at) \div LedgerCloseSecs
    IN  AtMost(AtLeast(ledgers, TempThreshold) % (U32Max + 1), PersistentBump)

\* seal_ttl_for_reveal_deadline: the cast to u32 comes before the cap and
\* drops the high bits.
SealTtlFor(reveal_deadline, at) ==
    LET secs == SatAdd(SatSub(reveal_deadline, at), PostRevealBuffer)
        ledgers == secs \div LedgerCloseSecs
    IN  AtMost(AtLeast(ledgers, TempThreshold) % (U32Max + 1), PersistentBump)

\* The host's extend_ttl: an entry whose TTL is below the threshold is made
\* to live for bump more ledgers; no entry is ever shortened.
ExtendTtl(until, threshold, bump) ==
    IF until - sequence < threshold THEN AtLeast(sequence + bump, until) ELSE until

\* extend_seal_ttl
Extended(until) ==
    LET bump == SealTtlFor(round.reveal_deadline, now)
    IN  ExtendTtl(until, SatSub(bump, LedgersPerDay), bump)

\* set_seal in commit and commit_v2: a write creates the entry anew if it has
\* expired and keeps the TTL of one that has not.
Commit ==
    /\ status = "Open"
    /\ now <= round.commit_deadline
    /\ liveUntil' = Extended(IF Live THEN liveUntil ELSE sequence + MinTempTtl - 1)
    /\ UNCHANGED <<now, sequence, round, status>>

\* extend_round_seals in open_reveal and open_reveal_v2: a seal that is gone
\* stays gone.
OpenReveal ==
    /\ status = "Open"
    /\ now > round.commit_deadline
    /\ status' = "Revealing"
    /\ liveUntil' = IF Live THEN Extended(liveUntil) ELSE liveUntil
    /\ UNCHANGED <<now, sequence, round>>

\* get_seal in a submitted transaction; a simulated read changes nothing.
GetSeal ==
    /\ Live
    /\ liveUntil' = Extended(liveUntil)
    /\ UNCHANGED <<now, sequence, round, status>>

CloseLedger(secs) ==
    /\ now + secs <= MaxNow
    /\ now' = now + secs
    /\ sequence' = sequence + 1
    /\ UNCHANGED <<round, status, liveUntil>>

Init ==
    /\ now = 0
    /\ sequence = 0
    /\ round \in Schedule
    /\ status = "Open"
    /\ liveUntil = Absent

Next == Commit \/ OpenReveal \/ GetSeal \/ \E secs \in CloseSecs : CloseLedger(secs)
Spec == Init /\ [][Next]_vars

---------------------------------------------------------------------------
\* "Keep seals readable briefly after the reveal window for observer polling"
\* (storage.rs): a committed ciphertext is in storage for as long as anybody
\* may need it to reveal the bid, and PostRevealBuffer seconds longer.
SealReadable ==
    liveUntil # Absent /\ now <= round.reveal_deadline + PostRevealBuffer => Live
=============================================================================
