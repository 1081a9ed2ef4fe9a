------------------------ MODULE SessionVoting_proofs ------------------------
(***************************************************************************)
(* Proofs about SessionVoting, for every number of requests and bots and   *)
(* every retry limit.                                                      *)
(*                                                                         *)
(* The invariant says of each request what its reads are still worth: the  *)
(* voting item it read restores to a record, is a prefix of the stored     *)
(* ballot, and is the stored item if its revision is (Behind); and of each *)
(* stage what earlier stages have established (Good).                      *)
(***************************************************************************)
EXTENDS SessionVoting, SequenceTheorems, TLAPS

\* The voting item v was stored once, and the table with voting item w and vote
\* items s has only appended since.
Behind(v, w, s) ==
    /\ restores(v, v.log)
    /\ v.rev <= w.rev
    /\ v.rev = w.rev => v.log = w.log /\ v.cast = w.cast /\ v.bots = w.bots
    /\ v.bots <= w.bots
    /\ v.cast => w.cast
    /\ Len(v.log) <= Len(s)
    /\ \A i \in 1..Len(v.log) : s[i] = v.log[i]

BotBatch(k) == [i \in 1..k.batch |-> [by |-> k.by, opening |-> None]]

\* The write that request k is about to make has passed the voting policy.
Admitted(k) ==
    /\ k.item # None
    /\ k.stage \in {"addVote", "addBots"}
    /\ k.stage = "addVote" =>
          ~k.item.cast /\ k.next = <<[by |-> k.by, opening |-> k.opening]>>
    /\ k.stage = "addBots" =>
          k.item.cast /\ batchFits(k) /\ k.next = k.item.log \o BotBatch(k)

Submission == {"limit", "addVote", "bots", "addBots", "receipt"}

\* What request k has established, against the table w and s.
Good(c, k, w, s) ==
    /\ k.by = c
    /\ c \in Submits /\ k.stage # "idle" => k.opening \in Openings
    /\ k.stage = "idle" => k.outcome = "none"
    /\ k.stage \in Submission => c \in Submits
    /\ "voting" \in k.got => k.item # None
    /\ k.item # None => Behind(k.item, w, s)
    /\ k.next # <<>> => Admitted(k)
    /\ k.stage = "queue" => k.item # None /\ k.item.cast /\ k.item.bots >= BotCount
    /\ k.stage = "addBots" =>
          /\ w.cast /\ w.bots + k.batch >= BotCount
          /\ k.item # None => k.item.cast /\ k.item.bots + k.batch >= BotCount
    /\ k.stage = "receipt" => w.cast /\ w.bots = BotCount
    /\ k.outcome = "RECEIPT" =>
          Len(s) = BotCount + 1 /\ k.receipt = s[1] /\ s[1].opening = k.opening
    /\ k.outcome = "ALREADY_VOTED" => s # <<>> /\ s[1].opening # k.opening

Inv ==
    /\ TypeOK
    /\ StoredVotesRestore
    /\ BallotBounded
    /\ InputIsBallot
    /\ \A c \in Calls : Good(c, call[c], voting, votes)

-----------------------------------------------------------------------------
\* Sequences.

\* A batch of bot votes is appended behind the log, element by element.
LEMMA BatchAppended ==
    ASSUME NEW log \in Seq(Vote), NEW b \in Submits, NEW n \in Nat
    PROVE  LET batch == [i \in 1..n |-> [by |-> b, opening |-> None]]
               s == log \o batch
           IN  /\ s \in Seq(Vote)
               /\ Len(s) = Len(log) + n
               /\ \A i \in 1..Len(log) : s[i] = log[i]
               /\ \A i \in (Len(log) + 1)..Len(s) : s[i] = [by |-> b, opening |-> None]
<1> DEFINE batch == [i \in 1..n |-> [by |-> b, opening |-> None]]
<1>1. batch \in Seq(Vote) /\ Len(batch) = n
  <2>1. \A i \in 1..n : [by |-> b, opening |-> None] \in Vote
    BY DEF Vote
  <2>2. batch \in [1..n -> Vote]
    BY <2>1
  <2>3. batch \in Seq(Vote)
    BY <2>2, IsASeq, SMT
  <2> QED
    BY <2>2, <2>3, LenProperties, SMT
<1>2. \A i \in 1..n : batch[i] = [by |-> b, opening |-> None]
  OBVIOUS
<1> HIDE DEF batch
<1>3. /\ log \o batch \in Seq(Vote)
      /\ Len(log \o batch) = Len(log) + n
      /\ \A i \in 1..(Len(log) + n) : (log \o batch)[i] =
            IF i <= Len(log) THEN log[i] ELSE batch[i - Len(log)]
  BY <1>1
<1>4. Len(log) \in Nat
  BY LenProperties
<1>5. /\ log \o batch \in Seq(Vote)
      /\ Len(log \o batch) = Len(log) + n
      /\ \A i \in 1..Len(log) : (log \o batch)[i] = log[i]
      /\ \A i \in (Len(log) + 1)..Len(log \o batch) :
            (log \o batch)[i] = [by |-> b, opening |-> None]
  BY <1>2, <1>3, <1>4, SMT
<1> QED
  BY <1>5 DEF batch

\* The puts of a vote write, made at the end of the stored ballot, append.
LEMMA PutsAppend ==
    ASSUME NEW s \in Seq(Vote), NEW next \in Seq(Vote), Len(s) <= Len(next),
           \A i \in 1..Len(s) : next[i] = s[i]
    PROVE  [i \in 1..(IF Len(s) > Len(next) THEN Len(s) ELSE Len(next)) |->
              IF i > Len(s) /\ i <= Len(next) THEN next[i] ELSE s[i]] = next
<1>1. Len(s) \in Nat /\ Len(next) \in Nat /\ ~(Len(s) > Len(next))
  BY LenProperties, SMT
<1>2. \A i \in 1..Len(next) :
          (IF i > Len(s) /\ i <= Len(next) THEN next[i] ELSE s[i]) = next[i]
  BY <1>1, SMT
<1>3. next = [i \in 1..Len(next) |-> next[i]]
  BY LenProperties, SMT
<1>4. [i \in 1..Len(next) |-> IF i > Len(s) /\ i <= Len(next) THEN next[i] ELSE s[i]]
        = [i \in 1..Len(next) |-> next[i]]
  BY <1>2
<1> QED
  BY <1>1, <1>3, <1>4

-----------------------------------------------------------------------------
\* What a request has established outlives the steps of the others.

\* The table moves from w and s to x and t by appending, if at all, under a new
\* revision.
Appends(w, s, x, t) ==
    /\ w.rev <= x.rev
    /\ w.rev = x.rev => w.log = x.log /\ w.cast = x.cast /\ w.bots = x.bots
    /\ w.bots <= x.bots /\ x.bots <= BotCount
    /\ w.cast => x.cast
    /\ Len(s) <= Len(t) /\ Len(t) <= BotCount + 1
    /\ \A i \in 1..Len(s) : t[i] = s[i]

\* A request that does not move keeps what it has established.
LEMMA GoodKept ==
    ASSUME NEW c \in Calls, NEW k \in Call,
           NEW w \in Voting, NEW s \in Seq(Vote), NEW x \in Voting, NEW t \in Seq(Vote),
           Good(c, k, w, s), Appends(w, s, x, t)
    PROVE  Good(c, k, x, t)
<1>1. Len(s) \in Nat /\ Len(t) \in Nat /\ BotCount \in Nat
  BY LenProperties, VotingConstants
<1>2. k.item # None => Behind(k.item, x, t)
  <2> SUFFICES ASSUME k.item # None
               PROVE  Behind(k.item, x, t)
    OBVIOUS
  <2>1. k.item \in Voting
    BY DEF Call
  <2>2. Len(k.item.log) \in Nat
    BY <2>1, LenProperties DEF Voting
  <2>3. Behind(k.item, w, s)
    BY DEF Good
  <2> DEFINE v == k.item
  <2>4. /\ v.rev \in Nat /\ w.rev \in Nat /\ x.rev \in Nat
        /\ v.bots \in Nat /\ w.bots \in Nat /\ x.bots \in Nat
    BY <2>1 DEF Voting
  <2> HIDE DEF v
  <2>5. restores(v, v.log)
    BY <2>3 DEF Behind, v
  <2>6. v.rev <= x.rev /\ v.bots <= x.bots /\ (v.rev = x.rev => v.rev = w.rev /\ w.rev = x.rev)
    BY <2>3, <2>4 DEF Behind, Appends, v
  <2>7. v.rev = x.rev => v.log = x.log /\ v.cast = x.cast /\ v.bots = x.bots
    BY <2>3, <2>6, Zenon DEF Behind, Appends, v
  <2>8. v.cast => x.cast
    BY <2>3, Zenon DEF Behind, Appends, v
  <2>9. Len(v.log) <= Len(t) /\ \A i \in 1..Len(v.log) : t[i] = v.log[i]
    BY <1>1, <2>2, <2>3 DEF Behind, Appends, v
  <2> QED
    BY <2>5, <2>6, <2>7, <2>8, <2>9 DEF Behind, v
<1>3. s # <<>> => t # <<>> /\ t[1] = s[1]
  BY <1>1, SMT DEF Appends
<1>4. Len(s) = BotCount + 1 => Len(t) = BotCount + 1 /\ t[1] = s[1]
  BY <1>1, <1>3, VotingConstants, SMT DEF Appends
<1>5. k.stage = "addBots" =>
          /\ x.cast /\ x.bots + k.batch >= BotCount
          /\ k.item # None => k.item.cast /\ k.item.bots + k.batch >= BotCount
  <2> SUFFICES ASSUME k.stage = "addBots"
               PROVE  x.cast /\ x.bots + k.batch >= BotCount
    BY DEF Good
  <2>1. w.cast /\ w.bots + k.batch >= BotCount
    BY DEF Good
  <2>2. w.bots \in Nat /\ x.bots \in Nat /\ k.batch \in Nat
    BY <1>1 DEF Voting, Call
  <2>3. x.bots + k.batch >= BotCount
    BY <1>1, <2>1, <2>2 DEF Appends
  <2> QED
    BY <2>1, <2>3, Zenon DEF Appends
<1>6. k.stage = "receipt" => x.cast /\ x.bots = BotCount
  <2> SUFFICES ASSUME k.stage = "receipt"
               PROVE  x.cast /\ x.bots = BotCount
    OBVIOUS
  <2>1. w.cast /\ w.bots = BotCount
    BY DEF Good
  <2>2. x.bots = BotCount
    BY <1>1, <2>1 DEF Appends, Voting
  <2> QED
    BY <2>1, <2>2, Zenon DEF Appends
<1>7. /\ k.outcome = "RECEIPT" =>
            Len(t) = BotCount + 1 /\ k.receipt = t[1] /\ t[1].opening = k.opening
      /\ k.outcome = "ALREADY_VOTED" => t # <<>> /\ t[1].opening # k.opening
  BY <1>3, <1>4 DEF Good
<1> QED
  BY <1>2, <1>5, <1>6, <1>7 DEF Good

-----------------------------------------------------------------------------
\* Moves of one request.

\* A request that ends keeps its opening and forgets the rest.
LEMMA ReturnedFields ==
    ASSUME NEW c \in Calls, NEW k \in Call, k.by = c, NEW o \in Outcomes
    PROVE  LET n == Returned(k, o)
           IN  /\ n \in Call /\ n.stage = "done" /\ n.by = c /\ n.opening = k.opening
               /\ n.got = {} /\ n.item = None /\ n.next = <<>>
               /\ n.outcome = o /\ n.receipt = None
<1> DEFINE n == Returned(k, o)
<1>1. Idle(c) \in Call
  BY VotingConstants DEF Idle, Call, Stages, Outcomes
<1>2. n = [Idle(c) EXCEPT !.stage = "done", !.opening = k.opening, !.outcome = o]
  BY DEF Returned
<1>3. n \in Call
  BY <1>1, <1>2 DEF Call, Stages
<1>4. /\ n.stage = "done" /\ n.by = c /\ n.opening = k.opening /\ n.got = {}
      /\ n.item = None /\ n.next = <<>> /\ n.outcome = o /\ n.receipt = None
  BY <1>2 DEF Idle
<1> QED
  BY <1>3, <1>4

\* A request that ends without a receipt or a refusal has nothing to show.
LEMMA ReturnedGood ==
    ASSUME NEW c \in Calls, NEW k \in Call, NEW w, NEW s,
           Good(c, k, w, s), k.stage # "idle",
           NEW o \in Outcomes \ {"RECEIPT", "ALREADY_VOTED"}
    PROVE  Returned(k, o) \in Call /\ Good(c, Returned(k, o), w, s)
<1>1. k.by = c /\ (c \in Submits => k.opening \in Openings)
  BY DEF Good
<1> QED
  BY <1>1, ReturnedFields DEF Good, Submission

\* Another opening is stored: the refusal stands.
LEMMA RefusedGood ==
    ASSUME NEW c \in Calls, NEW k \in Call, NEW w, NEW s,
           Good(c, k, w, s), k.stage # "idle",
           s # <<>>, s[1].opening # k.opening
    PROVE  /\ Returned(k, "ALREADY_VOTED") \in Call
           /\ Good(c, Returned(k, "ALREADY_VOTED"), w, s)
<1>1. k.by = c /\ (c \in Submits => k.opening \in Openings)
  BY DEF Good
<1>2. "ALREADY_VOTED" \in Outcomes
  BY DEF Outcomes
<1> QED
  BY <1>1, <1>2, ReturnedFields DEF Good, Submission

\* A request that enters a stage keeps its identity and its outcome.
LEMMA EnterFields ==
    ASSUME NEW k \in Call, NEW stage \in Stages
    PROVE  LET n == Enter(k, stage)
           IN  /\ n \in Call /\ n.stage = stage /\ n.by = k.by /\ n.opening = k.opening
               /\ n.got = {} /\ n.item = None /\ n.next = <<>> /\ n.batch = k.batch
               /\ n.outcome = k.outcome /\ n.receipt = k.receipt
<1> DEFINE n == Enter(k, stage)
<1>1. n = [k EXCEPT !.stage = stage, !.got = {}, !.item = None, !.seen = None, !.next = <<>>]
  BY DEF Enter
<1>2. n \in Call
  <2>1. {} \in SUBSET Reads /\ <<>> \in Seq(Vote)
    OBVIOUS
  <2> QED
    BY <1>1, <2>1 DEF Call
<1>3. /\ n.stage = stage /\ n.by = k.by /\ n.opening = k.opening
      /\ n.got = {} /\ n.item = None /\ n.next = <<>> /\ n.batch = k.batch
      /\ n.outcome = k.outcome /\ n.receipt = k.receipt
  BY <1>1 DEF Call
<1> QED
  BY <1>2, <1>3

\* A submission enters a stage when what that stage relies on is established.
LEMMA EnterGood ==
    ASSUME NEW c \in Submits, NEW k \in Call, NEW w, NEW s,
           Good(c, k, w, s), k.stage # "idle",
           NEW stage \in Submission,
           stage = "addBots" => w.cast /\ w.bots + k.batch >= BotCount,
           stage = "receipt" => w.cast /\ w.bots = BotCount
    PROVE  Enter(k, stage) \in Call /\ Good(c, Enter(k, stage), w, s)
<1>1. stage \in Stages /\ stage # "queue" /\ stage # "idle"
  BY DEF Submission, Stages
<1>2. /\ k.by = c /\ k.opening \in Openings
      /\ k.outcome = "RECEIPT" =>
            Len(s) = BotCount + 1 /\ k.receipt = s[1] /\ s[1].opening = k.opening
      /\ k.outcome = "ALREADY_VOTED" => s # <<>> /\ s[1].opening # k.opening
  BY DEF Good
<1> DEFINE n == Enter(k, stage)
<1>3. /\ n \in Call /\ n.stage = stage /\ n.by = k.by /\ n.opening = k.opening
      /\ n.got = {} /\ n.item = None /\ n.next = <<>> /\ n.batch = k.batch
      /\ n.outcome = k.outcome /\ n.receipt = k.receipt
  BY <1>1, EnterFields
<1> HIDE DEF n
<1>4. Good(c, n, w, s)
  BY <1>1, <1>2, <1>3, Zenon DEF Good
<1> QED
  BY <1>3, <1>4 DEF n

\* Counters and the size of the batch are no part of what is established outside
\* the stage that writes the batch.
LEMMA CountersGood ==
    ASSUME NEW c \in Calls, NEW k \in Call, NEW w, NEW s, Good(c, k, w, s),
           k.next = <<>>,
           NEW n \in Call,
           /\ n.stage = k.stage /\ n.by = k.by /\ n.opening = k.opening /\ n.got = k.got
           /\ n.item = k.item /\ n.next = <<>> /\ n.outcome = k.outcome
           /\ n.receipt = k.receipt,
           k.stage = "addBots" => n.batch = k.batch
    PROVE  Good(c, n, w, s)
BY Zenon DEF Good

-----------------------------------------------------------------------------
\* What a request does with its answers.

\* The table: voting item w and vote items s belong together, within the limit.
Table(w, s) ==
    /\ w \in Voting
    /\ s \in Seq(Vote)
    /\ restores(w, s)
    /\ Len(s) <= BotCount + 1

\* The bot count never exceeds the limit, and is reached by a complete ballot only.
LEMMA TableCount ==
    ASSUME NEW w, NEW s, Table(w, s)
    PROVE  /\ w.bots \in Nat /\ w.bots <= BotCount
           /\ w.cast => Len(s) = w.bots + 1
<1>1. Len(s) \in Nat /\ w.bots \in Nat /\ BotCount \in Nat
  BY LenProperties, VotingConstants DEF Table, Voting
<1>2. CASE w.cast
  <2>1. w.bots = Len(s) - 1
    BY <1>2 DEF Table, restores
  <2> QED
    BY <1>1, <1>2, <2>1 DEF Table
<1>3. CASE ~w.cast
  <2>1. s = <<>>
    BY <1>3 DEF Table, restores
  <2>2. w.bots = 0
    BY <1>3, <2>1 DEF Table, restores
  <2> QED
    BY <1>1, <1>3, <2>2
<1> QED
  BY <1>2, <1>3

\* A user vote that was read is the first of the ballot still.
LEMMA ReadVoteStored ==
    ASSUME NEW v \in Voting, NEW w, NEW s \in Seq(Vote), Behind(v, w, s), v.cast
    PROVE  s # <<>> /\ s[1] = v.log[1]
<1>1. Len(v.log) \in Nat /\ Len(s) \in Nat /\ v.log \in Seq(Vote)
  BY LenProperties DEF Voting
<1>2. v.log # <<>>
  BY DEF Behind, restores
<1>3. Len(v.log) > 0
  BY <1>1, <1>2
<1> QED
  BY <1>1, <1>3 DEF Behind

\* The admission of a submission, on the record it was validated with.
LEMMA PrepareGood ==
    ASSUME NEW c \in Submits, NEW k \in Call, NEW w, NEW s, Table(w, s), Good(c, k, w, s),
           k.stage # "idle", k.item # None
    PROVE  LET n == prepareUserVoteSubmission(k) IN n \in Call /\ Good(c, n, w, s)
<1> DEFINE n == prepareUserVoteSubmission(k)
<1>1. c \in Calls /\ k.item \in Voting /\ s \in Seq(Vote) /\ Behind(k.item, w, s)
  BY DEF Calls, Call, Good, Table
<1>2. CASE resolveUserVoteReplay(k.item, k) = "conflict"
  <2>1. k.item.cast /\ k.item.log[1].opening # k.opening
    BY <1>2 DEF resolveUserVoteReplay
  <2>2. s # <<>> /\ s[1].opening # k.opening
    BY <1>1, <2>1, ReadVoteStored
  <2>3. n = Returned(k, "ALREADY_VOTED")
    BY <1>2 DEF prepareUserVoteSubmission
  <2> QED
    BY <1>1, <2>2, <2>3, RefusedGood
<1>3. CASE resolveUserVoteReplay(k.item, k) # "conflict"
  <2>1. n = Returned(k, "SESSION_FINALIZED") \/ n = Enter(k, "limit")
    BY <1>3 DEF prepareUserVoteSubmission
  <2>2. "SESSION_FINALIZED" \in Outcomes \ {"RECEIPT", "ALREADY_VOTED"} /\ "limit" \in Submission
    BY DEF Outcomes, Submission
  <2> QED
    BY <1>1, <2>1, <2>2, ReturnedGood, EnterGood
<1> QED
  BY <1>2, <1>3

\* The write of the user's vote: a replay goes on, a refusal is just, and a write is
\* made only to an empty ballot.
LEMMA AppendUserGood ==
    ASSUME NEW c \in Submits, NEW k \in Call, NEW w, NEW s, Table(w, s), Good(c, k, w, s),
           k.stage = "addVote", k.item # None
    PROVE  LET n == appendUserVote(k) IN n \in Call /\ Good(c, n, w, s)
<1> DEFINE n == appendUserVote(k)
<1>1. c \in Calls /\ k.item \in Voting /\ s \in Seq(Vote) /\ Behind(k.item, w, s)
  BY DEF Calls, Call, Good, Table
<1>2. CASE resolveUserVoteReplay(k.item, k) = "replay"
  <2>1. n = Enter(k, "bots") /\ "bots" \in Submission
    BY <1>2 DEF appendUserVote, afterReplay, Submission
  <2> QED
    BY <2>1, EnterGood
<1>3. CASE resolveUserVoteReplay(k.item, k) # "replay" /\ k.seen # None
  <2>1. n = Returned(k, "SESSION_FINALIZED")
    BY <1>3 DEF appendUserVote
  <2>2. "SESSION_FINALIZED" \in Outcomes \ {"RECEIPT", "ALREADY_VOTED"}
    BY DEF Outcomes
  <2> QED
    BY <1>1, <2>1, <2>2, ReturnedGood
<1>4. CASE resolveUserVoteReplay(k.item, k) # "replay" /\ k.seen = None /\ k.item.cast
  <2>1. k.item.log[1].opening # k.opening
    BY <1>4 DEF resolveUserVoteReplay
  <2>2. s # <<>> /\ s[1].opening # k.opening
    BY <1>1, <1>4, <2>1, ReadVoteStored
  <2>3. n = Returned(k, "ALREADY_VOTED")
    BY <1>4 DEF appendUserVote
  <2> QED
    BY <1>1, <2>2, <2>3, RefusedGood
<1>5. CASE resolveUserVoteReplay(k.item, k) # "replay" /\ k.seen = None /\ ~k.item.cast
  <2>1. k.item.log = <<>>
    BY <1>1, <1>5 DEF Behind, restores
  <2> DEFINE first == <<[by |-> k.by, opening |-> k.opening]>>
  <2>2. n = [k EXCEPT !.next = first]
    BY <1>5, <2>1 DEF appendUserVote
  <2>3. k.by = c /\ k.opening \in Openings
    BY DEF Good
  <2>4. first \in Seq(Vote)
    BY <2>3 DEF Vote
  <2> HIDE DEF first
  <2>5. n \in Call
    BY <2>2, <2>4 DEF Call
  <2>6. /\ n.stage = k.stage /\ n.by = k.by /\ n.opening = k.opening /\ n.got = k.got
        /\ n.item = k.item /\ n.next = first /\ n.outcome = k.outcome
        /\ n.receipt = k.receipt
    BY <2>2 DEF Call
  <2> HIDE DEF n
  <2>7. Admitted(n)
    BY <1>5, <2>6 DEF Admitted, first
  <2>8. Good(c, n, w, s)
    BY <2>6, <2>7, Zenon DEF Good
  <2> QED
    BY <2>5, <2>8 DEF n
<1> QED
  BY <1>2, <1>3, <1>4, <1>5

\* Another round of the bots, or contention.
LEMMA NextRoundGood ==
    ASSUME NEW c \in Submits, NEW k \in Call, NEW w, NEW s, Good(c, k, w, s),
           k.stage # "idle", k.next = <<>>
    PROVE  LET n == nextRound(k) IN n \in Call /\ Good(c, n, w, s)
<1>1. CASE k.round + 1 = BotRounds
  <2>1. "CONTENTION" \in Outcomes \ {"RECEIPT", "ALREADY_VOTED"} /\ c \in Calls
    BY DEF Outcomes, Calls
  <2> QED
    BY <1>1, <2>1, ReturnedGood DEF nextRound
<1>2. CASE k.round + 1 # BotRounds
  <2> DEFINE m == [k EXCEPT !.round = @ + 1]
  <2>1. k.round + 1 \in 0..(BotRounds - 1)
    BY <1>2, VotingConstants DEF Call
  <2>2. m \in Call
    BY <2>1 DEF Call
  <2>3. /\ m.stage = k.stage /\ m.by = k.by /\ m.opening = k.opening /\ m.got = k.got
        /\ m.item = k.item /\ m.next = k.next /\ m.outcome = k.outcome
        /\ m.receipt = k.receipt /\ m.batch = k.batch
    BY DEF Call
  <2>4. nextRound(k) = Enter(m, "bots") /\ "bots" \in Submission
    BY <1>2 DEF nextRound, Submission
  <2> HIDE DEF m
  <2>5. Good(c, m, w, s)
    BY <2>2, <2>3, CountersGood DEF Calls
  <2> QED
    BY <2>2, <2>3, <2>4, <2>5, EnterGood
<1> QED
  BY <1>1, <1>2

\* The batch of bot votes fills the ballot that was read.
LEMMA RemainingGood ==
    ASSUME NEW c \in Submits, NEW k \in Call, NEW w, NEW s, Table(w, s), Good(c, k, w, s),
           k.stage = "bots", k.item # None, k.next = <<>>
    PROVE  LET n == remainingBotVotes(k) IN n \in Call /\ Good(c, n, w, s)
<1> DEFINE n == remainingBotVotes(k)
<1>1. c \in Calls /\ k.item \in Voting /\ Behind(k.item, w, s)
  BY DEF Calls, Call, Good
<1>2. "ERROR" \in Outcomes \ {"RECEIPT", "ALREADY_VOTED"}
  BY DEF Outcomes
<1>3. w.bots \in Nat /\ w.bots <= BotCount /\ k.item.bots \in Nat /\ k.item.bots <= w.bots
      /\ BotCount \in Nat /\ 0 \in 0..(MaxConditionalRetries - 1)
  BY <1>1, TableCount, VotingConstants DEF Behind, Voting
<1>4. CASE ~k.item.cast \/ (k.item.bots # BotCount /\ k.seen # None)
  BY <1>1, <1>2, <1>3, <1>4, ReturnedGood DEF remainingBotVotes
<1>5. CASE k.item.cast /\ k.item.bots = BotCount
  <2>1. n = Enter(k, "receipt") /\ "receipt" \in Submission
    BY <1>3, <1>5 DEF remainingBotVotes, Submission
  <2>2. w.cast
    BY <1>1, <1>5, Zenon DEF Behind
  <2>3. w.bots = BotCount
    BY <1>3, <1>5
  <2> QED
    BY <2>1, <2>2, <2>3, EnterGood
<1>6. CASE k.item.cast /\ k.item.bots # BotCount /\ k.seen = None
  <2> DEFINE m == [k EXCEPT !.batch = remaining(k.item), !.attempt = 0]
  <2>1. n = Enter(m, "addBots") /\ "addBots" \in Submission
    BY <1>3, <1>6 DEF remainingBotVotes, Submission
  <2>2. remaining(k.item) \in 0..BotCount /\ w.bots + remaining(k.item) >= BotCount
    BY <1>3 DEF remaining
  <2>3. m \in Call
    BY <1>3, <2>2 DEF Call
  <2>4. /\ m.stage = k.stage /\ m.by = k.by /\ m.opening = k.opening /\ m.got = k.got
        /\ m.item = k.item /\ m.next = k.next /\ m.outcome = k.outcome
        /\ m.receipt = k.receipt /\ m.batch = remaining(k.item)
    BY DEF Call
  <2>5. w.cast
    BY <1>1, <1>6, Zenon DEF Behind
  <2> HIDE DEF m
  <2>6. Good(c, m, w, s)
    BY <1>1, <2>3, <2>4, CountersGood
  <2> QED
    BY <2>1, <2>2, <2>3, <2>4, <2>5, <2>6, EnterGood
<1> QED
  BY <1>4, <1>5, <1>6

\* The write of the batch is compared with the limit once more.
LEMMA AppendBotsGood ==
    ASSUME NEW c \in Submits, NEW k \in Call, NEW w, NEW s, Table(w, s), Good(c, k, w, s),
           k.stage = "addBots", k.item # None, k.next = <<>>
    PROVE  LET n == appendBotVotes(k) IN n \in Call /\ Good(c, n, w, s)
<1> DEFINE n == appendBotVotes(k)
<1>1. k.by = c /\ k.item \in Voting /\ k.item.cast /\ k.batch \in Nat
  BY VotingConstants DEF Call, Good
<1>2. CASE k.seen # None \/ ~batchFits(k)
  <2>1. n = nextRound(k)
    BY <1>1, <1>2 DEF appendBotVotes
  <2> QED
    BY <2>1, NextRoundGood
<1>3. CASE k.seen = None /\ batchFits(k)
  <2> DEFINE all == k.item.log \o BotBatch(k)
  <2>1. n = [k EXCEPT !.next = all]
    BY <1>1, <1>3 DEF appendBotVotes, BotBatch
  <2>2. all \in Seq(Vote)
    BY <1>1, BatchAppended DEF BotBatch, Voting
  <2> HIDE DEF all
  <2>3. n \in Call
    BY <2>1, <2>2 DEF Call
  <2>4. /\ n.stage = k.stage /\ n.by = k.by /\ n.opening = k.opening /\ n.got = k.got
        /\ n.item = k.item /\ n.next = all /\ n.outcome = k.outcome
        /\ n.receipt = k.receipt /\ n.batch = k.batch
    BY <2>1 DEF Call
  <2> HIDE DEF n
  <2>5. batchFits(n) /\ BotBatch(n) = BotBatch(k)
    BY <1>3, <2>4 DEF batchFits, BotBatch
  <2>6. Admitted(n)
    BY <1>1, <2>4, <2>5 DEF Admitted, all
  <2>7. Good(c, n, w, s)
    BY <2>4, <2>6, Zenon DEF Good
  <2> QED
    BY <2>3, <2>7 DEF n
<1> QED
  BY <1>2, <1>3

\* The receipt is the stored vote of a complete ballot.
LEMMA AnswerGood ==
    ASSUME NEW c \in Submits, NEW k \in Call, NEW w, NEW s, Table(w, s), Good(c, k, w, s),
           k.stage = "receipt", k.item # None
    PROVE  LET n == answer(k) IN n \in Call /\ Good(c, n, w, s)
<1>1. c \in Calls /\ k.by = c /\ k.opening \in Openings /\ k.item \in Voting
      /\ s \in Seq(Vote) /\ Behind(k.item, w, s)
  BY DEF Calls, Call, Good, Table
<1>2. CASE resolveUserVoteReplay(k.item, k) # "replay"
  <2>1. "ERROR" \in Outcomes \ {"RECEIPT", "ALREADY_VOTED"}
    BY DEF Outcomes
  <2> QED
    BY <1>1, <1>2, <2>1, ReturnedGood DEF answer
<1>3. CASE resolveUserVoteReplay(k.item, k) = "replay"
  <2> DEFINE m == Returned(k, "RECEIPT")
  <2> DEFINE n == [m EXCEPT !.receipt = k.item.log[1]]
  <2>1. answer(k) = n
    BY <1>3 DEF answer
  <2>2. k.item.cast /\ k.item.log[1].opening = k.opening
    BY <1>3 DEF resolveUserVoteReplay
  <2>3. s # <<>> /\ s[1] = k.item.log[1] /\ s[1] \in Vote
    BY <1>1, <2>2, ReadVoteStored
  <2>4. Len(s) = BotCount + 1
    BY TableCount DEF Good
  <2>5. "RECEIPT" \in Outcomes
    BY DEF Outcomes
  <2>6. /\ m \in Call /\ m.stage = "done" /\ m.by = c /\ m.opening = k.opening
        /\ m.got = {} /\ m.item = None /\ m.next = <<>> /\ m.outcome = "RECEIPT"
    BY <1>1, <2>5, ReturnedFields
  <2> HIDE DEF m
  <2>7. n \in Call
    BY <2>3, <2>6 DEF Call
  <2>8. /\ n.stage = "done" /\ n.by = c /\ n.opening = k.opening /\ n.got = {}
        /\ n.item = None /\ n.next = <<>> /\ n.outcome = "RECEIPT"
        /\ n.receipt = k.item.log[1]
    BY <2>6 DEF Call
  <2> HIDE DEF n
  <2>9. Good(c, n, w, s)
    BY <1>1, <2>2, <2>3, <2>4, <2>8 DEF Good, Submission
  <2> QED
    BY <2>1, <2>7, <2>9
<1> QED
  BY <1>2, <1>3

\* A finalize request goes on only with a complete ballot.
LEMMA AdmitGood ==
    ASSUME NEW c \in Calls, c \notin Submits, NEW k \in Call, NEW w, NEW s, Good(c, k, w, s),
           k.stage # "idle", k.item # None
    PROVE  LET n == admitFinalizationSession(k) IN n \in Call /\ Good(c, n, w, s)
<1> DEFINE n == admitFinalizationSession(k)
<1>1. CASE (k.seen # None /\ k.seen.succeeded) \/ ~k.item.cast \/ ~votingComplete(k.item)
  <2>1. {"ALREADY_FINALIZED", "USER_NOT_VOTED", "VOTING_NOT_COMPLETE"}
            \subseteq Outcomes \ {"RECEIPT", "ALREADY_VOTED"}
    BY DEF Outcomes
  <2>2. \E o \in Outcomes \ {"RECEIPT", "ALREADY_VOTED"} : n = Returned(k, o)
    BY <1>1, <2>1 DEF admitFinalizationSession
  <2> QED
    BY <2>2, ReturnedGood
<1>2. CASE ~(k.seen # None /\ k.seen.succeeded) /\ k.item.cast /\ votingComplete(k.item)
  <2> DEFINE m == Enter(k, "queue")
  <2>1. n = [m EXCEPT !.item = k.item]
    BY <1>2 DEF admitFinalizationSession
  <2>2. "queue" \in Stages
    BY DEF Stages
  <2>3. /\ m \in Call /\ m.stage = "queue" /\ m.by = k.by /\ m.opening = k.opening
        /\ m.got = {} /\ m.next = <<>> /\ m.outcome = k.outcome /\ m.receipt = k.receipt
    BY <2>2, EnterFields
  <2> HIDE DEF m
  <2>4. n \in Call
    BY <2>1, <2>3 DEF Call
  <2>5. /\ n.stage = "queue" /\ n.by = k.by /\ n.opening = k.opening /\ n.got = {}
        /\ n.item = k.item /\ n.next = <<>> /\ n.outcome = k.outcome
        /\ n.receipt = k.receipt
    BY <2>1, <2>3 DEF Call
  <2> HIDE DEF n
  <2>6. Good(c, n, w, s)
    BY <1>2, <2>5 DEF Good, Submission, votingComplete
  <2> QED
    BY <2>4, <2>6 DEF n
<1> QED
  BY <1>1, <1>2

\* Whatever the stage, its last answer leaves the request with what it relies on.
LEMMA AfterLoadGood ==
    ASSUME NEW c \in Calls, NEW k \in Call, NEW w, NEW s, Table(w, s), Good(c, k, w, s),
           k.got = Needs(k.stage), Needs(k.stage) # {}, k.next = <<>>
    PROVE  LET n == AfterLoad(k) IN n \in Call /\ Good(c, n, w, s)
<1>1. k.stage \in {"validate", "addVote", "bots", "addBots", "receipt"}
  BY DEF Needs
<1>2. "voting" \in k.got
  BY <1>1 DEF Needs, Reads
<1>3. k.item # None /\ k.by = c /\ (k.stage # "validate" => c \in Submits)
  BY <1>1, <1>2 DEF Good, Submission
<1>4. CASE k.stage = "validate" /\ c \in Submits
  BY <1>3, <1>4, PrepareGood DEF AfterLoad
<1>5. CASE k.stage = "validate" /\ c \notin Submits
  BY <1>3, <1>5, AdmitGood DEF AfterLoad
<1>6. CASE k.stage = "addVote"
  BY <1>3, <1>6, AppendUserGood DEF AfterLoad
<1>7. CASE k.stage = "bots"
  BY <1>3, <1>7, RemainingGood DEF AfterLoad
<1>8. CASE k.stage = "addBots"
  BY <1>3, <1>8, AppendBotsGood DEF AfterLoad
<1>9. CASE k.stage = "receipt"
  BY <1>3, <1>9, AnswerGood DEF AfterLoad
<1> QED
  BY <1>1, <1>4, <1>5, <1>6, <1>7, <1>8, <1>9

-----------------------------------------------------------------------------
\* The invariant is preserved.

\* The invariant says of the table what the lemmas above assume.
LEMMA InvTable ==
    ASSUME Inv
    PROVE  Table(voting, votes)
BY DEF Inv, TypeOK, StoredVotesRestore, BallotBounded, Table

\* A step in which only request c moves.
LEMMA OneCallMoves ==
    ASSUME Inv, NEW c \in Calls, NEW n \in Call, Good(c, n, voting, votes),
           call' = [call EXCEPT ![c] = n],
           UNCHANGED <<voting, votes, current, live, touches>>,
           faults' \in 0..MaxFaults
    PROVE  Inv'
<1>1. call' \in [Calls -> Call]
  BY DEF Inv, TypeOK
<1>2. TypeOK'
  BY <1>1 DEF Inv, TypeOK
<1>3. StoredVotesRestore' /\ BallotBounded' /\ InputIsBallot'
  BY DEF Inv, StoredVotesRestore, BallotBounded, InputIsBallot
<1>4. \A d \in Calls : Good(d, call'[d], voting, votes)
  BY DEF Inv, TypeOK
<1>5. \A d \in Calls : Good(d, call'[d], voting', votes')
  BY <1>4
<1> QED
  BY <1>2, <1>3, <1>5 DEF Inv

\* A step in which no request moves and the table only changes revision or TTL.
LEMMA TableTouched ==
    ASSUME Inv, voting' \in Voting, voting.rev <= voting'.rev,
           voting'.log = voting.log, voting'.cast = voting.cast, voting'.bots = voting.bots,
           votes' = votes, current' \in Finalization \cup {None},
           current' # None => current # None /\ current'.input = current.input,
           live' \in BOOLEAN, touches' \in 0..MaxTouches, faults' \in 0..MaxFaults,
           call' = call
    PROVE  Inv'
<1>1. TypeOK'
  BY DEF Inv, TypeOK
<1>2. StoredVotesRestore' /\ BallotBounded' /\ InputIsBallot'
  BY DEF Inv, StoredVotesRestore, BallotBounded, InputIsBallot, restores
<1>3. /\ voting \in Voting /\ votes \in Seq(Vote) /\ call \in [Calls -> Call]
      /\ Len(votes) \in Nat /\ Len(votes) <= BotCount + 1
      /\ voting.bots \in Nat /\ voting.bots <= BotCount
  BY InvTable, TableCount, LenProperties DEF Inv, TypeOK, BallotBounded, Table
<1>4. Appends(voting, votes, voting', votes')
  BY <1>3 DEF Appends
<1>5. \A d \in Calls : Good(d, call'[d], voting', votes')
  BY <1>3, <1>4, GoodKept DEF Inv
<1> QED
  BY <1>1, <1>2, <1>5 DEF Inv

\* A vote write whose conditions hold appends to the ballot: what it was admitted
\* on is still what is stored.
LEMMA PersistAppends ==
    ASSUME Inv, NEW c \in Calls, Writing(c), persistCondition(call[c]), persistEffect(call[c])
    PROVE  /\ Table(voting', votes')
           /\ Appends(voting, votes, voting', votes')
           /\ current = None /\ voting'.cast
           /\ call[c].stage \in {"addVote", "addBots"}
           /\ call[c].stage = "addBots" => voting'.bots = BotCount
<1> DEFINE k == call[c]
<1>1. /\ k \in Call /\ k.item # None /\ k.item \in Voting /\ Good(c, k, voting, votes)
      /\ Admitted(k) /\ Behind(k.item, voting, votes) /\ k.next \in Seq(Vote)
  <2>1. k \in Call /\ Good(c, k, voting, votes) /\ k.next # <<>>
    BY DEF Inv, TypeOK, Writing
  <2>2. Admitted(k)
    BY <2>1 DEF Good
  <2>3. k.item # None
    BY <2>2 DEF Admitted
  <2>4. Behind(k.item, voting, votes)
    BY <2>1, <2>3 DEF Good
  <2>5. k.item \in Voting /\ k.next \in Seq(Vote)
    BY <2>1, <2>3 DEF Call
  <2> QED
    BY <2>1, <2>2, <2>3, <2>4, <2>5
<1>2. /\ voting \in Voting /\ votes \in Seq(Vote) /\ restores(voting, votes)
      /\ Len(votes) \in Nat /\ Len(votes) <= BotCount + 1 /\ BotCount \in Nat \ {0}
  BY LenProperties, VotingConstants DEF Inv, TypeOK, StoredVotesRestore, BallotBounded
<1>3. voting.rev = k.item.rev /\ current = None
  BY DEF persistCondition
<1>4. k.item.log = voting.log /\ k.item.cast = voting.cast /\ k.item.bots = voting.bots
  BY <1>1, <1>3, Zenon DEF Behind
<1>5. k.item.log = votes
  BY <1>2, <1>4 DEF restores
<1>6. PICK exp \in {k.item.exp, k.item.exp + 1} :
        voting' = [rev |-> k.item.rev + 1, exp |-> exp, log |-> k.next, cast |-> TRUE,
                   bots |-> nextBotCount(k)]
  BY DEF persistEffect
<1> HIDE DEF k
<1>7. CASE k.stage = "addVote"
  <2>1. ~voting.cast /\ votes = <<>> /\ voting.bots = 0
    <3>1. ~k.item.cast
      BY <1>1, <1>7 DEF Admitted
    <3>2. ~voting.cast
      BY <1>4, <3>1
    <3>3. votes = <<>>
      BY <1>2, <3>2 DEF restores
    <3>4. Len(votes) = 0
      BY <3>3
    <3>5. voting.bots = Len(votes) - 0
      BY <1>2, <3>2 DEF restores
    <3> QED
      BY <3>2, <3>3, <3>4, <3>5
  <2>2. k.by \in Submits /\ k.opening \in Openings
    BY <1>1, <1>7 DEF Good, Submission
  <2>3. Len(k.next) = 1 /\ k.next[1].opening = k.opening /\ Len(k.next) <= BotCount + 1
    <3>1. k.next = <<[by |-> k.by, opening |-> k.opening]>>
      BY <1>1, <1>7 DEF Admitted
    <3>2. Len(k.next) = 1 /\ k.next[1] = [by |-> k.by, opening |-> k.opening]
      BY <3>1
    <3>3. 1 <= BotCount + 1
      BY <1>2
    <3> QED
      BY <3>2, <3>3
  <2>4. votes' = k.next
    <3>1. /\ Len(votes) <= Len(k.next)
          /\ \A i \in 1..Len(votes) : k.next[i] = votes[i]
      BY <2>1, <2>3
    <3>2. votes' = [i \in 1..(IF Len(votes) > Len(k.next) THEN Len(votes) ELSE Len(k.next)) |->
                      IF i > Len(votes) /\ i <= Len(k.next) THEN k.next[i] ELSE votes[i]]
      BY <1>5 DEF persistEffect, k
    <3> QED
      BY <1>1, <1>2, <3>1, <3>2, PutsAppend
  <2>5. nextBotCount(k) = 0
    BY <1>4, <1>7, <2>1 DEF nextBotCount
  <2>6. voting' \in Voting /\ voting'.rev = voting.rev + 1 /\ voting'.log = k.next
        /\ voting'.cast = TRUE /\ voting'.bots = 0
    BY <1>1, <1>3, <1>6, <2>5 DEF Voting
  <2>7. k.opening # None
    BY <2>2, VotingConstants
  <2>8. restores(voting', votes')
    <3>1. k.next # <<>> /\ 0 = Len(k.next) - 1
      BY <1>1, <2>3
    <3>2. \A i \in 1..Len(k.next) : (k.next[i].opening # None) = (i = 1)
      BY <2>3, <2>7
    <3> QED
      BY <2>4, <2>6, <3>1, <3>2 DEF restores
  <2>9. Table(voting', votes')
    <3>1. votes' \in Seq(Vote) /\ Len(votes') <= BotCount + 1
      BY <1>1, <2>3, <2>4
    <3> QED
      BY <2>6, <2>8, <3>1 DEF Table
  <2>10. Appends(voting, votes, voting', votes')
    <3>1. voting.rev \in Nat /\ Len(votes) = 0
      BY <1>2, <2>1 DEF Voting
    <3>2. /\ voting.rev <= voting'.rev /\ voting.rev # voting'.rev
          /\ voting.bots <= voting'.bots /\ voting'.bots <= BotCount
          /\ Len(votes) <= Len(votes') /\ Len(votes') <= BotCount + 1
          /\ \A i \in 1..Len(votes) : votes'[i] = votes[i]
      <4>1. Len(votes') = 1 /\ Len(votes') <= BotCount + 1
        BY <2>3, <2>4
      <4>2. voting.rev + 1 # voting.rev /\ voting.rev <= voting.rev + 1 /\ 0 <= BotCount
        BY <1>2, <3>1
      <4>3. \A i \in 1..Len(votes) : FALSE
        BY <3>1
      <4> QED
        BY <2>1, <2>6, <3>1, <4>1, <4>2, <4>3
    <3> QED
      BY <2>6, <3>2 DEF Appends
  <2> QED
    BY <1>3, <1>7, <2>6, <2>9, <2>10 DEF k
<1>8. CASE k.stage = "addBots"
  <2>1. k.item.cast /\ batchFits(k) /\ k.next = votes \o BotBatch(k)
    BY <1>1, <1>5, <1>8 DEF Admitted
  <2>2. k.by \in Submits /\ k.batch \in Nat
    BY <1>1, <1>2, <1>8 DEF Good, Submission, Call
  <2>3. /\ Len(k.next) = Len(votes) + k.batch
        /\ \A i \in 1..Len(votes) : k.next[i] = votes[i]
        /\ \A i \in (Len(votes) + 1)..Len(k.next) : k.next[i] = [by |-> k.by, opening |-> None]
    BY <1>2, <2>1, <2>2, BatchAppended DEF BotBatch
  <2>4. voting.cast /\ votes # <<>> /\ voting.bots = Len(votes) - 1 /\ voting.bots \in Nat
    <3>1. voting.cast
      BY <1>4, <2>1
    <3> QED
      BY <1>2, <3>1 DEF restores, Voting
  <2>5. votes' = k.next
    <3>1. Len(votes) <= Len(k.next)
      BY <1>2, <2>2, <2>3
    <3>2. votes' = [i \in 1..(IF Len(votes) > Len(k.next) THEN Len(votes) ELSE Len(k.next)) |->
                      IF i > Len(votes) /\ i <= Len(k.next) THEN k.next[i] ELSE votes[i]]
      BY <1>5 DEF persistEffect, k
    <3> QED
      BY <1>1, <1>2, <2>3, <3>1, <3>2, PutsAppend
  <2>6. nextBotCount(k) = BotCount /\ voting.bots + k.batch = BotCount
    <3>1. nextBotCount(k) = voting.bots + k.batch
      BY <1>4, <1>8 DEF nextBotCount
    <3>2. voting.bots + k.batch <= BotCount
      BY <1>4, <2>1 DEF batchFits
    <3>3. voting.bots + k.batch >= BotCount
      BY <1>1, <1>8 DEF Good
    <3> QED
      BY <1>2, <2>2, <2>4, <3>1, <3>2, <3>3
  <2>7. voting' \in Voting /\ voting'.rev = voting.rev + 1 /\ voting'.log = k.next
        /\ voting'.cast = TRUE /\ voting'.bots = BotCount
    BY <1>1, <1>2, <1>3, <1>6, <2>6 DEF Voting
  <2>8. Len(k.next) = BotCount + 1
    BY <1>2, <2>2, <2>3, <2>4, <2>6
  <2>9. \A i \in 1..Len(k.next) : (k.next[i].opening # None) = (i = 1)
    <3>1. \A i \in 1..Len(votes) : (votes[i].opening # None) = (i = 1)
      BY <1>2 DEF restores
    <3>2. Len(votes) >= 1
      BY <1>2, <2>4
    <3> QED
      BY <1>2, <2>3, <2>8, <3>1, <3>2
  <2>10. restores(voting', votes')
    <3>1. k.next # <<>>
      BY <1>2, <2>8
    <3>2. BotCount = Len(k.next) - 1
      BY <1>2, <2>8
    <3> QED
      BY <2>5, <2>7, <2>9, <3>1, <3>2 DEF restores
  <2>11. Table(voting', votes')
    BY <1>1, <1>2, <2>5, <2>7, <2>8, <2>10 DEF Table
  <2>12. Appends(voting, votes, voting', votes')
    <3>1. voting.rev \in Nat
      BY <1>2 DEF Voting
    <3>2. /\ voting.rev <= voting'.rev /\ voting.rev # voting'.rev
          /\ voting.bots <= voting'.bots /\ voting'.bots <= BotCount
          /\ Len(votes) <= Len(votes') /\ Len(votes') <= BotCount + 1
      BY <1>2, <2>2, <2>3, <2>4, <2>5, <2>6, <2>7, <2>8, <3>1
    <3>3. \A i \in 1..Len(votes) : votes'[i] = votes[i]
      BY <2>3, <2>5
    <3> QED
      BY <2>7, <3>2, <3>3 DEF Appends
  <2> QED
    BY <1>3, <1>8, <2>7, <2>11, <2>12 DEF k
<1> QED
  BY <1>1, <1>7, <1>8 DEF Admitted

\* Every answer to a read leaves the request with what it has established.
LEMMA AnsweredInv ==
    ASSUME Inv, NEW c \in Calls, NEW r \in Reads, Reading(c, r), NEW k \in Call,
           Good(c, k, voting, votes), k.stage = call[c].stage, k.got = call[c].got,
           k.next = <<>>, r = "voting" => k.item # None, Answered(c, r, k)
    PROVE  Inv'
<1> DEFINE g == [k EXCEPT !.got = @ \cup {r}]
<1>1. g \in Call
  BY DEF Call
<1>2. /\ g.stage = k.stage /\ g.by = k.by /\ g.opening = k.opening
      /\ g.got = k.got \cup {r} /\ g.item = k.item /\ g.next = <<>> /\ g.batch = k.batch
      /\ g.outcome = k.outcome /\ g.receipt = k.receipt
  BY DEF Call
<1>3. r \in Needs(k.stage)
  BY DEF Reading
<1>4. call' = [call EXCEPT ![c] = IF g.got = Needs(k.stage) THEN AfterLoad(g) ELSE g]
      /\ UNCHANGED <<voting, votes, current, live, touches, faults>>
  BY DEF Answered
<1> HIDE DEF g
<1>5. Good(c, g, voting, votes)
  BY <1>2, Zenon DEF Good
<1>6. CASE g.got = Needs(k.stage)
  <2>1. AfterLoad(g) \in Call /\ Good(c, AfterLoad(g), voting, votes)
    BY <1>1, <1>2, <1>3, <1>5, <1>6, InvTable, AfterLoadGood
  <2> QED
    BY <1>4, <1>6, <2>1, OneCallMoves DEF Inv, TypeOK
<1>7. CASE g.got # Needs(k.stage)
  BY <1>1, <1>4, <1>5, <1>7, OneCallMoves DEF Inv, TypeOK
<1> QED
  BY <1>6, <1>7

\* A request may end at any time without a receipt or a refusal.
LEMMA EndsInv ==
    ASSUME Inv, NEW c \in Calls, call[c].stage # "idle",
           NEW o \in Outcomes \ {"RECEIPT", "ALREADY_VOTED"},
           call' = [call EXCEPT ![c] = Returned(call[c], o)],
           UNCHANGED <<voting, votes, current, live, touches>>, faults' \in 0..MaxFaults
    PROVE  Inv'
<1>1. call[c] \in Call /\ Good(c, call[c], voting, votes)
  BY DEF Inv, TypeOK
<1>2. Returned(call[c], o) \in Call /\ Good(c, Returned(call[c], o), voting, votes)
  BY <1>1, ReturnedGood
<1> QED
  BY <1>2, OneCallMoves

\* A vote write, after which its request enters a stage or ends.
LEMMA PersistInv ==
    ASSUME Inv, NEW c \in Calls, Writing(c), persistCondition(call[c]), persistEffect(call[c]),
           faults' \in 0..MaxFaults,
           \/ call' = [call EXCEPT ![c] =
                Enter(call[c], IF call[c].stage = "addVote" THEN "bots" ELSE "receipt")]
           \/ call' = [call EXCEPT ![c] = Returned(call[c], "ERROR")]
    PROVE  Inv'
<1>1. /\ Table(voting', votes') /\ Appends(voting, votes, voting', votes')
      /\ current = None /\ voting'.cast /\ call[c].stage \in {"addVote", "addBots"}
      /\ call[c].stage = "addBots" => voting'.bots = BotCount
  BY PersistAppends
<1>2. /\ current' = current /\ touches' = touches /\ live' = TRUE
  BY DEF persistEffect
<1>3. /\ voting \in Voting /\ votes \in Seq(Vote) /\ voting' \in Voting /\ votes' \in Seq(Vote)
      /\ call \in [Calls -> Call]
  BY <1>1 DEF Inv, TypeOK, Table
<1>4. \A d \in Calls : Good(d, call[d], voting', votes')
  BY <1>1, <1>3, GoodKept DEF Inv
<1>5. c \in Submits /\ call[c].stage # "idle"
  BY <1>1, <1>4 DEF Good, Submission
<1>6. call'[c] \in Call /\ Good(c, call'[c], voting', votes')
  <2>1. CASE call'[c] = Returned(call[c], "ERROR")
    <3>1. "ERROR" \in Outcomes \ {"RECEIPT", "ALREADY_VOTED"}
      BY DEF Outcomes
    <3> QED
      BY <1>3, <1>4, <1>5, <2>1, <3>1, ReturnedGood
  <2>2. CASE call'[c] = Enter(call[c], "bots")
    <3>1. "bots" \in Submission
      BY DEF Submission
    <3> QED
      BY <1>3, <1>4, <1>5, <2>2, <3>1, EnterGood
  <2>3. CASE call'[c] = Enter(call[c], "receipt") /\ call[c].stage = "addBots"
    <3>1. "receipt" \in Submission
      BY DEF Submission
    <3> QED
      BY <1>1, <1>3, <1>4, <1>5, <2>3, <3>1, EnterGood
  <2> QED
    BY <1>1, <1>3, <2>1, <2>2, <2>3
<1>7. call' \in [Calls -> Call] /\ \A d \in Calls : d # c => call'[d] = call[d]
  BY <1>3, <1>6
<1>8. \A d \in Calls : Good(d, call'[d], voting', votes')
  BY <1>4, <1>6, <1>7
<1>9. TypeOK'
  BY <1>2, <1>3, <1>7 DEF Inv, TypeOK
<1>10. StoredVotesRestore' /\ BallotBounded' /\ InputIsBallot'
  BY <1>1, <1>2 DEF Table, StoredVotesRestore, BallotBounded, InputIsBallot
<1> QED
  BY <1>8, <1>9, <1>10 DEF Inv

\* The finalization that is queued has read the complete ballot.
LEMMA QueueInv ==
    ASSUME Inv, NEW c \in Calls, QueueFinalization(c)
    PROVE  Inv'
<1> DEFINE k == call[c]
<1>1. /\ k \in Call /\ Good(c, k, voting, votes) /\ k.stage = "queue"
      /\ k.item # None /\ k.item.cast /\ k.item.bots >= BotCount
      /\ Behind(k.item, voting, votes)
  BY DEF Inv, TypeOK, QueueFinalization, Good
<1>2. k.item \in Voting /\ k.item.log \in Seq(Vote) /\ Len(k.item.log) \in Nat
  BY <1>1, LenProperties DEF Call, Voting
<1>3. {"QUEUED", "NOT_QUEUED"} \subseteq Outcomes \ {"RECEIPT", "ALREADY_VOTED"}
  BY DEF Outcomes
<1>4. CASE live /\ current = None
  <2>1. k.item.log = votes /\ Len(votes) = BotCount + 1
    <3>1. Len(k.item.log) = k.item.bots + 1
      <4>1. restores(k.item, k.item.log) /\ k.item.cast
        BY <1>1 DEF Behind
      <4>2. k.item.bots = Len(k.item.log) - 1
        BY <4>1, Zenon DEF restores
      <4>3. k.item.bots \in Nat
        BY <1>2 DEF Voting
      <4> QED
        BY <1>2, <4>2, <4>3
    <3>2. votes \in Seq(Vote) /\ Len(votes) \in Nat /\ Len(votes) <= BotCount + 1
          /\ BotCount \in Nat /\ k.item.bots \in Nat
      BY <1>2, LenProperties, VotingConstants DEF Inv, TypeOK, BallotBounded, Voting
    <3>3. Len(k.item.log) <= Len(votes) /\ \A i \in 1..Len(k.item.log) : votes[i] = k.item.log[i]
      BY <1>1 DEF Behind
    <3>4. Len(votes) = BotCount + 1 /\ Len(k.item.log) = Len(votes)
      BY <1>1, <3>1, <3>2, <3>3
    <3> QED
      BY <1>2, <3>2, <3>3, <3>4, SeqEqual
  <2>2. /\ current' = [succeeded |-> FALSE, expired |-> FALSE, input |-> k.item.log]
        /\ voting' = [voting EXCEPT !.exp = @ + 1]
        /\ call' = [call EXCEPT ![c] = Returned(call[c], "QUEUED")]
        /\ votes' = votes /\ live' = live /\ touches' = touches /\ faults' = faults
    BY <1>4 DEF QueueFinalization
  <2>3. /\ voting' \in Voting /\ voting'.rev = voting.rev /\ voting'.log = voting.log
        /\ voting'.cast = voting.cast /\ voting'.bots = voting.bots
    BY <2>2 DEF Inv, TypeOK, Voting
  <2>4. StoredVotesRestore' /\ BallotBounded'
    BY <2>2, <2>3 DEF Inv, StoredVotesRestore, BallotBounded, restores
  <2>5. InputIsBallot' /\ current' \in Finalization
    BY <1>2, <2>1, <2>2 DEF InputIsBallot, Finalization
  <2>6. /\ voting \in Voting /\ votes \in Seq(Vote) /\ call \in [Calls -> Call]
        /\ Len(votes) \in Nat /\ voting.bots \in Nat /\ voting.bots <= BotCount
        /\ voting.rev \in Nat /\ Len(votes) <= BotCount + 1
    BY InvTable, TableCount, LenProperties DEF Inv, TypeOK, Table, Voting
  <2>7. Appends(voting, votes, voting', votes')
    BY <2>2, <2>3, <2>6 DEF Appends
  <2>8. \A d \in Calls : Good(d, call[d], voting', votes')
    BY <2>2, <2>3, <2>6, <2>7, GoodKept DEF Inv
  <2>9. Returned(k, "QUEUED") \in Call /\ Good(c, Returned(k, "QUEUED"), voting', votes')
    BY <1>1, <1>3, <2>8, ReturnedGood
  <2>10. call' \in [Calls -> Call] /\ \A d \in Calls : Good(d, call'[d], voting', votes')
    BY <2>2, <2>6, <2>8, <2>9
  <2>11. TypeOK'
    BY <2>2, <2>3, <2>5, <2>10 DEF Inv, TypeOK
  <2> QED
    BY <2>4, <2>5, <2>10, <2>11 DEF Inv
<1>5. CASE ~(live /\ current = None)
  <2>1. /\ call' = [call EXCEPT ![c] = Returned(call[c], "NOT_QUEUED")]
        /\ UNCHANGED <<voting, votes, current, live, touches>> /\ faults' = faults
    BY <1>5 DEF QueueFinalization
  <2> QED
    BY <1>1, <1>3, <2>1, EndsInv DEF Inv, TypeOK
<1> QED
  BY <1>4, <1>5

\* A new session is empty, and no request has run.
LEMMA InvInit ==
    ASSUME Init
    PROVE  Inv
<1>1. /\ <<>> \in Seq(Vote) /\ Len(<<>>) = 0 /\ BotCount \in Nat /\ MaxTouches \in Nat
      /\ MaxFaults \in Nat
  BY VotingConstants
<1>2. \A c \in Calls : Idle(c) \in Call
  BY VotingConstants DEF Idle, Call, Stages, Outcomes
<1>3. TypeOK
  BY <1>1, <1>2, SMT DEF Init, TypeOK, Voting
<1>4. StoredVotesRestore /\ BallotBounded /\ InputIsBallot
  <2>1. /\ votes = <<>> /\ voting.log = <<>> /\ voting.cast = FALSE /\ voting.bots = 0
        /\ current = None
    BY DEF Init
  <2>2. 0 = 0 - 0 /\ 0 <= BotCount + 1 /\ \A i \in 1..0 : FALSE
    BY <1>1
  <2>3. restores(voting, votes)
    BY <1>1, <2>1, <2>2, Zenon DEF restores
  <2> QED
    BY <1>1, <2>1, <2>2, <2>3 DEF StoredVotesRestore, BallotBounded, InputIsBallot
<1>5. ASSUME NEW c \in Calls
      PROVE  Good(c, call[c], voting, votes)
  <2>1. call[c] = Idle(c)
    BY DEF Init
  <2>2. /\ call[c].by = c /\ call[c].stage = "idle" /\ call[c].got = {}
        /\ call[c].item = None /\ call[c].next = <<>> /\ call[c].outcome = "none"
    BY <2>1 DEF Idle
  <2> QED
    BY <2>2 DEF Good, Submission
<1> QED
  BY <1>3, <1>4, <1>5 DEF Inv

\* A request begins: a submission with an opening, or a finalize request.
LEMMA BeginInv ==
    ASSUME Inv, NEW c \in Calls, NEW k \in Call,
           k.by = c, k.outcome = "none", c \in Submits => k.opening \in Openings,
           call' = [call EXCEPT ![c] = Enter(k, "validate")],
           UNCHANGED <<voting, votes, current, live, touches, faults>>
    PROVE  Inv'
<1>1. "validate" \in Stages
  BY DEF Stages
<1> DEFINE n == Enter(k, "validate")
<1>2. /\ n \in Call /\ n.stage = "validate" /\ n.by = c /\ n.opening = k.opening
      /\ n.got = {} /\ n.item = None /\ n.next = <<>> /\ n.outcome = "none"
  BY <1>1, EnterFields
<1> HIDE DEF n
<1>3. Good(c, n, voting, votes)
  BY <1>2 DEF Good, Submission
<1> QED
  BY <1>2, <1>3, OneCallMoves DEF Inv, TypeOK, n

\* The voting item is read: it is the stored one.
LEMMA LoadVotingInv ==
    ASSUME Inv, NEW c \in Calls, LoadVotingItem(c)
    PROVE  Inv'
<1>1. /\ call[c] \in Call /\ Good(c, call[c], voting, votes) /\ Reading(c, "voting")
      /\ call[c].next = <<>> /\ call[c].stage # "idle" /\ voting \in Voting /\ votes \in Seq(Vote)
  BY DEF Inv, TypeOK, LoadVotingItem, Reading, Needs
<1>2. CASE live
  <2> DEFINE n == [call[c] EXCEPT !.item = voting]
  <2>1. n \in Call
    BY <1>1 DEF Call
  <2>2. /\ n.stage = call[c].stage /\ n.by = call[c].by /\ n.opening = call[c].opening
        /\ n.got = call[c].got /\ n.item = voting /\ n.next = <<>>
        /\ n.batch = call[c].batch /\ n.outcome = call[c].outcome
        /\ n.receipt = call[c].receipt
    BY <1>1 DEF Call
  <2>3. Answered(c, "voting", n)
    BY <1>2 DEF LoadVotingItem
  <2> HIDE DEF n
  <2>4. Behind(voting, voting, votes)
    <3>1. restores(voting, votes) /\ votes = voting.log
      BY DEF Inv, StoredVotesRestore, restores
    <3>2. voting.rev \in Nat /\ voting.bots \in Nat /\ Len(votes) \in Nat
      BY <1>1, LenProperties DEF Voting
    <3>3. voting.rev <= voting.rev /\ voting.bots <= voting.bots /\ Len(votes) <= Len(votes)
      BY <3>2
    <3> QED
      BY <3>1, <3>3 DEF Behind
  <2>5. voting # None
    BY <1>1, VotingConstants
  <2>6. n.stage # "queue"
    BY <1>1, <2>2 DEF Reading, Needs
  <2>7. n.stage = "addBots" => voting.cast /\ voting.bots + n.batch >= BotCount
    BY <1>1, <2>2 DEF Good
  <2>8. Good(c, n, voting, votes)
    BY <1>1, <2>2, <2>4, <2>5, <2>6, <2>7, Zenon DEF Good
  <2> QED
    BY <1>1, <2>1, <2>2, <2>3, <2>5, <2>8, AnsweredInv DEF Reads
<1>3. CASE ~live
  <2>1. "NOT_FOUND" \in Outcomes \ {"RECEIPT", "ALREADY_VOTED"}
    BY DEF Outcomes
  <2> QED
    BY <1>1, <1>3, <2>1, EndsInv DEF LoadVotingItem, Ends, Inv, TypeOK
<1> QED
  BY <1>2, <1>3

\* The other reads leave what the request has of the table as it is.
LEMMA LoadOtherInv ==
    ASSUME Inv, NEW c \in Calls,
           LoadVoteItems(c) \/ CheckFinalRoot(c) \/ LoadFinalization(c)
    PROVE  Inv'
<1>1. call[c] \in Call /\ Good(c, call[c], voting, votes)
  BY DEF Inv, TypeOK
<1>2. "UNAVAILABLE" \in Outcomes \ {"RECEIPT", "ALREADY_VOTED"}
  BY DEF Outcomes
<1>3. PICK r \in {"votes", "check", "current"} : Reading(c, r)
  BY DEF LoadVoteItems, CheckFinalRoot, LoadFinalization
<1>4. call[c].stage # "idle" /\ call[c].next = <<>>
  BY <1>3 DEF Reading, Needs
<1>5. CASE Ends(c, "UNAVAILABLE")
  BY <1>2, <1>4, <1>5, EndsInv DEF Ends, Inv, TypeOK
<1>6. CASE Reading(c, "votes") /\ Answered(c, "votes", call[c])
  BY <1>1, <1>4, <1>6, AnsweredInv DEF Reads
<1>7. CASE Reading(c, "check") /\ Answered(c, "check", call[c])
  BY <1>1, <1>4, <1>7, AnsweredInv DEF Reads
<1>8. CASE LoadFinalization(c)
  <2> DEFINE fin == getCurrentFinalizationRecord
             n == [call[c] EXCEPT !.seen = fin]
  <2>1. fin \in Finalization \cup {None}
    BY DEF Inv, TypeOK, getCurrentFinalizationRecord
  <2> HIDE DEF fin
  <2>2. n \in Call
    BY <1>1, <2>1 DEF Call
  <2>3. /\ n.stage = call[c].stage /\ n.by = call[c].by /\ n.opening = call[c].opening
        /\ n.got = call[c].got /\ n.item = call[c].item /\ n.next = <<>>
        /\ n.batch = call[c].batch /\ n.outcome = call[c].outcome
        /\ n.receipt = call[c].receipt
    BY <1>1, <1>4 DEF Call
  <2>4. Reading(c, "current") /\ Answered(c, "current", n)
    BY <1>8 DEF LoadFinalization, fin
  <2> HIDE DEF n
  <2>5. Good(c, n, voting, votes)
    BY <1>1, <1>4, <2>2, <2>3, CountersGood
  <2> QED
    BY <2>2, <2>3, <2>4, <2>5, AnsweredInv DEF Reads
<1> QED
  BY <1>5, <1>6, <1>7, <1>8 DEF LoadVoteItems, CheckFinalRoot

\* The rate limit admits the request to the write of the user's vote, or ends it.
LEMMA RateLimitInv ==
    ASSUME Inv, NEW c \in Calls, ConsumeRateLimit(c)
    PROVE  Inv'
<1> DEFINE k == [call[c] EXCEPT !.attempt = 0]
<1>1. call[c] \in Call /\ Good(c, call[c], voting, votes) /\ call[c].stage = "limit"
  BY DEF Inv, TypeOK, ConsumeRateLimit
<1>2. c \in Submits /\ call[c].next = <<>>
  <2>1. call[c].next # <<>> => Admitted(call[c])
    BY <1>1 DEF Good
  <2> QED
    BY <1>1, <2>1 DEF Good, Admitted, Submission
<1>3. k \in Call
  <2>1. 0 \in 0..(MaxConditionalRetries - 1)
    BY VotingConstants
  <2> QED
    BY <1>1, <2>1 DEF Call
<1>4. /\ k.stage = call[c].stage /\ k.by = call[c].by /\ k.opening = call[c].opening
      /\ k.got = call[c].got /\ k.item = call[c].item /\ k.next = <<>>
      /\ k.outcome = call[c].outcome /\ k.receipt = call[c].receipt
  BY <1>1, <1>2 DEF Call
<1>5. CASE call' = [call EXCEPT ![c] = Enter(k, "addVote")]
  <2> HIDE DEF k
  <2>1. Good(c, k, voting, votes)
    BY <1>1, <1>2, <1>3, <1>4, CountersGood
  <2>2. "addVote" \in Submission
    BY DEF Submission
  <2>3. Enter(k, "addVote") \in Call /\ Good(c, Enter(k, "addVote"), voting, votes)
    BY <1>1, <1>2, <1>3, <1>4, <2>1, <2>2, EnterGood
  <2> QED
    BY <1>5, <2>3, OneCallMoves DEF ConsumeRateLimit, Inv, TypeOK
<1>6. CASE call' = [call EXCEPT ![c] = Returned(call[c], "RATE_LIMITED")]
  <2>1. "RATE_LIMITED" \in Outcomes \ {"RECEIPT", "ALREADY_VOTED"}
    BY DEF Outcomes
  <2> QED
    BY <1>1, <1>6, <2>1, EndsInv DEF ConsumeRateLimit, Inv, TypeOK
<1> QED
  BY <1>5, <1>6 DEF ConsumeRateLimit

\* A write whose conditions fail begins again with its reads, or gives up.
LEMMA ConflictInv ==
    ASSUME Inv, NEW c \in Calls, PersistConflict(c)
    PROVE  Inv'
<1>1. /\ call[c] \in Call /\ Good(c, call[c], voting, votes) /\ Admitted(call[c])
      /\ call[c].stage \in {"addVote", "addBots"}
      /\ UNCHANGED <<voting, votes, current, live, touches>> /\ faults' \in 0..MaxFaults
  BY DEF Inv, TypeOK, PersistConflict, Writing, Good, Admitted
<1>2. CASE call' = [call EXCEPT ![c] = Returned(call[c], "CONTENTION")]
  <2>1. "CONTENTION" \in Outcomes \ {"RECEIPT", "ALREADY_VOTED"}
    BY DEF Outcomes
  <2> QED
    BY <1>1, <1>2, <2>1, EndsInv
<1> DEFINE k == [call[c] EXCEPT !.attempt = @ + 1]
<1>3. CASE /\ call[c].attempt + 1 # MaxConditionalRetries
           /\ call' = [call EXCEPT ![c] = Enter(k, call[c].stage)]
  <2>1. k \in Call
    <3>1. call[c].attempt \in 0..(MaxConditionalRetries - 1) /\ MaxConditionalRetries \in Nat
      BY <1>1, VotingConstants DEF Call
    <3>2. call[c].attempt + 1 \in 0..(MaxConditionalRetries - 1)
      BY <1>3, <3>1
    <3> QED
      BY <1>1, <3>2 DEF Call
  <2>2. /\ k.by = call[c].by /\ k.opening = call[c].opening /\ k.batch = call[c].batch
        /\ k.outcome = call[c].outcome /\ k.receipt = call[c].receipt
    BY <1>1 DEF Call
  <2> HIDE DEF k
  <2> DEFINE st == call[c].stage
             n == Enter(k, st)
  <2>3. st \in Stages /\ st \in {"addVote", "addBots"} /\ st \in Submission
    BY <1>1 DEF Stages, Submission
  <2> HIDE DEF st
  <2>4. /\ n \in Call /\ n.stage = st /\ n.by = k.by /\ n.opening = k.opening
        /\ n.got = {} /\ n.item = None /\ n.next = <<>> /\ n.batch = k.batch
        /\ n.outcome = k.outcome /\ n.receipt = k.receipt
    BY <2>1, <2>3, EnterFields
  <2> HIDE DEF n
  <2>5. st # "idle" /\ st # "queue" /\ st # "receipt"
    BY <2>3
  <2>6. Good(c, n, voting, votes)
    BY <1>1, <2>2, <2>3, <2>4, <2>5, Zenon DEF Good, st
  <2> QED
    BY <1>1, <1>3, <2>4, <2>6, OneCallMoves DEF n, st
<1> QED
  BY <1>2, <1>3 DEF PersistConflict

\* The steps that are no request of this module: the commit of a success, the
\* touch of a session, and the end of a TTL.
LEMMA TableInv ==
    ASSUME Inv,
           CommitSuccess \/ TouchSession \/ ExpireSession \/ ExpirePointer \/ DeletePointer
    PROVE  Inv'
<1>1. /\ voting \in Voting /\ current \in Finalization \cup {None} /\ live \in BOOLEAN
      /\ touches \in 0..MaxTouches /\ faults \in 0..MaxFaults
      /\ MaxTouches \in Nat /\ MaxFaults \in Nat
      /\ voting.rev \in Nat /\ voting.exp \in Nat
  BY VotingConstants DEF Inv, TypeOK, Voting
<1>2. Fault => faults' \in 0..MaxFaults
  BY <1>1 DEF Fault
<1>3. CASE CommitSuccess
  <2>1. PICK exp \in {voting.exp, voting.exp + 1} : voting' = [voting EXCEPT !.exp = exp]
    BY <1>3 DEF CommitSuccess
  <2>2. /\ voting' \in Voting /\ voting'.rev = voting.rev /\ voting'.log = voting.log
        /\ voting'.cast = voting.cast /\ voting'.bots = voting.bots
    BY <1>1, <2>1 DEF Voting
  <2>3. /\ current # None /\ current' = [current EXCEPT !.succeeded = TRUE]
        /\ UNCHANGED <<votes, live, touches, faults, call>>
    BY <1>3 DEF CommitSuccess
  <2>4. current' \in Finalization /\ current'.input = current.input
    BY <1>1, <2>3 DEF Finalization
  <2> QED
    BY <1>1, <2>2, <2>3, <2>4, TableTouched
<1>4. CASE TouchSession
  <2>1. PICK exp \in {voting.exp, voting.exp + 1} :
          voting' = [voting EXCEPT !.rev = @ + 1, !.exp = exp]
    BY <1>4 DEF TouchSession
  <2>2. /\ voting' \in Voting /\ voting.rev <= voting'.rev /\ voting'.log = voting.log
        /\ voting'.cast = voting.cast /\ voting'.bots = voting.bots
    <3>1. voting.rev + 1 \in Nat /\ voting.rev <= voting.rev + 1 /\ exp \in Nat
      BY <1>1
    <3>2. voting' \in Voting
      BY <1>1, <2>1, <3>1 DEF Voting
    <3>3. /\ voting'.rev = voting.rev + 1 /\ voting'.log = voting.log
          /\ voting'.cast = voting.cast /\ voting'.bots = voting.bots
      BY <1>1, <2>1 DEF Voting
    <3> QED
      BY <3>1, <3>2, <3>3
  <2>3. UNCHANGED <<votes, current, live, faults, call>> /\ touches' \in 0..MaxTouches
    BY <1>1, <1>4 DEF TouchSession
  <2> QED
    BY <1>1, <2>2, <2>3, TableTouched
<1>5. CASE ExpireSession
  <2>1. UNCHANGED <<voting, votes, current, touches, call>> /\ Fault /\ live' = FALSE
    BY <1>5 DEF ExpireSession
  <2>2. faults' \in 0..MaxFaults /\ live' \in BOOLEAN
    BY <1>2, <2>1
  <2> QED
    BY <1>1, <2>1, <2>2, TableTouched
<1>6. CASE ExpirePointer
  <2>1. /\ current # None /\ current' = [current EXCEPT !.expired = TRUE]
        /\ UNCHANGED <<voting, votes, live, touches, call>> /\ faults' \in 0..MaxFaults
    BY <1>2, <1>6 DEF ExpirePointer
  <2>2. current' \in Finalization /\ current'.input = current.input
    BY <1>1, <2>1 DEF Finalization
  <2> QED
    BY <1>1, <2>1, <2>2, TableTouched
<1>7. CASE DeletePointer
  BY <1>1, <1>7, TableTouched DEF DeletePointer
<1> QED
  BY <1>3, <1>4, <1>5, <1>6, <1>7

\* Every step preserves the invariant.
LEMMA InvNext ==
    ASSUME Inv, [Next]_vars
    PROVE  Inv'
<1>1. ASSUME NEW c \in Submits, NEW o \in Openings, SubmitVote(c, o)
      PROVE  Inv'
  <2> DEFINE k == [call[c] EXCEPT !.opening = o]
  <2>1. c \in Calls
    BY DEF Calls
  <2>2. call[c] \in Call /\ call[c].by = c /\ call[c].outcome = "none"
    BY <1>1, <2>1 DEF SubmitVote, Inv, TypeOK, Good
  <2>3. k \in Call
    BY <2>2 DEF Call
  <2>4. k.by = c /\ k.outcome = "none" /\ k.opening = o
    BY <2>2 DEF Call
  <2>5. /\ call' = [call EXCEPT ![c] = Enter(k, "validate")]
        /\ UNCHANGED <<voting, votes, current, live, touches, faults>>
    BY <1>1 DEF SubmitVote
  <2> HIDE DEF k
  <2> QED
    BY <2>1, <2>3, <2>4, <2>5, BeginInv
<1>2. ASSUME NEW c \in Finalizes, Finalize(c)
      PROVE  Inv'
  <2>1. c \in Calls /\ c \notin Submits
    BY VotingConstants DEF Calls
  <2>2. call[c] \in Call /\ call[c].by = c /\ call[c].outcome = "none"
    BY <1>2, <2>1 DEF Finalize, Inv, TypeOK, Good
  <2> QED
    BY <1>2, <2>1, <2>2, BeginInv DEF Finalize
<1>3. ASSUME NEW c \in Calls, Step(c)
      PROVE  Inv'
  <2>1. CASE PersistVotes(c)
    BY <2>1, PersistInv DEF PersistVotes, Inv, TypeOK
  <2> QED
    BY <1>3, <2>1, LoadVotingInv, LoadOtherInv, RateLimitInv, ConflictInv, QueueInv DEF Step
<1>4. ASSUME NEW c \in Calls, RequestError(c)
      PROVE  Inv'
  <2>1. "ERROR" \in Outcomes \ {"RECEIPT", "ALREADY_VOTED"}
    BY DEF Outcomes
  <2>2. faults' \in 0..MaxFaults
    BY <1>4, VotingConstants DEF RequestError, Fault, Inv, TypeOK
  <2> QED
    BY <1>4, <2>1, <2>2, EndsInv DEF RequestError, InFlight
<1>5. ASSUME NEW c \in Calls, PersistLost(c)
      PROVE  Inv'
  <2>1. faults' \in 0..MaxFaults
    BY <1>5, VotingConstants DEF PersistLost, Fault, Inv, TypeOK
  <2> QED
    BY <1>5, <2>1, PersistInv DEF PersistLost
<1>6. CASE UNCHANGED vars
  <2>1. TypeOK'
    BY <1>6 DEF vars, Inv, TypeOK
  <2>2. StoredVotesRestore' /\ BallotBounded' /\ InputIsBallot'
    BY <1>6 DEF vars, Inv, StoredVotesRestore, BallotBounded, InputIsBallot
  <2>3. \A c \in Calls : Good(c, call[c], voting, votes)'
    <3>1. voting' = voting /\ votes' = votes /\ call' = call
      BY <1>6 DEF vars
    <3> QED
      BY <3>1, Zenon DEF Inv
  <2> QED
    BY <2>1, <2>2, <2>3 DEF Inv
<1> QED
  BY <1>1, <1>2, <1>3, <1>4, <1>5, <1>6, TableInv DEF Next

-----------------------------------------------------------------------------
\* The theorems.

\* The invariant holds of every reachable state.
LEMMA Invariance == Spec => []Inv
<1>1. Init => Inv
  BY InvInit
<1>2. Inv /\ [Next]_vars => Inv'
  BY InvNext
<1> QED
  BY <1>1, <1>2, PTL DEF Spec

\* The table and the requests always have their types.
THEOREM TypeCorrect == Spec => []TypeOK
<1>1. Inv => TypeOK
  BY DEF Inv
<1> QED
  BY <1>1, Invariance, PTL

\* The voting item and the vote items, in two tables, always restore to a record,
\* whatever vote requests race, fail or lose their responses (restoreVotingRecord,
\* persistVoteMutation).
THEOREM VotesAlwaysRestore == Spec => []StoredVotesRestore
<1>1. Inv => StoredVotesRestore
  BY DEF Inv
<1> QED
  BY <1>1, Invariance, PTL

\* However many requests each compute a full batch of bot votes, one user vote and
\* BOT_COUNT bot votes are the most that is stored (evaluateBotVoteMutation).
THEOREM BallotNeverOverflows == Spec => []BallotBounded
<1>1. Inv => BallotBounded
  BY DEF Inv
<1> QED
  BY <1>1, Invariance, PTL

\* Every receipt that was given names the first stored vote, with the opening of its
\* request, in a complete ballot (completeVoteSubmission).
THEOREM ReceiptsHold == Spec => []ReceiptHolds
<1>1. Inv => ReceiptHolds
  <2> SUFFICES ASSUME Inv, NEW c \in Submits, call[c].outcome = "RECEIPT"
               PROVE  /\ Len(votes) = BotCount + 1 /\ call[c].receipt = votes[1]
                      /\ votes[1].opening = call[c].opening
    BY DEF ReceiptHolds
  <2>1. Good(c, call[c], voting, votes)
    BY DEF Inv, Calls
  <2> QED
    BY <2>1 DEF Good
<1> QED
  BY <1>1, Invariance, PTL

\* A submission is told ALREADY_VOTED only where another opening is stored
\* (resolveUserVoteReplay).
THEOREM RefusalsAreJust == Spec => []RefusedIsAnother
<1>1. Inv => RefusedIsAnother
  <2> SUFFICES ASSUME Inv, NEW c \in Submits, call[c].outcome = "ALREADY_VOTED"
               PROVE  votes # <<>> /\ votes[1].opening # call[c].opening
    BY DEF RefusedIsAnother
  <2>1. Good(c, call[c], voting, votes)
    BY DEF Inv, Calls
  <2> QED
    BY <2>1 DEF Good
<1> QED
  BY <1>1, Invariance, PTL

\* The input of the current finalization is the complete ballot, though it was built
\* from an earlier read (admitFinalizationSession).
THEOREM FinalizationInputIsBallot == Spec => []InputIsBallot
<1>1. Inv => InputIsBallot
  BY DEF Inv
<1> QED
  BY <1>1, Invariance, PTL

\* No step rewrites or removes a stored vote (persistVoteMutation).
THEOREM BallotOnlyGrows == Spec => BallotAppendOnly
<1> DEFINE Grows == Len(votes) <= Len(votes') /\ \A i \in 1..Len(votes) : votes'[i] = votes[i]
<1>1. Inv /\ [Next]_vars => [Grows]_vars
  <2> SUFFICES ASSUME Inv, Next
               PROVE  Grows
    OBVIOUS
  <2>1. CASE votes' = votes
    <3>1. Len(votes) \in Nat
      BY LenProperties DEF Inv, TypeOK
    <3> QED
      BY <2>1, <3>1
  <2>2. ASSUME NEW c \in Calls, PersistVotes(c) \/ PersistLost(c)
        PROVE  Grows
    <3>1. Appends(voting, votes, voting', votes')
      BY <2>2, PersistAppends DEF PersistVotes, PersistLost
    <3> QED
      BY <3>1 DEF Appends
  <2>3. votes' = votes \/ \E c \in Calls : PersistVotes(c) \/ PersistLost(c)
    BY Zenon DEF Next, Step, SubmitVote, Finalize, LoadVotingItem, LoadVoteItems, CheckFinalRoot,
       LoadFinalization, ConsumeRateLimit, PersistConflict, QueueFinalization, RequestError,
       CommitSuccess, TouchSession, ExpireSession, ExpirePointer, DeletePointer, Answered, Ends
  <2> QED
    BY <2>1, <2>2, <2>3
<1> QED
  BY <1>1, Invariance, PTL DEF Spec, BallotAppendOnly

\* The two tables always hold one ballot, which is never overfilled
\* (persistVoteMutation, evaluateBotVoteMutation).
THEOREM OneBallot == Spec => []BallotSound
BY VotesAlwaysRestore, BallotNeverOverflows, PTL DEF BallotSound

\* What a voter is told stays true (completeVoteSubmission, resolveUserVoteReplay).
THEOREM AnswersStayTrue == Spec => []AnswersTrue
BY ReceiptsHold, RefusalsAreJust, PTL DEF AnswersTrue

=============================================================================
