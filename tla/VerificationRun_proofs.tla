----------------------- MODULE VerificationRun_proofs -----------------------
(***************************************************************************)
(* Proofs about VerificationRun, for any number of requests, attempts,     *)
(* deliveries and faults, in both profiles.                                *)
(*                                                                         *)
(* The constants are those of an instance (RunConstants): the theorems     *)
(* have it as their hypothesis.                                            *)
(***************************************************************************)
EXTENDS VerificationRun, TLAPS

ProcFields == {"pc", "mode", "status", "mark", "cur", "rb", "write", "attempt", "answer"}
Places == {"none", "queued", "received", "gone", "dead"}
AllPcs == Pcs \cup {"deleted", "returned", "failing", "localDone"}

Unfinished == {v \in VerificationItem \cup {NoItem} : StatusOf(v) \notin Terminal}
Snapshot == [snapshot : Unfinished]

-----------------------------------------------------------------------------
\* The inductive invariant.

Sane(k) ==
    /\ DOMAIN k = ProcFields
    /\ k.pc \in AllPcs
    /\ k.attempt \in Nat /\ k.attempt < WriteAttempts
    /\ k.cur \in VerificationItem \cup {NoItem}
    /\ k.rb \in Snapshot \cup {NoItem}

Types ==
    /\ verification \in VerificationItem \cup {NoItem}
    /\ rollback \in Snapshot \cup {NoItem}
    /\ rolledBack \in BOOLEAN /\ queuedMark \in BOOLEAN
    /\ message \in [Requests -> Places]
    /\ receives \in [Requests -> Nat]
    /\ verdicts \subseteq Terminal
    /\ DOMAIN proc = Procs

\* The results that may be stored.
Justified == verdicts \cup {v \in {"failed"} : \E r \in Requests : receives[r] >= MaxReceives}

\* Where a process has loaded the record it will write over, where it carries the
\* result to be stored, and where there must be work to do.
Loaded == {"markRollback", "markWrite", "completeRollback", "completeWrite"}
Carrying == {"upload", "complete", "completeRollback", "completeWrite"}
Working == {"publish", "marker", "verify", "invoke", "upload", "complete"}

Behind(c, v) ==
    c # NoItem => v # NoItem /\ c.rev <= v.rev /\ (c.rev = v.rev => c = v)

\* What a process knows of record v as long as nothing was rolled back: what it
\* has loaded is stored or behind, the snapshot of running work is not overlooked,
\* and deleted work is finished.
Current(k, v) ==
    /\ k.pc \in Loaded => Behind(k.cur, v)
    /\ k.pc \in {"completeRollback", "completeWrite"} => k.cur # NoItem
    /\ k.pc = "completeWrite" /\ k.cur = v => k.rb # NoItem
    /\ k.pc = "markWrite" /\ k.rb # NoItem => v # NoItem
    /\ k.pc = "deleted" => StatusOf(v) \in Terminal
    /\ k.status \notin {"unread", "none"} \/ k.pc \in Working => v # NoItem

Good(k, v, rolled, results) ==
    /\ Sane(k)
    /\ k.pc \in Loaded => StatusOf(k.cur) \notin Terminal
    /\ k.pc = "rollbackWrite" => k.rb # NoItem
    /\ k.pc \in Carrying => k.write \in results
    /\ ~rolled => Current(k, v)

\* Until a rollback, there is a snapshot exactly while the record is running.
Fresh ==
    ~rolledBack => /\ StatusOf(verification) \in Terminal \cup {"none", "running"}
                   /\ rollback # NoItem <=> StatusOf(verification) = "running"

\* The message m of a request at a, delivered n times, whose worker is at b.
AfterPublish == {"marker", "rollback", "rollbackItem", "rollbackWrite", "done"}
QueueOK(m, n, a, b, v, rolled) ==
    /\ n <= MaxReceives
    /\ m = "queued" => n < MaxReceives
    /\ m = "none" => n = 0
    /\ m = "received" <=> b # "idle"
    /\ m # "none" => a \in AfterPublish
    /\ a = "marker" => m # "none"
    /\ ~rolled /\ m # "none" => v # NoItem
    /\ ~rolled /\ m = "gone" => StatusOf(v) \in Terminal

Queues ==
    /\ \A r \in Requests : QueueOK(message[r], receives[r], proc[request(r)].pc, proc[worker(r)].pc,
                                   verification, rolledBack)
    /\ queuedMark => \E r \in Requests : message[r] # "none"

Inv ==
    /\ Types
    /\ Fresh
    /\ StatusOf(verification) \in Terminal => verification.status \in Justified
    /\ Queues
    /\ \A p \in Procs : Good(proc[p], verification, rolledBack, Justified)

-----------------------------------------------------------------------------
\* Frames: what a step that leaves something alone keeps.

LEMMA ProcFacts ==
    ASSUME NEW r \in Requests
    PROVE  /\ request(r) \in Procs /\ worker(r) \in Procs
           /\ \A s \in Requests : /\ request(r) # worker(s)
                                  /\ request(r) = request(s) => r = s
                                  /\ worker(r) = worker(s) => r = s
BY DEF Procs, request, worker

\* Until a rollback the record goes on by revisions and only from an unfinished
\* status; a result that was justified stays so.
Forward ==
    /\ rolledBack => rolledBack'
    /\ ~rolledBack' => \/ verification' = verification
                       \/ /\ StatusOf(verification) \notin Terminal /\ verification' # NoItem
                          /\ verification'.rev = nextRevision(verification)
    /\ Justified \subseteq Justified'

LEMMA GoodKept ==
    ASSUME Types, Types', Forward, NEW k, Good(k, verification, rolledBack, Justified)
    PROVE  Good(k, verification', rolledBack', Justified')
<1>1. /\ Sane(k)
      /\ k.pc \in Loaded => StatusOf(k.cur) \notin Terminal
      /\ k.pc = "rollbackWrite" => k.rb # NoItem
      /\ k.pc \in Carrying => k.write \in Justified'
  BY DEF Good, Forward
<1>2. ASSUME ~rolledBack' PROVE Current(k, verification')
  <2>1. Current(k, verification) /\ ~rolledBack
    BY <1>2 DEF Good, Forward
  <2>2. CASE verification' = verification
    BY <2>1, <2>2
  <2>3. CASE /\ StatusOf(verification) \notin Terminal /\ verification' # NoItem
             /\ verification'.rev = nextRevision(verification)
    <3>1. verification # NoItem => verification.rev \in Nat /\ verification'.rev = verification.rev + 1
      BY <2>3 DEF Types, VerificationItem, nextRevision
    <3>2. k.cur # NoItem => k.cur.rev \in Nat
      BY <1>1 DEF Sane, VerificationItem
    <3>3. k.pc \in Loaded => Behind(k.cur, verification') /\ (k.cur # NoItem => k.cur # verification')
      BY <2>1, <2>3, <3>1, <3>2 DEF Current, Behind
    <3>4. "completeWrite" \in Loaded
      BY DEF Loaded
    <3> QED BY <2>1, <2>3, <3>3, <3>4 DEF Current
  <2> QED BY <1>2, <2>2, <2>3 DEF Forward
<1> QED BY <1>1, <1>2 DEF Good

LEMMA QueueKept ==
    ASSUME Forward, NEW m, NEW n, NEW a, NEW b, QueueOK(m, n, a, b, verification, rolledBack)
    PROVE  QueueOK(m, n, a, b, verification', rolledBack')
BY DEF QueueOK, Forward

\* What is justified stays so while verdicts and deliveries are only added.
LEMMA JustifiedGrows ==
    ASSUME Types, Types', verdicts \subseteq verdicts',
           \A r \in Requests : receives[r] <= receives'[r], RunConstants
    PROVE  Justified \subseteq Justified'
<1>1. ASSUME NEW r \in Requests, receives[r] >= MaxReceives PROVE receives'[r] >= MaxReceives
  <2>1. receives[r] \in Nat /\ receives'[r] \in Nat /\ MaxReceives \in Nat /\ receives[r] <= receives'[r]
    BY DEF Types, RunConstants
  <2> QED BY <1>1, <2>1
<1> QED BY <1>1 DEF Justified

\* Process p becomes n.
Moves(p, n) ==
    /\ DOMAIN proc' = Procs
    /\ proc'[p] = n
    /\ \A q \in Procs : q # p => proc'[q] = proc[q]

\* A step that writes no record: the process that moves is good and the queue is in
\* order.
LEMMA Quiet ==
    ASSUME RunConstants, Inv, Types', UNCHANGED store, Justified \subseteq Justified',
           NEW p \in Procs, Moves(p, proc'[p]),
           Good(proc'[p], verification, rolledBack, Justified'),
           Queues'
    PROVE  Inv'
<1>1. Forward
  BY DEF Forward, store
<1>2. Fresh' /\ (StatusOf(verification) \in Terminal => verification.status \in Justified)'
  BY DEF Inv, Fresh, store
<1>3. ASSUME NEW q \in Procs
      PROVE  Good(proc'[q], verification', rolledBack', Justified')
  <2>1. CASE q = p
    BY <2>1 DEF store
  <2>2. CASE q # p
    <3>1. Good(proc[q], verification, rolledBack, Justified) /\ Types
      BY DEF Inv
    <3>2. proc'[q] = proc[q]
      BY <2>2 DEF Moves
    <3> QED BY <1>1, <3>1, <3>2, GoodKept
  <2> QED BY <2>1, <2>2
<1> QED BY <1>2, <1>3 DEF Inv

\* A move of a request that leaves the queue alone.
LEMMA RequestQuiet ==
    ASSUME RunConstants, Inv, UNCHANGED <<store, queue>>, verdicts' \subseteq Terminal,
           verdicts \subseteq verdicts', queuedMark' \in BOOLEAN,
           NEW r \in Requests, Moves(request(r), proc'[request(r)]),
           Good(proc'[request(r)], verification, rolledBack, Justified'),
           proc[request(r)].pc \in AfterPublish => proc'[request(r)].pc \in AfterPublish,
           proc'[request(r)].pc = "marker" => proc[request(r)].pc = "marker",
           queuedMark' => queuedMark \/ message[r] # "none"
    PROVE  Inv'
<1>1. Types /\ Types'
  BY DEF Inv, Types, store, queue, Moves
<1>2. Justified \subseteq Justified'
  BY DEF Justified, queue
<1>3. ASSUME NEW s \in Requests
      PROVE  QueueOK(message'[s], receives'[s], proc'[request(s)].pc, proc'[worker(s)].pc,
                     verification', rolledBack')
  <2>1. QueueOK(message[s], receives[s], proc[request(s)].pc, proc[worker(s)].pc, verification, rolledBack)
    BY DEF Inv, Queues
  <2>2. proc'[worker(s)] = proc[worker(s)] /\ (s # r => proc'[request(s)] = proc[request(s)])
    BY ProcFacts DEF Moves
  <2> QED BY <2>1, <2>2 DEF QueueOK, store, queue
<1>4. queuedMark' => \E s \in Requests : message'[s] # "none"
  BY DEF Inv, Queues, queue
<1>5. Queues'
  BY <1>3, <1>4 DEF Queues
<1> QED BY <1>1, <1>2, <1>5, ProcFacts, Quiet

\* A move of a worker that leaves the queue alone.
LEMMA WorkerQuiet ==
    ASSUME RunConstants, Inv, UNCHANGED <<store, queue, queuedMark>>, verdicts' \subseteq Terminal,
           verdicts \subseteq verdicts',
           NEW r \in Requests, Moves(worker(r), proc'[worker(r)]),
           Good(proc'[worker(r)], verification, rolledBack, Justified'),
           proc[worker(r)].pc # "idle", proc'[worker(r)].pc # "idle"
    PROVE  Inv'
<1>1. Types /\ Types'
  BY DEF Inv, Types, store, queue, Moves
<1>2. Justified \subseteq Justified'
  BY DEF Justified, queue
<1>3. ASSUME NEW s \in Requests
      PROVE  QueueOK(message'[s], receives'[s], proc'[request(s)].pc, proc'[worker(s)].pc,
                     verification', rolledBack')
  <2>1. QueueOK(message[s], receives[s], proc[request(s)].pc, proc[worker(s)].pc, verification, rolledBack)
    BY DEF Inv, Queues
  <2>2. proc'[request(s)] = proc[request(s)] /\ (s # r => proc'[worker(s)] = proc[worker(s)])
    BY ProcFacts DEF Moves
  <2> QED BY <2>1, <2>2 DEF QueueOK, store, queue
<1>4. queuedMark' => \E s \in Requests : message'[s] # "none"
  BY DEF Inv, Queues, queue
<1>5. Queues'
  BY <1>3, <1>4 DEF Queues
<1> QED BY <1>1, <1>2, <1>5, ProcFacts, Quiet

-----------------------------------------------------------------------------
\* What the shapes of a step do to the process that takes it.

LEMMA GotoFacts ==
    ASSUME Types, NEW p \in Procs, Sane(proc[p]), NEW x, Goto(p, x)
    PROVE  /\ Moves(p, proc'[p])
           /\ DOMAIN proc'[p] = ProcFields /\ proc'[p].pc = x
           /\ \A f \in ProcFields \ {"pc"} : proc'[p][f] = proc[p][f]
BY DEF Goto, Moves, Types, Sane, ProcFields

LEMMA AnswerFacts ==
    ASSUME Types, NEW p \in Procs, Sane(proc[p]), NEW a, Answer(p, a)
    PROVE  /\ Moves(p, proc'[p])
           /\ DOMAIN proc'[p] = ProcFields /\ proc'[p].pc = "done"
           /\ \A f \in ProcFields \ {"pc", "answer"} : proc'[p][f] = proc[p][f]
BY DEF Answer, Moves, Types, Sane, ProcFields

\* Program counters at which a process relies on nothing.
Free == {"idle", "read", "mark", "rollback", "rollbackItem", "returned", "failing", "localDone", "done"}

LEMMA FreeGood ==
    ASSUME NEW k, NEW n, NEW v, NEW rolled, NEW results, NEW more, Good(k, v, rolled, results),
           DOMAIN n = ProcFields, n.pc \in Free,
           n.attempt = k.attempt, n.cur = k.cur, n.rb = k.rb, n.status = k.status
    PROVE  Good(n, v, rolled, more)
<1>1. n.pc \in AllPcs /\ n.pc \notin Loaded \cup Carrying \cup Working \cup {"rollbackWrite", "deleted"}
  BY DEF Free, AllPcs, Pcs, Loaded, Carrying, Working
<1>2. n.pc \notin {"completeRollback", "completeWrite", "markWrite"}
  BY DEF Free
<1>3. Sane(n)
  BY <1>1 DEF Good, Sane
<1>4. ~rolled => Current(n, v)
  BY <1>1, <1>2 DEF Good, Current
<1> QED BY <1>1, <1>3, <1>4 DEF Good

LEMMA GotoFree ==
    ASSUME Inv, NEW p \in Procs, NEW x \in Free, Goto(p, x)
    PROVE  /\ Moves(p, proc'[p]) /\ proc'[p].pc = x
           /\ Good(proc'[p], verification, rolledBack, Justified')
<1>1. Good(proc[p], verification, rolledBack, Justified) /\ Types /\ Sane(proc[p])
  BY DEF Inv, Good
<1>2. /\ Moves(p, proc'[p]) /\ DOMAIN proc'[p] = ProcFields /\ proc'[p].pc = x
      /\ \A f \in ProcFields \ {"pc"} : proc'[p][f] = proc[p][f]
  BY <1>1, GotoFacts
<1>3. /\ proc'[p].attempt = proc[p].attempt /\ proc'[p].cur = proc[p].cur
      /\ proc'[p].rb = proc[p].rb /\ proc'[p].status = proc[p].status
  BY <1>2 DEF ProcFields
<1> QED BY <1>1, <1>2, <1>3, FreeGood

LEMMA AnswerFree ==
    ASSUME Inv, NEW p \in Procs, NEW a, Answer(p, a)
    PROVE  /\ Moves(p, proc'[p]) /\ proc'[p].pc = "done"
           /\ Good(proc'[p], verification, rolledBack, Justified')
<1>1. Good(proc[p], verification, rolledBack, Justified) /\ Types /\ Sane(proc[p])
  BY DEF Inv, Good
<1>2. /\ Moves(p, proc'[p]) /\ DOMAIN proc'[p] = ProcFields /\ proc'[p].pc = "done"
      /\ \A f \in ProcFields \ {"pc", "answer"} : proc'[p][f] = proc[p][f]
  BY <1>1, AnswerFacts
<1>3. /\ proc'[p].attempt = proc[p].attempt /\ proc'[p].cur = proc[p].cur
      /\ proc'[p].rb = proc[p].rb /\ proc'[p].status = proc[p].status
  BY <1>2 DEF ProcFields
<1>4. "done" \in Free
  BY DEF Free
<1> QED BY <1>1, <1>2, <1>3, <1>4, FreeGood

\* A request that answers, leaving the queue and the results alone.
LEMMA AnswerKeeps ==
    ASSUME RunConstants, Inv, NEW r \in Requests, NEW a, Answer(request(r), a),
           UNCHANGED <<store, queue, verdicts>>, queuedMark' \in BOOLEAN,
           queuedMark' => queuedMark \/ message[r] # "none"
    PROVE  Inv'
<1>1. request(r) \in Procs
  BY ProcFacts
<1>2. /\ Moves(request(r), proc'[request(r)]) /\ proc'[request(r)].pc = "done"
      /\ Good(proc'[request(r)], verification, rolledBack, Justified')
  BY <1>1, AnswerFree
<1>3. "done" \in AfterPublish /\ verdicts \subseteq Terminal
  BY DEF AfterPublish, Inv, Types
<1> QED BY <1>2, <1>3, RequestQuiet

-----------------------------------------------------------------------------
\* The reads of the record and of the snapshot.

\* A load finds a result, and the process goes on as if it had been its own, or an
\* unfinished record that is behind no longer than until the next write.
LEMMA LoadGood ==
    ASSUME RunConstants, Inv, NEW p \in Procs, NEW at, NEW then, NEW after,
           loadVerificationItem(p, at, then, after),
           \/ at = "mark" /\ then = "markRollback" /\ after \in {"verify", "publish"}
           \/ at = "complete" /\ then = "completeRollback" /\ after \in {"localDone", "deleted"}
    PROVE  /\ Moves(p, proc'[p]) /\ proc[p].pc = at /\ proc'[p].pc \in {then, after}
           /\ Good(proc'[p], verification, rolledBack, Justified')
           /\ UNCHANGED <<store, queuedMark, queue, verdicts, faults>>
<1> DEFINE k == proc[p]
           n == proc'[p]
<1>1. Good(k, verification, rolledBack, Justified) /\ Types /\ Sane(k)
  BY DEF Inv, Good
<1>2. k.pc = at /\ UNCHANGED <<store, queuedMark, queue, verdicts, faults>>
  BY DEF loadVerificationItem
<1>3. Justified' = Justified
  BY <1>2 DEF Justified, queue
<1>4. CASE StatusOf(verification) \in Terminal
  <2>1. Goto(p, after)
    BY <1>4 DEF loadVerificationItem
  <2>2. /\ Moves(p, n) /\ DOMAIN n = ProcFields /\ n.pc = after
        /\ \A f \in ProcFields \ {"pc"} : n[f] = k[f]
    BY <1>1, <2>1, GotoFacts
  <2>3. n.attempt = k.attempt /\ n.cur = k.cur /\ n.rb = k.rb /\ n.status = k.status
    BY <2>2 DEF ProcFields
  <2>4. verification # NoItem
    BY <1>4 DEF StatusOf, Terminal
  <2>5. n.pc \in {"verify", "publish", "localDone", "deleted"}
    BY <2>2
  <2>6. n.pc \in AllPcs /\ n.pc \notin Loaded \cup Carrying \cup {"rollbackWrite"}
    BY <2>5 DEF AllPcs, Pcs, Loaded, Carrying
  <2> HIDE DEF n, k
  <2>7. Sane(n)
    BY <1>1, <2>2, <2>3, <2>6 DEF Sane
  <2>8. Current(n, verification)
    BY <1>4, <2>4, <2>5, <2>6 DEF Current
  <2>9. Good(n, verification, rolledBack, Justified)
    BY <2>6, <2>7, <2>8 DEF Good
  <2> QED BY <1>2, <1>3, <2>2, <2>9 DEF n, k
<1>5. CASE StatusOf(verification) \notin Terminal
  <2>1. proc' = [proc EXCEPT ![p].cur = verification, ![p].pc = then]
    BY <1>5 DEF loadVerificationItem
  <2>2. /\ Moves(p, n) /\ DOMAIN n = ProcFields /\ n.pc = then /\ n.cur = verification
        /\ \A f \in ProcFields \ {"pc", "cur"} : n[f] = k[f]
    BY <1>1, <2>1 DEF Moves, Types, Sane, ProcFields
  <2>3. n.attempt = k.attempt /\ n.rb = k.rb /\ n.status = k.status /\ n.write = k.write
    BY <2>2 DEF ProcFields
  <2>4. n.pc \in {"markRollback", "completeRollback"} /\ n.pc \in AllPcs
    BY <2>2 DEF AllPcs, Pcs
  <2>5. n.pc \in Loaded /\ n.pc \notin Working /\ (n.pc \in Carrying => n.pc = "completeRollback")
    BY <2>4 DEF Loaded, Working, Carrying
  <2>6. n.pc = "completeRollback" => k.pc = "complete" /\ k.pc \in Carrying /\ k.pc \in Working
    BY <1>2, <2>2 DEF Carrying, Working
  <2> HIDE DEF n, k
  <2>7. Sane(n)
    BY <1>1, <2>2, <2>3, <2>4 DEF Sane, Types
  <2>8. Behind(n.cur, verification)
    BY <2>2 DEF Behind, Types, VerificationItem, Inv
  <2>9. ~rolledBack => Current(n, verification)
    BY <1>1, <2>2, <2>3, <2>4, <2>5, <2>6, <2>8 DEF Current, Good
  <2>10. Good(n, verification, rolledBack, Justified)
    BY <1>1, <1>5, <2>2, <2>3, <2>4, <2>5, <2>6, <2>7, <2>9 DEF Good
  <2> QED BY <1>2, <1>3, <2>2, <2>10 DEF n, k
<1> QED BY <1>4, <1>5

\* The snapshot of running work is found by whoever has loaded the running record.
LEMMA RollbackItemGood ==
    ASSUME RunConstants, Inv, NEW p \in Procs, NEW at, NEW then, readRollbackItem(p, at, then),
           \/ at = "markRollback" /\ then = "markWrite"
           \/ at = "completeRollback" /\ then = "completeWrite"
    PROVE  /\ Moves(p, proc'[p]) /\ proc[p].pc = at /\ proc'[p].pc = then
           /\ Good(proc'[p], verification, rolledBack, Justified')
           /\ UNCHANGED <<store, queuedMark, queue, verdicts, faults>>
<1> DEFINE k == proc[p]
           n == proc'[p]
<1>1. Good(k, verification, rolledBack, Justified) /\ Types /\ Sane(k) /\ Fresh
  BY DEF Inv, Good
<1>2. k.pc = at /\ UNCHANGED <<store, queuedMark, queue, verdicts, faults>>
  BY DEF readRollbackItem
<1>3. Justified' = Justified
  BY <1>2 DEF Justified, queue
<1>4. /\ Moves(p, n) /\ DOMAIN n = ProcFields /\ n.pc = then /\ n.rb = rollback
      /\ \A f \in ProcFields \ {"pc", "rb"} : n[f] = k[f]
  BY <1>1 DEF readRollbackItem, Moves, Types, Sane, ProcFields
<1>5. n.attempt = k.attempt /\ n.cur = k.cur /\ n.status = k.status /\ n.write = k.write
  BY <1>4 DEF ProcFields
<1>6. /\ n.pc \in {"markWrite", "completeWrite"} /\ n.pc \in AllPcs /\ n.pc \in Loaded
      /\ n.pc \notin Working /\ k.pc \in Loaded
      /\ n.pc \in Carrying => n.pc = "completeWrite" /\ k.pc = "completeRollback" /\ k.pc \in Carrying
      /\ n.pc = "completeWrite" => k.pc = "completeRollback"
  BY <1>2, <1>4 DEF AllPcs, Pcs, Loaded, Working, Carrying
<1> HIDE DEF n, k
<1>7. Sane(n)
  BY <1>1, <1>4, <1>5, <1>6 DEF Sane, Types
<1>8. ASSUME ~rolledBack PROVE Current(n, verification)
  <2>1. Current(k, verification) /\ StatusOf(k.cur) \notin Terminal
    BY <1>1, <1>6, <1>8 DEF Good
  <2>2. rollback # NoItem => verification # NoItem
    BY <1>1, <1>8 DEF Fresh, StatusOf
  <2>3. k.pc = "completeRollback" /\ k.cur = verification => rollback # NoItem
    <3>1. verification # NoItem => StatusOf(verification) # "none"
      BY <1>1 DEF Types, VerificationItem, Statuses, Terminal, StatusOf
    <3> QED BY <1>1, <1>8, <2>1, <3>1 DEF Fresh, Current
  <2> QED BY <1>4, <1>5, <1>6, <2>1, <2>2, <2>3 DEF Current
<1>9. Good(n, verification, rolledBack, Justified)
  BY <1>1, <1>4, <1>5, <1>6, <1>7, <1>8 DEF Good
<1> QED BY <1>2, <1>3, <1>4, <1>9 DEF n, k

\* A refused write is tried again from the load, or thrown.
LEMMA RefusedGood ==
    ASSUME RunConstants, Inv, NEW p \in Procs, NEW retry, NEW thrown, Refused(p, retry, thrown),
           UNCHANGED <<store, queue, verdicts>>,
           \/ retry = "mark" /\ thrown = "markReread"
           \/ retry = "complete" /\ thrown = "failing" /\ proc[p].pc = "completeWrite"
    PROVE  /\ Moves(p, proc'[p]) /\ proc'[p].pc \in {retry, thrown}
           /\ Good(proc'[p], verification, rolledBack, Justified')
<1> DEFINE k == proc[p]
           n == proc'[p]
<1>1. Good(k, verification, rolledBack, Justified) /\ Types /\ Sane(k)
  BY DEF Inv, Good
<1>2. Justified' = Justified
  BY DEF Justified, queue
<1>3. /\ Moves(p, n) /\ DOMAIN n = ProcFields /\ n.pc \in {retry, thrown}
      /\ \A f \in ProcFields \ {"pc", "attempt", "answer"} : n[f] = k[f]
      /\ n.attempt \in Nat /\ n.attempt < WriteAttempts
  <2>1. CASE k.attempt + 1 = WriteAttempts
    <3>1. n = [k EXCEPT !.pc = thrown, !.attempt = 0, !.answer = "error"] /\ Moves(p, n)
      BY <1>1, <2>1 DEF Refused, Moves, Types
    <3>2. /\ DOMAIN n = ProcFields /\ n.pc = thrown /\ n.attempt = 0
          /\ \A f \in ProcFields \ {"pc", "attempt", "answer"} : n[f] = k[f]
      BY <1>1, <3>1 DEF Sane, ProcFields
    <3> QED BY <3>1, <3>2 DEF RunConstants
  <2>2. CASE k.attempt + 1 # WriteAttempts
    <3>1. n = [k EXCEPT !.pc = retry, !.attempt = @ + 1] /\ Moves(p, n)
      BY <1>1, <2>2 DEF Refused, Moves, Types
    <3>2. /\ DOMAIN n = ProcFields /\ n.pc = retry /\ n.attempt = k.attempt + 1
          /\ \A f \in ProcFields \ {"pc", "attempt"} : n[f] = k[f]
      BY <1>1, <3>1 DEF Sane, ProcFields
    <3> QED BY <1>1, <2>2, <3>1, <3>2 DEF RunConstants, Sane
  <2> QED BY <2>1, <2>2
<1>4. n.cur = k.cur /\ n.rb = k.rb /\ n.status = k.status /\ n.write = k.write
  BY <1>3 DEF ProcFields
<1>5. /\ n.pc \in AllPcs /\ n.pc \notin Loaded \cup {"rollbackWrite", "deleted"}
      /\ n.pc \notin {"completeRollback", "completeWrite", "markWrite"}
      /\ n.pc \in Carrying \cup Working => n.pc = "complete" /\ k.pc = "completeWrite"
      /\ "completeWrite" \in Carrying \cap Loaded
  BY <1>3 DEF AllPcs, Pcs, Loaded, Carrying, Working
<1> HIDE DEF n, k
<1>6. Sane(n)
  BY <1>1, <1>3, <1>4, <1>5 DEF Sane
<1>7. ~rolledBack => Current(n, verification)
  BY <1>1, <1>4, <1>5 DEF Current, Good, Behind
<1>8. Good(n, verification, rolledBack, Justified)
  BY <1>1, <1>4, <1>5, <1>6, <1>7 DEF Good
<1> QED BY <1>2, <1>3, <1>8 DEF n

-----------------------------------------------------------------------------
\* The writes of the record.

\* A process stays where its message expects it.
InPlace(s) ==
    /\ proc'[worker(s)].pc = "idle" <=> proc[worker(s)].pc = "idle"
    /\ proc[request(s)].pc \in AfterPublish => proc'[request(s)].pc \in AfterPublish
    /\ proc'[request(s)].pc = "marker" => proc[request(s)].pc = "marker"

LEMMA Written ==
    ASSUME RunConstants, Inv, Types', Forward, Fresh',
           (StatusOf(verification) \in Terminal => verification.status \in Justified)',
           UNCHANGED <<queue, queuedMark>>, NEW p \in Procs, Moves(p, proc'[p]),
           Good(proc'[p], verification', rolledBack', Justified'),
           \A s \in Requests : InPlace(s)
    PROVE  Inv'
<1>1. ASSUME NEW s \in Requests
      PROVE  QueueOK(message'[s], receives'[s], proc'[request(s)].pc, proc'[worker(s)].pc,
                     verification', rolledBack')
  <2>1. QueueOK(message[s], receives[s], proc[request(s)].pc, proc[worker(s)].pc, verification, rolledBack)
    BY DEF Inv, Queues
  <2>2. QueueOK(message[s], receives[s], proc[request(s)].pc, proc[worker(s)].pc, verification', rolledBack')
    BY <2>1, QueueKept
  <2> QED BY <2>2 DEF QueueOK, InPlace, queue
<1>2. Queues'
  BY <1>1 DEF Inv, Queues, queue
<1>3. ASSUME NEW q \in Procs
      PROVE  Good(proc'[q], verification', rolledBack', Justified')
  <2>1. CASE q = p
    BY <2>1
  <2>2. CASE q # p
    <3>1. Good(proc[q], verification, rolledBack, Justified) /\ Types
      BY DEF Inv
    <3>2. proc'[q] = proc[q]
      BY <2>2 DEF Moves
    <3> QED BY <3>1, <3>2, GoodKept
  <2> QED BY <2>1, <2>2
<1> QED BY <1>2, <1>3 DEF Inv

\* A write at the revision that was loaded makes the next revision of the stored
\* record, which is the loaded one unless there was a rollback.
LEMMA WriteFacts ==
    ASSUME RunConstants, Inv, NEW p \in Procs, proc[p].pc \in Loaded, SameRevision(proc[p])
    PROVE  /\ nextRevision(proc[p].cur) = nextRevision(verification)
           /\ nextRevision(proc[p].cur) \in Nat
           /\ ~rolledBack => verification = proc[p].cur /\ StatusOf(verification) \notin Terminal
<1> DEFINE k == proc[p]
<1>1. Good(k, verification, rolledBack, Justified) /\ Sane(k) /\ StatusOf(k.cur) \notin Terminal
  BY DEF Inv, Good
<1>2. ~rolledBack => Behind(k.cur, verification)
  BY <1>1 DEF Good, Current
<1>3. k.cur # NoItem => k.cur.rev \in Nat
  BY <1>1 DEF Sane, VerificationItem
<1> QED BY <1>1, <1>2, <1>3 DEF SameRevision, nextRevision, Behind

LEMMA StartKeeps ==
    ASSUME RunConstants, Inv, NEW r \in Requests, writeStart(request(r))
    PROVE  Inv'
<1> DEFINE p == request(r)
           k == proc[p]
           n == proc'[p]
<1>1. /\ p \in Procs /\ k.pc = "markWrite" /\ Types /\ Fresh
      /\ Good(k, verification, rolledBack, Justified) /\ Sane(k)
      /\ UNCHANGED <<queuedMark, queue, verdicts, faults>>
  BY ProcFacts DEF Inv, Good, writeStart
<1>2. Justified' = Justified
  BY <1>1 DEF Justified, queue
<1>3. CASE SameRevision(k) /\ (k.rb = NoItem => rollback = NoItem)
  <2>1. /\ verification' = [status |-> "running", rev |-> nextRevision(k.cur)]
        /\ rollback' = (IF k.rb = NoItem THEN [snapshot |-> k.cur] ELSE rollback)
        /\ rolledBack' = rolledBack
        /\ proc' = [proc EXCEPT ![p].pc = IF Local THEN "verify" ELSE "publish", ![p].attempt = 0]
    BY <1>3 DEF writeStart
  <2>2. /\ Moves(p, n) /\ DOMAIN n = ProcFields /\ n.pc \in {"verify", "publish"} /\ n.attempt = 0
        /\ \A f \in ProcFields \ {"pc", "attempt"} : n[f] = k[f]
    BY <1>1, <2>1 DEF Moves, Types, Sane, ProcFields
  <2>3. n.cur = k.cur /\ n.rb = k.rb /\ n.status = k.status
    BY <2>2 DEF ProcFields
  <2>4. "markWrite" \in Loaded
    BY DEF Loaded
  <2>5. /\ nextRevision(k.cur) = nextRevision(verification) /\ nextRevision(k.cur) \in Nat
        /\ ~rolledBack => verification = k.cur /\ StatusOf(verification) \notin Terminal
    BY <1>1, <1>3, <2>4, WriteFacts
  <2>6. verification' \in VerificationItem /\ StatusOf(verification') = "running"
    <3>1. verification' \in VerificationItem
      BY <2>1, <2>5 DEF VerificationItem, Statuses
    <3> QED BY <2>1, <3>1 DEF StatusOf, RunConstants
  <2>7. verification' # NoItem /\ verification'.rev = nextRevision(verification)
    BY <2>1, <2>5, <2>6 DEF RunConstants
  <2>8. [snapshot |-> k.cur] \in Snapshot /\ [snapshot |-> k.cur] # NoItem
    <3>1. k.cur \in Unfinished
      BY <1>1, <2>4 DEF Good, Sane, Unfinished
    <3>2. [snapshot |-> k.cur] \in RollbackItem
      BY <1>1 DEF Sane, RollbackItem
    <3> QED BY <3>1, <3>2 DEF Snapshot, RunConstants
  <2>9. Types'
    BY <1>1, <2>1, <2>2, <2>6, <2>8 DEF Types, queue, Moves
  <2>10. Forward
    BY <1>2, <2>1, <2>5, <2>7 DEF Forward
  <2>11. ~rolledBack => rollback' # NoItem
    <3>1. ASSUME ~rolledBack, k.rb # NoItem PROVE rollback # NoItem
      <4>1. verification # NoItem
        BY <1>1, <3>1 DEF Good, Current
      <4>2. StatusOf(verification) # "none"
        BY <1>1, <4>1 DEF Types, VerificationItem, Statuses, Terminal, StatusOf
      <4> QED BY <1>1, <2>5, <3>1, <4>2 DEF Fresh
    <3> QED BY <2>1, <2>8, <3>1
  <2>12. Fresh'
    BY <2>1, <2>6, <2>11 DEF Fresh
  <2>13. (StatusOf(verification) \in Terminal => verification.status \in Justified)'
    BY <2>6 DEF Terminal
  <2>14. Good(n, verification', rolledBack', Justified')
    <3>1. /\ n.pc \in AllPcs /\ n.pc \notin Loaded \cup Carrying \cup {"rollbackWrite", "deleted"}
          /\ n.pc \notin {"completeRollback", "completeWrite", "markWrite"}
      BY <2>2 DEF AllPcs, Pcs, Loaded, Carrying
    <3> HIDE DEF n, k
    <3>2. Sane(n)
      BY <1>1, <2>2, <2>3, <3>1 DEF Sane, RunConstants
    <3>3. Current(n, verification')
      BY <2>7, <3>1 DEF Current
    <3> QED BY <3>1, <3>2, <3>3 DEF Good
  <2>15. ASSUME NEW s \in Requests PROVE InPlace(s)
    <3>1. n.pc # "marker" /\ k.pc \notin AfterPublish
      BY <1>1, <2>2 DEF AfterPublish
    <3>2. /\ proc'[worker(s)] = proc[worker(s)]
          /\ s # r => proc'[request(s)] = proc[request(s)]
      BY <2>2, ProcFacts DEF Moves
    <3> QED BY <3>1, <3>2 DEF InPlace
  <2> QED BY <1>1, <2>2, <2>9, <2>10, <2>12, <2>13, <2>14, <2>15, Written
<1>4. CASE ~(SameRevision(k) /\ (k.rb = NoItem => rollback = NoItem))
  <2>1. Refused(p, "mark", "markReread") /\ UNCHANGED store
    BY <1>4 DEF writeStart
  <2>2. Moves(p, n) /\ n.pc \in {"mark", "markReread"} /\ Good(n, verification, rolledBack, Justified')
    BY <1>1, <2>1, RefusedGood
  <2>3. k.pc \notin AfterPublish /\ n.pc # "marker" /\ verdicts \subseteq Terminal
    BY <1>1, <2>2 DEF AfterPublish, Types
  <2> QED BY <1>1, <2>1, <2>2, <2>3, RequestQuiet DEF Types
<1> QED BY <1>3, <1>4

\* The write of a result.
LEMMA CompletionWritten ==
    ASSUME RunConstants, Inv, NEW p \in Procs, NEW after \in {"localDone", "deleted"},
           writeCompletion(p, after), SameRevision(proc[p]),
           \A s \in Requests : InPlace(s)
    PROVE  Inv'
<1> DEFINE k == proc[p]
           n == proc'[p]
<1>1. /\ k.pc = "completeWrite" /\ Types /\ Fresh
      /\ Good(k, verification, rolledBack, Justified) /\ Sane(k)
      /\ UNCHANGED <<queuedMark, queue, verdicts, faults>>
  BY DEF Inv, Good, writeCompletion
<1>2. Justified' = Justified /\ Justified \subseteq Terminal
  BY <1>1 DEF Justified, queue, Types, Terminal
<1>3. /\ verification' = [status |-> k.write, rev |-> nextRevision(k.cur)]
      /\ rollback' = completionRollback(k)
      /\ rolledBack' = rolledBack
      /\ Goto(p, after)
  BY DEF writeCompletion
<1>4. /\ Moves(p, n) /\ DOMAIN n = ProcFields /\ n.pc = after
      /\ \A f \in ProcFields \ {"pc"} : n[f] = k[f]
  BY <1>1, <1>3, GotoFacts
<1>5. n.attempt = k.attempt /\ n.cur = k.cur /\ n.rb = k.rb /\ n.status = k.status
  BY <1>4 DEF ProcFields
<1>6. "completeWrite" \in Loaded /\ "completeWrite" \in Carrying
  BY DEF Loaded, Carrying
<1>7. /\ nextRevision(k.cur) = nextRevision(verification) /\ nextRevision(k.cur) \in Nat
      /\ ~rolledBack => verification = k.cur /\ StatusOf(verification) \notin Terminal
  BY <1>1, <1>6, WriteFacts
<1>8. k.write \in Justified
  BY <1>1, <1>6 DEF Good
<1>9. /\ verification' \in VerificationItem /\ verification' # NoItem
      /\ StatusOf(verification') = k.write /\ verification'.rev = nextRevision(verification)
  <2>1. verification' \in VerificationItem
    BY <1>2, <1>3, <1>7, <1>8 DEF VerificationItem, Statuses
  <2> QED BY <1>3, <1>7, <2>1 DEF StatusOf, RunConstants
<1>10. rollback' \in {rollback, NoItem} /\ (~rolledBack => rollback' = NoItem)
  <2>1. ~rolledBack => k.rb # NoItem
    BY <1>1, <1>7 DEF Good, Current
  <2> QED BY <1>3, <2>1 DEF completionRollback
<1>11. Types'
  BY <1>1, <1>3, <1>4, <1>9, <1>10 DEF Types, queue, Moves
<1>12. Forward
  BY <1>2, <1>3, <1>7, <1>9 DEF Forward
<1>13. Fresh'
  <2>1. k.write \in Terminal /\ "running" \notin Terminal
    BY <1>2, <1>8 DEF Terminal
  <2> QED BY <1>3, <1>9, <1>10, <2>1 DEF Fresh
<1>14. (StatusOf(verification) \in Terminal => verification.status \in Justified)'
  BY <1>2, <1>3, <1>8
<1>15. Good(n, verification', rolledBack', Justified')
  <2>1. /\ n.pc \in AllPcs /\ n.pc \notin Loaded \cup Carrying \cup Working \cup {"rollbackWrite"}
        /\ n.pc \notin {"completeRollback", "completeWrite", "markWrite"}
    BY <1>4 DEF AllPcs, Pcs, Loaded, Carrying, Working
  <2>2. StatusOf(verification') \in Terminal
    BY <1>2, <1>8, <1>9
  <2> HIDE DEF n, k
  <2>3. Sane(n)
    BY <1>1, <1>4, <1>5, <2>1 DEF Sane
  <2>4. Current(n, verification')
    BY <1>9, <2>1, <2>2 DEF Current
  <2> QED BY <2>1, <2>3, <2>4 DEF Good
<1> QED BY <1>1, <1>4, <1>11, <1>12, <1>13, <1>14, <1>15, Written

LEMMA RollbackKeeps ==
    ASSUME RunConstants, Inv, NEW r \in Requests, rollbackWrite(request(r))
    PROVE  Inv'
<1> DEFINE p == request(r)
           k == proc[p]
           n == proc'[p]
<1>1. /\ p \in Procs /\ k.pc = "rollbackWrite" /\ Types /\ Answer(p, "error")
      /\ Good(k, verification, rolledBack, Justified) /\ Sane(k)
      /\ UNCHANGED <<queuedMark, queue, verdicts, faults>>
  BY ProcFacts DEF Inv, Good, rollbackWrite
<1>2. Justified' = Justified
  BY <1>1 DEF Justified, queue
<1>3. CASE UNCHANGED store
  BY <1>1, <1>3, AnswerKeeps DEF Types
<1>4. CASE /\ verification' = (IF k.rb.snapshot = NoItem THEN NoItem
                               ELSE [status |-> k.rb.snapshot.status, rev |-> nextRevision(k.cur)])
           /\ rollback' = NoItem /\ rolledBack' = TRUE
  <2>1. k.rb.snapshot \in Unfinished
    BY <1>1 DEF Good, Sane, Snapshot
  <2>2. nextRevision(k.cur) \in Nat
    BY <1>1 DEF Sane, VerificationItem, nextRevision
  <2>3. verification' \in VerificationItem \cup {NoItem} /\ StatusOf(verification') \notin Terminal
    <3>1. CASE k.rb.snapshot = NoItem
      BY <1>4, <3>1 DEF StatusOf, Terminal
    <3>2. CASE k.rb.snapshot # NoItem
      <4>1. k.rb.snapshot.status \in Statuses \ Terminal
        BY <2>1, <3>2 DEF Unfinished, VerificationItem, StatusOf
      <4>2. verification' \in VerificationItem /\ verification'.status = k.rb.snapshot.status
        BY <1>4, <2>2, <3>2, <4>1 DEF VerificationItem
      <4> QED BY <4>1, <4>2 DEF StatusOf, RunConstants
    <3> QED BY <3>1, <3>2
  <2>4. Moves(p, n) /\ n.pc = "done" /\ Good(n, verification, rolledBack, Justified')
    BY <1>1, AnswerFree
  <2>5. Types'
    BY <1>1, <1>4, <2>3, <2>4 DEF Types, queue, Moves
  <2>6. Forward /\ Fresh'
    BY <1>2, <1>4 DEF Forward, Fresh
  <2>7. Good(n, verification', rolledBack', Justified')
    BY <1>4, <2>4 DEF Good
  <2>8. ASSUME NEW s \in Requests PROVE InPlace(s)
    <3>1. n.pc # "marker" /\ n.pc \in AfterPublish
      BY <2>4 DEF AfterPublish
    <3>2. /\ proc'[worker(s)] = proc[worker(s)]
          /\ s # r => proc'[request(s)] = proc[request(s)]
      BY <2>4, ProcFacts DEF Moves
    <3> QED BY <3>1, <3>2 DEF InPlace
  <2> QED BY <1>1, <2>3, <2>4, <2>5, <2>6, <2>7, <2>8, Written
<1> QED BY <1>3, <1>4 DEF rollbackWrite

-----------------------------------------------------------------------------
\* The requests.

LEMMA BeginKeeps ==
    ASSUME RunConstants, Inv, NEW r \in Requests, Begin(r)
    PROVE  Inv'
<1>1. /\ request(r) \in Procs /\ proc[request(r)].pc = "idle" /\ Goto(request(r), "read")
      /\ UNCHANGED <<store, queuedMark, queue, verdicts>> /\ Types
  BY ProcFacts DEF Begin, Inv
<1>2. "read" \in Free /\ "idle" \notin AfterPublish
  BY DEF Free, AfterPublish
<1>3. /\ Moves(request(r), proc'[request(r)]) /\ proc'[request(r)].pc = "read"
      /\ Good(proc'[request(r)], verification, rolledBack, Justified')
  BY <1>1, <1>2, GotoFree
<1> QED BY <1>1, <1>2, <1>3, RequestQuiet DEF Types

\* The two reads that a decision rests on.
LEMMA ReadsKeep ==
    ASSUME RunConstants, Inv, NEW r \in Requests, ReadStatus(r) \/ ReadMark(r)
    PROVE  Inv'
<1> DEFINE p == request(r)
           k == proc[p]
           n == proc'[p]
<1>1. /\ p \in Procs /\ k.pc = "read" /\ Types
      /\ Good(k, verification, rolledBack, Justified) /\ Sane(k)
      /\ UNCHANGED <<store, queuedMark, queue, verdicts, faults>>
  BY ProcFacts DEF Inv, Good, ReadStatus, ReadMark
<1>2. /\ Moves(p, n) /\ DOMAIN n = ProcFields /\ n.status \in {k.status, StatusOf(verification)}
      /\ \A f \in ProcFields \ {"status", "mark"} : n[f] = k[f]
  BY <1>1 DEF ReadStatus, ReadMark, Moves, Types, Sane, ProcFields
<1>3. n.pc = "read" /\ n.attempt = k.attempt /\ n.cur = k.cur /\ n.rb = k.rb
  BY <1>1, <1>2 DEF ProcFields
<1>4. /\ n.pc \in AllPcs /\ n.pc \notin Loaded \cup Carrying \cup Working \cup {"rollbackWrite", "deleted"}
      /\ n.pc \notin {"completeRollback", "completeWrite", "markWrite"} /\ n.pc \notin AfterPublish
      /\ k.pc \notin AfterPublish
  BY <1>1, <1>3 DEF AllPcs, Pcs, Loaded, Carrying, Working, AfterPublish
<1>5. Good(n, verification, rolledBack, Justified')
  <2>1. StatusOf(verification) # "none" => verification # NoItem
    BY DEF StatusOf
  <2> HIDE DEF n, k
  <2>2. Sane(n)
    BY <1>1, <1>2, <1>3, <1>4 DEF Sane
  <2>3. ~rolledBack => Current(n, verification)
    BY <1>1, <1>2, <1>4, <2>1 DEF Current, Good
  <2> QED BY <1>4, <2>2, <2>3 DEF Good
<1>6. n.pc # "marker"
  BY <1>3
<1> QED BY <1>1, <1>2, <1>4, <1>5, <1>6, RequestQuiet DEF Types

LEMMA DecideKeeps ==
    ASSUME RunConstants, Inv, NEW r \in Requests, Decide(r)
    PROVE  Inv'
<1> DEFINE p == request(r)
           k == proc[p]
           n == proc'[p]
<1>1. /\ p \in Procs /\ k.pc = "read" /\ k.status # "unread" /\ Types
      /\ Good(k, verification, rolledBack, Justified) /\ Sane(k)
      /\ UNCHANGED <<store, queuedMark, queue, verdicts, faults>>
  BY ProcFacts DEF Inv, Good, Decide
<1>2. \/ \E a : Answer(p, a)
      \/ k.status = "running" /\ proc' = [proc EXCEPT ![p].pc = "publish", ![p].mode = "resume"]
      \/ proc' = [proc EXCEPT ![p].pc = "mark", ![p].mode = "start"]
  BY DEF Decide
<1>3. CASE \E a : Answer(p, a)
  BY <1>1, <1>3, AnswerKeeps DEF Types
<1>4. ASSUME NEW x \in {"publish", "mark"}, NEW m, proc' = [proc EXCEPT ![p].pc = x, ![p].mode = m],
             x = "publish" => k.status = "running"
      PROVE  Inv'
  <2>1. /\ Moves(p, n) /\ DOMAIN n = ProcFields /\ n.pc = x
        /\ \A f \in ProcFields \ {"pc", "mode"} : n[f] = k[f]
    BY <1>1, <1>4 DEF Moves, Types, Sane, ProcFields
  <2>2. n.attempt = k.attempt /\ n.cur = k.cur /\ n.rb = k.rb /\ n.status = k.status
    BY <2>1 DEF ProcFields
  <2>3. /\ n.pc \in AllPcs /\ n.pc \notin Loaded \cup Carrying \cup {"rollbackWrite", "deleted"}
        /\ n.pc \notin {"completeRollback", "completeWrite", "markWrite"} /\ k.pc \notin AfterPublish
        /\ n.pc \in Working => n.pc = "publish"
    BY <1>1, <2>1 DEF AllPcs, Pcs, Loaded, Carrying, Working, AfterPublish
  <2>4. Good(n, verification, rolledBack, Justified')
    <3>1. n.pc = "publish" => k.status = "running"
      BY <1>4, <2>1
    <3> HIDE DEF n, k
    <3>2. Sane(n)
      BY <1>1, <2>1, <2>2, <2>3 DEF Sane
    <3>3. ~rolledBack => Current(n, verification)
      BY <1>1, <2>2, <2>3, <3>1 DEF Current, Good
    <3> QED BY <2>3, <3>2, <3>3 DEF Good
  <2>5. n.pc # "marker"
    BY <2>1
  <2> QED BY <1>1, <2>1, <2>3, <2>4, <2>5, RequestQuiet DEF Types
<1> QED BY <1>2, <1>3, <1>4

LEMMA MarkKeeps ==
    ASSUME RunConstants, Inv, NEW r \in Requests, markVerificationRunning(r)
    PROVE  Inv'
<1> DEFINE p == request(r)
           after == IF Local THEN "verify" ELSE "publish"
<1>1. p \in Procs /\ Types /\ after \in {"verify", "publish"}
  BY ProcFacts DEF Inv
<1>2. CASE loadVerificationItem(p, "mark", "markRollback", after)
  <2>1. /\ Moves(p, proc'[p]) /\ proc[p].pc = "mark" /\ proc'[p].pc \in {"markRollback", after}
        /\ Good(proc'[p], verification, rolledBack, Justified')
        /\ UNCHANGED <<store, queuedMark, queue, verdicts, faults>>
    BY <1>1, <1>2, LoadGood
  <2>2. proc[p].pc \notin AfterPublish /\ proc'[p].pc # "marker"
    BY <1>1, <2>1 DEF AfterPublish
  <2> QED BY <1>1, <2>1, <2>2, RequestQuiet DEF Types
<1>3. CASE readRollbackItem(p, "markRollback", "markWrite")
  <2>1. /\ Moves(p, proc'[p]) /\ proc[p].pc = "markRollback" /\ proc'[p].pc = "markWrite"
        /\ Good(proc'[p], verification, rolledBack, Justified')
        /\ UNCHANGED <<store, queuedMark, queue, verdicts, faults>>
    BY <1>1, <1>3, RollbackItemGood
  <2>2. proc[p].pc \notin AfterPublish /\ proc'[p].pc # "marker"
    BY <2>1 DEF AfterPublish
  <2> QED BY <1>1, <2>1, <2>2, RequestQuiet DEF Types
<1>4. CASE rereadStart(p)
  <2>1. /\ \E a : Answer(p, a)
        /\ UNCHANGED <<store, queuedMark, queue, verdicts, faults>>
    BY <1>4 DEF rereadStart
  <2> QED BY <1>1, <2>1, AnswerKeeps DEF Types
<1> QED BY <1>2, <1>3, <1>4, StartKeeps DEF markVerificationRunning

\* A message is sent before its request knows.
LEMMA PublishKeeps ==
    ASSUME RunConstants, Inv, NEW r \in Requests, Publish(r) \/ PublishFails(r)
    PROVE  Inv'
<1> DEFINE p == request(r)
           k == proc[p]
           n == proc'[p]
<1>1. /\ p \in Procs /\ k.pc = "publish" /\ Types
      /\ Good(k, verification, rolledBack, Justified) /\ Sane(k)
      /\ UNCHANGED <<store, queuedMark, receives, verdicts>>
      /\ QueueOK(message[r], receives[r], k.pc, proc[worker(r)].pc, verification, rolledBack)
  BY ProcFacts DEF Inv, Good, Publish, PublishFails, Queues
<1>2. message' \in {message, [message EXCEPT ![r] = "queued"]}
  BY DEF Publish, PublishFails
<1>3. \/ Goto(p, "marker") /\ message' = [message EXCEPT ![r] = "queued"]
      \/ Goto(p, "rollback") \/ Answer(p, "error")
  BY DEF Publish, PublishFails
<1>4. Types' /\ Justified' = Justified
  <2>1. DOMAIN proc' = Procs
    BY <1>1 DEF Publish, PublishFails, Goto, Answer, Types
  <2> QED BY <1>1, <1>2, <2>1 DEF Types, store, Places, Justified
<1>5. message[r] = "none" /\ receives[r] = 0 /\ (~rolledBack => verification # NoItem)
  BY <1>1 DEF QueueOK, AfterPublish, Good, Current, Working
<1>6. /\ Moves(p, n) /\ n.pc \in {"marker", "rollback", "done"}
      /\ n.pc = "marker" => message'[r] = "queued"
      /\ Good(n, verification, rolledBack, Justified')
  <2>1. CASE Answer(p, "error")
    BY <1>1, <2>1, AnswerFree
  <2>2. CASE Goto(p, "rollback")
    <3>1. "rollback" \in Free
      BY DEF Free
    <3> QED BY <1>1, <2>2, <3>1, GotoFree
  <2>3. CASE Goto(p, "marker") /\ message' = [message EXCEPT ![r] = "queued"]
    <3>1. /\ Moves(p, n) /\ DOMAIN n = ProcFields /\ n.pc = "marker"
          /\ \A f \in ProcFields \ {"pc"} : n[f] = k[f]
      BY <1>1, <2>3, GotoFacts
    <3>2. n.attempt = k.attempt /\ n.cur = k.cur /\ n.rb = k.rb /\ n.status = k.status
      BY <3>1 DEF ProcFields
    <3>3. /\ n.pc \in AllPcs /\ n.pc \notin Loaded \cup Carrying \cup {"rollbackWrite", "deleted"}
          /\ n.pc \notin {"completeRollback", "completeWrite", "markWrite"}
      BY <3>1 DEF AllPcs, Pcs, Loaded, Carrying
    <3>4. Good(n, verification, rolledBack, Justified')
      <4> HIDE DEF n, k
      <4>1. Sane(n)
        BY <1>1, <3>1, <3>2, <3>3 DEF Sane
      <4>2. ~rolledBack => Current(n, verification)
        BY <1>5, <3>3 DEF Current
      <4> QED BY <3>3, <4>1, <4>2 DEF Good
    <3>5. message'[r] = "queued"
      BY <1>1, <2>3 DEF Types
    <3> QED BY <3>1, <3>4, <3>5
  <2> QED BY <1>3, <2>1, <2>2, <2>3
<1>7. ASSUME NEW s \in Requests
      PROVE  QueueOK(message'[s], receives'[s], proc'[request(s)].pc, proc'[worker(s)].pc,
                     verification', rolledBack')
  <2>1. QueueOK(message[s], receives[s], proc[request(s)].pc, proc[worker(s)].pc, verification, rolledBack)
    BY DEF Inv, Queues
  <2>2. /\ proc'[worker(s)] = proc[worker(s)]
        /\ s # r => proc'[request(s)] = proc[request(s)] /\ message'[s] = message[s]
    BY <1>1, <1>2, <1>6, ProcFacts DEF Moves, Types
  <2>3. CASE s # r
    BY <1>1, <2>1, <2>2, <2>3 DEF store
  <2>4. CASE s = r
    <3>1. message'[r] \in {"none", "queued"} /\ n.pc \in AfterPublish
      BY <1>1, <1>2, <1>5, <1>6 DEF Types, AfterPublish
    <3>2. 0 < MaxReceives /\ receives'[r] = 0
      BY <1>1, <1>5 DEF RunConstants
    <3> QED BY <1>1, <1>5, <1>6, <2>1, <2>2, <2>4, <3>1, <3>2 DEF QueueOK, store
  <2> QED BY <2>3, <2>4
<1>8. \A s \in Requests : message[s] # "none" => message'[s] # "none"
  BY <1>2 DEF Types, Inv
<1>9. Queues'
  BY <1>1, <1>7, <1>8 DEF Queues, Inv
<1> QED BY <1>1, <1>4, <1>6, <1>9, Quiet

LEMMA MarkerKeeps ==
    ASSUME RunConstants, Inv, NEW r \in Requests, recordQueuedMarker(r)
    PROVE  Inv'
<1>1. /\ proc[request(r)].pc = "marker" /\ Answer(request(r), "running")
      /\ UNCHANGED <<store, queue, verdicts>> /\ queuedMark' \in {TRUE, queuedMark}
  BY DEF recordQueuedMarker
<1>2. message[r] # "none"
  BY <1>1 DEF Inv, Queues, QueueOK
<1>3. queuedMark' \in BOOLEAN
  BY <1>1 DEF Inv, Types
<1> QED BY <1>1, <1>2, <1>3, AnswerKeeps

\* The verifier answers.
LEMMA VerdictGood ==
    ASSUME RunConstants, Inv, NEW p \in Procs, NEW v \in Terminal, NEW x \in {"upload", "complete"},
           verdicts' = verdicts \cup {v}, UNCHANGED <<store, queue>>,
           proc' = [proc EXCEPT ![p].write = v, ![p].pc = x],
           ~rolledBack => verification # NoItem
    PROVE  /\ Moves(p, proc'[p]) /\ proc'[p].pc = x
           /\ Good(proc'[p], verification, rolledBack, Justified')
           /\ verdicts' \subseteq Terminal /\ verdicts \subseteq verdicts'
<1> DEFINE k == proc[p]
           n == proc'[p]
<1>1. Good(k, verification, rolledBack, Justified) /\ Types /\ Sane(k)
  BY DEF Inv, Good
<1>2. /\ Moves(p, n) /\ DOMAIN n = ProcFields /\ n.pc = x /\ n.write = v
      /\ \A f \in ProcFields \ {"pc", "write"} : n[f] = k[f]
  BY <1>1 DEF Moves, Types, Sane, ProcFields
<1>3. n.attempt = k.attempt /\ n.cur = k.cur /\ n.rb = k.rb /\ n.status = k.status
  BY <1>2 DEF ProcFields
<1>4. /\ n.pc \in AllPcs /\ n.pc \notin Loaded \cup {"rollbackWrite", "deleted"}
      /\ n.pc \notin {"completeRollback", "completeWrite", "markWrite"}
  BY <1>2 DEF AllPcs, Pcs, Loaded
<1>5. n.write \in Justified' /\ verdicts' \subseteq Terminal /\ verdicts \subseteq verdicts'
  BY <1>1, <1>2 DEF Justified, Types
<1> HIDE DEF n, k
<1>6. Sane(n)
  BY <1>1, <1>2, <1>3, <1>4 DEF Sane
<1>7. ~rolledBack => Current(n, verification)
  BY <1>4 DEF Current
<1>8. Good(n, verification, rolledBack, Justified')
  BY <1>4, <1>5, <1>6, <1>7 DEF Good
<1> QED BY <1>2, <1>5, <1>8 DEF n

LEMMA LocalVerifyKeeps ==
    ASSUME RunConstants, Inv, NEW r \in Requests, LocalVerify(r)
    PROVE  Inv'
<1> DEFINE p == request(r)
<1>1. /\ p \in Procs /\ proc[p].pc = "verify" /\ Types /\ UNCHANGED <<store, queuedMark, queue>>
      /\ Good(proc[p], verification, rolledBack, Justified)
  BY ProcFacts DEF Inv, LocalVerify
<1>2. proc[p].pc \notin AfterPublish /\ (~rolledBack => verification # NoItem)
  BY <1>1 DEF AfterPublish, Good, Current, Working
<1>3. ASSUME NEW v \in Terminal, verdicts' = verdicts \cup {v},
             proc' = [proc EXCEPT ![p].write = v, ![p].pc = "complete"]
      PROVE  Inv'
  <2>1. /\ Moves(p, proc'[p]) /\ proc'[p].pc = "complete"
        /\ Good(proc'[p], verification, rolledBack, Justified')
        /\ verdicts' \subseteq Terminal /\ verdicts \subseteq verdicts'
    BY <1>1, <1>2, <1>3, VerdictGood
  <2> QED BY <1>1, <1>2, <2>1, RequestQuiet DEF Types
<1>4. ASSUME Goto(p, "rollback"), UNCHANGED verdicts PROVE Inv'
  <2>1. "rollback" \in Free
    BY DEF Free
  <2>2. /\ Moves(p, proc'[p]) /\ proc'[p].pc = "rollback"
        /\ Good(proc'[p], verification, rolledBack, Justified')
    BY <1>1, <1>4, <2>1, GotoFree
  <2> QED BY <1>1, <1>2, <1>4, <2>2, RequestQuiet DEF Types
<1> QED BY <1>3, <1>4 DEF LocalVerify

LEMMA LocalCompleteKeeps ==
    ASSUME RunConstants, Inv, NEW r \in Requests, LocalComplete(r)
    PROVE  Inv'
<1> DEFINE p == request(r)
<1>1. p \in Procs /\ Types /\ Sane(proc[p])
  BY ProcFacts DEF Inv, Good
<1>2. CASE loadVerificationItem(p, "complete", "completeRollback", "localDone")
  <2>1. /\ Moves(p, proc'[p]) /\ proc[p].pc = "complete" /\ proc'[p].pc \in {"completeRollback", "localDone"}
        /\ Good(proc'[p], verification, rolledBack, Justified')
        /\ UNCHANGED <<store, queuedMark, queue, verdicts, faults>>
    BY <1>1, <1>2, LoadGood
  <2>2. proc[p].pc \notin AfterPublish /\ proc'[p].pc # "marker"
    BY <2>1 DEF AfterPublish
  <2> QED BY <1>1, <2>1, <2>2, RequestQuiet DEF Types
<1>3. CASE readRollbackItem(p, "completeRollback", "completeWrite")
  <2>1. /\ Moves(p, proc'[p]) /\ proc[p].pc = "completeRollback" /\ proc'[p].pc = "completeWrite"
        /\ Good(proc'[p], verification, rolledBack, Justified')
        /\ UNCHANGED <<store, queuedMark, queue, verdicts, faults>>
    BY <1>1, <1>3, RollbackItemGood
  <2>2. proc[p].pc \notin AfterPublish /\ proc'[p].pc # "marker"
    BY <2>1 DEF AfterPublish
  <2> QED BY <1>1, <2>1, <2>2, RequestQuiet DEF Types
<1>4. CASE writeCompletion(p, "localDone")
  <2>1. proc[p].pc = "completeWrite" /\ UNCHANGED <<queuedMark, queue, verdicts, faults>>
    BY <1>4 DEF writeCompletion
  <2>2. proc[p].pc \notin AfterPublish
    BY <2>1 DEF AfterPublish
  <2>3. CASE SameRevision(proc[p])
    <3>1. Goto(p, "localDone")
      BY <1>4, <2>3 DEF writeCompletion
    <3>2. Moves(p, proc'[p]) /\ proc'[p].pc = "localDone"
      BY <1>1, <3>1, GotoFacts
    <3>3. ASSUME NEW s \in Requests PROVE InPlace(s)
      <4>1. /\ proc'[worker(s)] = proc[worker(s)]
            /\ s # r => proc'[request(s)] = proc[request(s)]
        BY <3>2, ProcFacts DEF Moves
      <4> QED BY <2>2, <3>2, <4>1 DEF InPlace
    <3> QED BY <1>1, <1>4, <2>3, <3>3, CompletionWritten
  <2>4. CASE ~SameRevision(proc[p])
    <3>1. Refused(p, "complete", "failing") /\ UNCHANGED store
      BY <1>4, <2>4 DEF writeCompletion
    <3>2. /\ Moves(p, proc'[p]) /\ proc'[p].pc \in {"complete", "failing"}
          /\ Good(proc'[p], verification, rolledBack, Justified')
      BY <1>1, <2>1, <3>1, RefusedGood
    <3> QED BY <1>1, <2>1, <2>2, <3>1, <3>2, RequestQuiet DEF Types
  <2> QED BY <2>3, <2>4
<1>5. CASE \E a : Answer(p, a) /\ UNCHANGED <<store, queuedMark, queue, verdicts, faults>>
  BY <1>1, <1>5, AnswerKeeps DEF Types
<1> QED BY <1>2, <1>3, <1>4, <1>5 DEF LocalComplete

LEMMA RollbackStepsKeep ==
    ASSUME RunConstants, Inv, NEW r \in Requests, Rollback(r)
    PROVE  Inv'
<1> DEFINE p == request(r)
           k == proc[p]
           n == proc'[p]
<1>1. p \in Procs /\ Types /\ Sane(k) /\ Good(k, verification, rolledBack, Justified)
  BY ProcFacts DEF Inv, Good
<1>2. ASSUME NEW x \in {"rollbackItem", "rollbackWrite"}, NEW f \in {"cur", "rb"}, NEW value,
             proc' = [proc EXCEPT ![p][f] = value, ![p].pc = x],
             UNCHANGED <<store, queuedMark, queue, verdicts, faults>>,
             f = "cur" => value \in VerificationItem \cup {NoItem},
             f = "rb" => value \in Snapshot,
             x = "rollbackWrite" => f = "rb" /\ value # NoItem
      PROVE  Inv'
  <2>1. /\ Moves(p, n) /\ DOMAIN n = ProcFields /\ n.pc = x /\ n[f] = value
        /\ \A g \in ProcFields \ {"pc", f} : n[g] = k[g]
    BY <1>1, <1>2 DEF Moves, Types, Sane, ProcFields
  <2>2. n.attempt = k.attempt /\ n.status = k.status
    BY <2>1 DEF ProcFields
  <2>3. n.cur \in VerificationItem \cup {NoItem} /\ n.rb \in Snapshot \cup {NoItem}
    BY <1>1, <1>2, <2>1 DEF Sane, ProcFields
  <2>4. n.pc = "rollbackWrite" => n.rb # NoItem
    BY <1>2, <2>1
  <2>5. /\ n.pc \in AllPcs /\ n.pc \notin Loaded \cup Carrying \cup Working
        /\ n.pc \notin {"completeRollback", "completeWrite", "markWrite", "deleted", "marker"}
        /\ n.pc \in AfterPublish
    BY <2>1 DEF AllPcs, Pcs, Loaded, Carrying, Working, AfterPublish
  <2>6. Good(n, verification, rolledBack, Justified')
    <3> HIDE DEF n, k
    <3>1. Sane(n)
      BY <1>1, <2>1, <2>2, <2>3, <2>5 DEF Sane
    <3>2. ~rolledBack => Current(n, verification)
      BY <1>1, <2>2, <2>5 DEF Current, Good
    <3> QED BY <2>4, <2>5, <3>1, <3>2 DEF Good
  <2> QED BY <1>1, <1>2, <2>1, <2>5, <2>6, RequestQuiet DEF Types
<1>3. CASE rollbackRead(p)
  BY <1>1, <1>2, <1>3 DEF rollbackRead, Types
<1>4. CASE rollbackReadItem(p)
  <2>1. CASE rollback = NoItem
    BY <1>1, <1>4, <2>1, AnswerKeeps DEF rollbackReadItem, Types
  <2>2. CASE rollback # NoItem
    BY <1>1, <1>2, <1>4, <2>2 DEF rollbackReadItem, Types
  <2> QED BY <2>1, <2>2
<1> QED BY <1>3, <1>4, RollbackKeeps DEF Rollback

LEMMA RequestKeeps ==
    ASSUME RunConstants, Inv, NEW r \in Requests, Begin(r) \/ RequestStep(r) \/ RequestDies(r)
    PROVE  Inv'
<1>1. CASE admissionFails(r) \/ RequestDies(r)
  BY <1>1, AnswerKeeps DEF admissionFails, RequestDies, Inv, Types
<1> QED BY <1>1, BeginKeeps, ReadsKeep, DecideKeeps, MarkKeeps, PublishKeeps, MarkerKeeps,
           RollbackStepsKeep, LocalVerifyKeeps, LocalCompleteKeeps DEF RequestStep

-----------------------------------------------------------------------------
\* The worker.

\* A message moves and its worker becomes n.
LEMMA DeliveryKeeps ==
    ASSUME RunConstants, Inv, UNCHANGED <<store, queuedMark, verdicts>>,
           NEW r \in Requests, Moves(worker(r), proc'[worker(r)]),
           Good(proc'[worker(r)], verification, rolledBack, Justified),
           NEW place \in Places \ {"none"}, message' = [message EXCEPT ![r] = place],
           receives' \in [Requests -> Nat], \A s \in Requests : receives[s] <= receives'[s],
           \A s \in Requests : s # r => receives'[s] = receives[s],
           QueueOK(place, receives'[r], proc[request(r)].pc, proc'[worker(r)].pc,
                   verification, rolledBack)
    PROVE  Inv'
<1>1. Types /\ Types'
  BY DEF Inv, Types, store, Moves
<1>2. Justified \subseteq Justified'
  BY <1>1, JustifiedGrows
<1>3. Good(proc'[worker(r)], verification, rolledBack, Justified')
  BY <1>2 DEF Good
<1>4. ASSUME NEW s \in Requests
      PROVE  QueueOK(message'[s], receives'[s], proc'[request(s)].pc, proc'[worker(s)].pc,
                     verification', rolledBack')
  <2>1. QueueOK(message[s], receives[s], proc[request(s)].pc, proc[worker(s)].pc, verification, rolledBack)
    BY DEF Inv, Queues
  <2>2. /\ proc'[request(s)] = proc[request(s)]
        /\ s # r => proc'[worker(s)] = proc[worker(s)] /\ message'[s] = message[s]
        /\ message'[r] = place
    BY <1>1, ProcFacts DEF Moves, Types
  <2>3. CASE s = r
    BY <2>2, <2>3 DEF store
  <2>4. CASE s # r
    BY <2>1, <2>2, <2>4 DEF store
  <2> QED BY <2>3, <2>4
<1>5. \A s \in Requests : message[s] # "none" => message'[s] # "none"
  BY <1>1 DEF Types
<1>6. Queues'
  BY <1>4, <1>5 DEF Queues, Inv
<1> QED BY <1>1, <1>2, <1>3, <1>6, ProcFacts, Quiet

LEMMA IdleGood ==
    ASSUME RunConstants, NEW k, k = Idle \/ k = [Idle EXCEPT !.pc = "read"], NEW v, NEW rolled, NEW results
    PROVE  Good(k, v, rolled, results)
<1>1. /\ DOMAIN k = ProcFields /\ k.pc \in {"idle", "read"} /\ k.attempt = 0
      /\ k.cur = NoItem /\ k.rb = NoItem /\ k.status = "unread"
  BY DEF Idle, ProcFields
<1>2. /\ k.pc \in AllPcs /\ k.pc \notin Loaded \cup Carrying \cup Working
      /\ k.pc \notin {"completeRollback", "completeWrite", "markWrite", "deleted", "rollbackWrite"}
  BY <1>1 DEF AllPcs, Pcs, Loaded, Carrying, Working
<1>3. Sane(k)
  BY <1>1, <1>2 DEF Sane, RunConstants
<1>4. Current(k, v)
  BY <1>1, <1>2 DEF Current
<1> QED BY <1>2, <1>3, <1>4 DEF Good

LEMMA ReceiveKeeps ==
    ASSUME RunConstants, Inv, NEW r \in Requests, Receive(r)
    PROVE  Inv'
<1> DEFINE p == worker(r)
<1>1. /\ p \in Procs /\ Types /\ UNCHANGED <<store, queuedMark, verdicts>>
      /\ message[r] = "queued" /\ message' = [message EXCEPT ![r] = "received"]
      /\ QueueOK(message[r], receives[r], proc[request(r)].pc, proc[p].pc, verification, rolledBack)
  BY ProcFacts DEF Receive, Inv, Queues
<1>2. Moves(p, proc'[p]) /\ proc'[p] = [Idle EXCEPT !.pc = "read"]
  BY <1>1 DEF Receive, Moves, Types
<1>3. Good(proc'[p], verification, rolledBack, Justified) /\ proc'[p].pc = "read"
  BY <1>2, IdleGood DEF Idle
<1>4. /\ receives' \in [Requests -> Nat] /\ receives'[r] = receives[r] + 1 /\ receives[r] \in Nat
      /\ \A s \in Requests : s # r => receives'[s] = receives[s]
  BY <1>1 DEF Receive, Types
<1>5. \A s \in Requests : receives[s] <= receives'[s]
  BY <1>1, <1>4 DEF Types
<1>6. QueueOK("received", receives'[r], proc[request(r)].pc, proc'[p].pc, verification, rolledBack)
  BY <1>1, <1>3, <1>4 DEF QueueOK, RunConstants
<1>7. "received" \in Places \ {"none"}
  BY DEF Places
<1> QED BY <1>1, <1>2, <1>3, <1>4, <1>5, <1>6, <1>7, DeliveryKeeps

\* The work is over: the message is deleted only if there is a result.
LEMMA SettleKeeps ==
    ASSUME RunConstants, Inv, NEW r \in Requests, Settle(r) \/ WorkerDies(r)
    PROVE  Inv'
<1> DEFINE p == worker(r)
<1>1. /\ p \in Procs /\ Types /\ UNCHANGED <<store, queuedMark, verdicts, receives>>
      /\ proc[p].pc # "idle" /\ proc' = [proc EXCEPT ![p] = Idle]
      /\ Good(proc[p], verification, rolledBack, Justified)
      /\ QueueOK(message[r], receives[r], proc[request(r)].pc, proc[p].pc, verification, rolledBack)
  BY ProcFacts DEF Settle, WorkerDies, Inv, Queues
<1>2. Moves(p, proc'[p]) /\ proc'[p] = Idle
  BY <1>1 DEF Moves, Types
<1>3. Good(proc'[p], verification, rolledBack, Justified) /\ proc'[p].pc = "idle"
  BY <1>2, IdleGood DEF Idle
<1>4. /\ receives' \in [Requests -> Nat] /\ receives[r] \in Nat /\ MaxReceives \in Nat
      /\ \A s \in Requests : receives[s] <= receives'[s] /\ receives'[s] = receives[s]
  BY <1>1 DEF Types, RunConstants
<1>5. \/ proc[p].pc = "deleted" /\ message' = [message EXCEPT ![r] = "gone"]
      \/ receives[r] >= MaxReceives /\ message' = [message EXCEPT ![r] = "dead"]
      \/ ~(receives[r] >= MaxReceives) /\ message' = [message EXCEPT ![r] = "queued"]
  BY DEF Settle, WorkerDies, Redrive
<1>6. message[r] = "received" /\ proc[request(r)].pc \in AfterPublish
  BY <1>1 DEF QueueOK
<1>7. /\ "gone" \in Places \ {"none"} /\ "dead" \in Places \ {"none"} /\ "queued" \in Places \ {"none"}
  BY DEF Places
<1>8. CASE proc[p].pc = "deleted" /\ message' = [message EXCEPT ![r] = "gone"]
  <2>1. ~rolledBack => StatusOf(verification) \in Terminal
    BY <1>1, <1>8 DEF Good, Current
  <2>2. QueueOK("gone", receives'[r], proc[request(r)].pc, proc'[p].pc, verification, rolledBack)
    BY <1>1, <1>3, <1>4, <1>6, <2>1 DEF QueueOK
  <2> QED BY <1>1, <1>2, <1>3, <1>4, <1>7, <1>8, <2>2, DeliveryKeeps
<1>9. CASE receives[r] >= MaxReceives /\ message' = [message EXCEPT ![r] = "dead"]
  <2>1. QueueOK("dead", receives'[r], proc[request(r)].pc, proc'[p].pc, verification, rolledBack)
    BY <1>1, <1>3, <1>4, <1>6 DEF QueueOK
  <2> QED BY <1>1, <1>2, <1>3, <1>4, <1>7, <1>9, <2>1, DeliveryKeeps
<1>10. CASE ~(receives[r] >= MaxReceives) /\ message' = [message EXCEPT ![r] = "queued"]
  <2>1. QueueOK("queued", receives'[r], proc[request(r)].pc, proc'[p].pc, verification, rolledBack)
    BY <1>1, <1>3, <1>4, <1>6, <1>10 DEF QueueOK
  <2> QED BY <1>1, <1>2, <1>3, <1>4, <1>7, <1>10, <2>1, DeliveryKeeps
<1> QED BY <1>5, <1>8, <1>9, <1>10

\* A stage of the work ends.
LEMMA StageKeeps ==
    ASSUME RunConstants, Inv, NEW r \in Requests, NEW x, Goto(worker(r), x),
           \/ x \in {"verify", "invoke", "failing", "returned"}
           \/ x = "complete" /\ proc[worker(r)].pc = "upload"
           \/ x = "deleted" /\ StatusOf(verification) \in Terminal,
           proc[worker(r)].pc # "idle",
           UNCHANGED <<store, queuedMark, queue, verdicts>>
    PROVE  Inv'
<1> DEFINE p == worker(r)
           k == proc[p]
           n == proc'[p]
<1>1. /\ p \in Procs /\ Types /\ Sane(k) /\ Good(k, verification, rolledBack, Justified)
      /\ QueueOK(message[r], receives[r], proc[request(r)].pc, k.pc, verification, rolledBack)
  BY ProcFacts DEF Inv, Good, Queues
<1>2. ~rolledBack => verification # NoItem
  BY <1>1 DEF QueueOK
<1>3. /\ Moves(p, n) /\ DOMAIN n = ProcFields /\ n.pc = x
      /\ \A f \in ProcFields \ {"pc"} : n[f] = k[f]
  BY <1>1, GotoFacts
<1>4. n.attempt = k.attempt /\ n.cur = k.cur /\ n.rb = k.rb /\ n.status = k.status /\ n.write = k.write
  BY <1>3 DEF ProcFields
<1>5. /\ n.pc \in AllPcs /\ n.pc \notin Loaded /\ n.pc # "idle"
      /\ n.pc \notin {"completeRollback", "completeWrite", "markWrite", "rollbackWrite"}
      /\ n.pc \in Carrying => k.pc \in Carrying
      /\ n.pc = "deleted" => StatusOf(verification) \in Terminal
  BY <1>3 DEF AllPcs, Pcs, Loaded, Carrying
<1>6. Justified' = Justified
  BY DEF Justified, queue
<1>7. Good(n, verification, rolledBack, Justified')
  <2> HIDE DEF n, k
  <2>1. Sane(n)
    BY <1>1, <1>3, <1>4, <1>5 DEF Sane
  <2>2. ~rolledBack => Current(n, verification)
    BY <1>2, <1>5 DEF Current
  <2> QED BY <1>1, <1>4, <1>5, <1>6, <2>1, <2>2 DEF Good
<1> QED BY <1>1, <1>3, <1>5, <1>7, WorkerQuiet DEF Types

LEMMA StagesKeep ==
    ASSUME RunConstants, Inv, NEW r \in Requests,
           \/ resolveVerificationWorkDisposition(r) \/ restoreVerificationWorkDirectory(r)
           \/ invokeBundleVerifier(r) \/ publishVerificationArtifacts(r)
    PROVE  Inv'
<1> DEFINE p == worker(r)
<1>1. CASE resolveVerificationWorkDisposition(r)
  BY <1>1, StageKeeps DEF resolveVerificationWorkDisposition
<1>2. CASE restoreVerificationWorkDirectory(r)
  BY <1>2, StageKeeps DEF restoreVerificationWorkDirectory, stageFails
<1>3. CASE publishVerificationArtifacts(r)
  BY <1>3, StageKeeps DEF publishVerificationArtifacts, stageFails
<1>4. CASE invokeBundleVerifier(r)
  <2>1. /\ p \in Procs /\ Types /\ proc[p].pc = "invoke" /\ UNCHANGED <<store, queuedMark, queue>>
        /\ QueueOK(message[r], receives[r], proc[request(r)].pc, proc[p].pc, verification, rolledBack)
    BY <1>4, ProcFacts DEF invokeBundleVerifier, Inv, Queues
  <2>2. ~rolledBack => verification # NoItem
    BY <2>1 DEF QueueOK
  <2>3. ASSUME NEW v \in Terminal, verdicts' = verdicts \cup {v},
               proc' = [proc EXCEPT ![p].write = v, ![p].pc = "upload"]
        PROVE  Inv'
    <3>1. /\ Moves(p, proc'[p]) /\ proc'[p].pc = "upload"
          /\ Good(proc'[p], verification, rolledBack, Justified')
          /\ verdicts' \subseteq Terminal /\ verdicts \subseteq verdicts'
      BY <2>1, <2>2, <2>3, VerdictGood
    <3> QED BY <2>1, <3>1, WorkerQuiet
  <2>4. CASE stageFails(p) /\ UNCHANGED verdicts
    BY <2>1, <2>4, StageKeeps DEF stageFails
  <2> QED BY <1>4, <2>3, <2>4 DEF invokeBundleVerifier
<1> QED BY <1>1, <1>2, <1>3, <1>4

LEMMA CompleteKeeps ==
    ASSUME RunConstants, Inv, NEW r \in Requests, completeVerificationResult(r)
    PROVE  Inv'
<1> DEFINE p == worker(r)
<1>1. p \in Procs /\ Types /\ Sane(proc[p])
  BY ProcFacts DEF Inv, Good
<1>2. CASE loadVerificationItem(p, "complete", "completeRollback", "deleted")
  <2>1. /\ Moves(p, proc'[p]) /\ proc[p].pc = "complete" /\ proc'[p].pc \in {"completeRollback", "deleted"}
        /\ Good(proc'[p], verification, rolledBack, Justified')
        /\ UNCHANGED <<store, queuedMark, queue, verdicts, faults>>
    BY <1>1, <1>2, LoadGood
  <2> QED BY <1>1, <2>1, WorkerQuiet DEF Types
<1>3. CASE readRollbackItem(p, "completeRollback", "completeWrite")
  <2>1. /\ Moves(p, proc'[p]) /\ proc[p].pc = "completeRollback" /\ proc'[p].pc = "completeWrite"
        /\ Good(proc'[p], verification, rolledBack, Justified')
        /\ UNCHANGED <<store, queuedMark, queue, verdicts, faults>>
    BY <1>1, <1>3, RollbackItemGood
  <2> QED BY <1>1, <2>1, WorkerQuiet DEF Types
<1>4. CASE writeCompletion(p, "deleted")
  <2>1. proc[p].pc = "completeWrite" /\ UNCHANGED <<queuedMark, queue, verdicts, faults>>
    BY <1>4 DEF writeCompletion
  <2>2. CASE SameRevision(proc[p])
    <3>1. Goto(p, "deleted")
      BY <1>4, <2>2 DEF writeCompletion
    <3>2. Moves(p, proc'[p]) /\ proc'[p].pc = "deleted"
      BY <1>1, <3>1, GotoFacts
    <3>3. ASSUME NEW s \in Requests PROVE InPlace(s)
      <4>1. /\ proc'[request(s)] = proc[request(s)]
            /\ s # r => proc'[worker(s)] = proc[worker(s)]
        BY <3>2, ProcFacts DEF Moves
      <4> QED BY <2>1, <3>2, <4>1 DEF InPlace
    <3> QED BY <1>1, <1>4, <2>2, <3>3, CompletionWritten
  <2>3. CASE ~SameRevision(proc[p])
    <3>1. Refused(p, "complete", "failing") /\ UNCHANGED store
      BY <1>4, <2>3 DEF writeCompletion
    <3>2. /\ Moves(p, proc'[p]) /\ proc'[p].pc \in {"complete", "failing"}
          /\ Good(proc'[p], verification, rolledBack, Justified')
      BY <1>1, <2>1, <3>1, RefusedGood
    <3> QED BY <1>1, <2>1, <3>1, <3>2, WorkerQuiet DEF Types
  <2> QED BY <2>2, <2>3
<1> QED BY <1>2, <1>3, <1>4 DEF completeVerificationResult

\* The failure of the last delivery is a result that may be stored.
LEMMA ExhaustedKeeps ==
    ASSUME RunConstants, Inv, NEW r \in Requests, persistExhaustedVerificationFailure(r)
    PROVE  Inv'
<1> DEFINE p == worker(r)
           k == proc[p]
           n == proc'[p]
<1>1. /\ p \in Procs /\ Types /\ Sane(k) /\ Good(k, verification, rolledBack, Justified)
      /\ k.pc = "failing" /\ UNCHANGED <<store, queuedMark, queue, verdicts, faults>>
      /\ QueueOK(message[r], receives[r], proc[request(r)].pc, k.pc, verification, rolledBack)
  BY ProcFacts DEF Inv, Good, Queues, persistExhaustedVerificationFailure
<1>2. CASE Goto(p, "returned")
  BY <1>1, <1>2, StageKeeps
<1>3. CASE /\ exhausted(r)
           /\ proc' = [proc EXCEPT ![p].pc = "complete", ![p].write = "failed",
                                   ![p].mode = "exhausted", ![p].attempt = 0]
  <2>1. /\ Moves(p, n) /\ DOMAIN n = ProcFields /\ n.pc = "complete" /\ n.write = "failed"
        /\ n.attempt = 0
        /\ \A f \in ProcFields \ {"pc", "write", "mode", "attempt"} : n[f] = k[f]
    BY <1>1, <1>3 DEF Moves, Types, Sane, ProcFields
  <2>2. n.cur = k.cur /\ n.rb = k.rb /\ n.status = k.status
    BY <2>1 DEF ProcFields
  <2>3. n.write \in Justified' /\ (~rolledBack => verification # NoItem)
    BY <1>1, <1>3, <2>1 DEF Justified, exhausted, queue, QueueOK
  <2>4. /\ n.pc \in AllPcs /\ n.pc \notin Loaded
        /\ n.pc \notin {"completeRollback", "completeWrite", "markWrite", "rollbackWrite", "deleted"}
    BY <2>1 DEF AllPcs, Pcs, Loaded
  <2>5. Good(n, verification, rolledBack, Justified')
    <3> HIDE DEF n, k
    <3>1. Sane(n)
      BY <1>1, <2>1, <2>2, <2>4 DEF Sane, RunConstants
    <3>2. ~rolledBack => Current(n, verification)
      BY <2>3, <2>4 DEF Current
    <3> QED BY <2>3, <2>4, <3>1, <3>2 DEF Good
  <2> QED BY <1>1, <2>1, <2>5, WorkerQuiet DEF Types
<1> QED BY <1>2, <1>3 DEF persistExhaustedVerificationFailure

-----------------------------------------------------------------------------
\* The theorems.

LEMMA Initially ==
    ASSUME RunConstants
    PROVE  Init => Inv
<1> SUFFICES ASSUME Init PROVE Inv
  OBVIOUS
<1>1. Types
  BY DEF Init, Types, Places
<1>2. Fresh /\ StatusOf(verification) = "none" /\ "none" \notin Terminal
  BY DEF Init, Fresh, StatusOf, Terminal
<1>3. ASSUME NEW r \in Requests
      PROVE  QueueOK(message[r], receives[r], proc[request(r)].pc, proc[worker(r)].pc, verification, rolledBack)
  BY ProcFacts DEF Init, QueueOK, Idle, RunConstants
<1>4. Queues
  BY <1>3 DEF Queues, Init
<1>5. \A p \in Procs : Good(proc[p], verification, rolledBack, Justified)
  BY IdleGood DEF Init
<1> QED BY <1>1, <1>2, <1>4, <1>5 DEF Inv

LEMMA StepKeeps ==
    ASSUME RunConstants
    PROVE  Inv /\ [Next]_vars => Inv'
<1> SUFFICES ASSUME Inv, [Next]_vars PROVE Inv'
  OBVIOUS
<1>1. CASE UNCHANGED vars
  BY <1>1 DEF vars, Inv, Types, Fresh, Queues, Justified
<1>2. ASSUME NEW r \in Requests, Begin(r) \/ RequestStep(r) \/ RequestDies(r) PROVE Inv'
  BY <1>2, RequestKeeps
<1>3. ASSUME NEW r \in Requests, WorkerStep(r) \/ WorkerDies(r) PROVE Inv'
  BY <1>3, ReceiveKeeps, SettleKeeps, StagesKeep, CompleteKeeps, ExhaustedKeeps DEF WorkerStep
<1> QED BY <1>1, <1>2, <1>3 DEF Next

LEMMA Invariance ==
    ASSUME RunConstants
    PROVE  Spec => []Inv
<1>1. Init => Inv
  BY Initially
<1>2. Inv /\ [Next]_vars => Inv'
  BY StepKeeps
<1> QED BY <1>1, <1>2, PTL DEF Spec

\* A stored result is one that the verifier gave or the failure of work whose
\* deliveries were used up, however requests, redelivered messages, rollbacks and
\* crashes race (writeVerificationResult, processVerificationWorkRecord).
THEOREM ResultsAreVerified ==
    ASSUME RunConstants
    PROVE  Spec => [](TypeOK /\ ResultWasVerified)
<1>1. Inv => TypeOK /\ ResultWasVerified
  <2> SUFFICES ASSUME Inv PROVE TypeOK /\ ResultWasVerified
    OBVIOUS
  <2>1. ResultWasVerified
    BY DEF Inv, Justified, ResultWasVerified
  <2>2. verification # NoItem => verification.status \in Statuses /\ verification.rev \in Nat
    BY DEF Inv, Types, VerificationItem
  <2>3. rollback # NoItem => StatusOf(rollback.snapshot) \notin Terminal
    BY DEF Inv, Types, Snapshot, Unfinished
  <2>4. \A r \in Requests : message[r] \in Places /\ receives[r] \in 0 .. MaxReceives
    BY DEF Inv, Types, Queues, QueueOK, RunConstants
  <2>5. \A p \in Procs : proc[p].pc \in AllPcs /\ proc[p].attempt < WriteAttempts
    BY DEF Inv, Good, Sane
  <2> QED BY <2>1, <2>2, <2>3, <2>4, <2>5 DEF TypeOK, Inv, Types, Places, AllPcs
<1>2. Spec => []Inv
  BY Invariance
<1> QED BY <1>1, <1>2, PTL

\* A record that is running and marked as queued, with no message on its way, had a
\* message whose deliveries were used up, as long as nothing was rolled back: a
\* deleted message leaves a result behind (recordQueuedMarker, the batch response of
\* the worker).
THEOREM WorkIsNotForgotten ==
    ASSUME RunConstants
    PROVE  Spec => []RunningIsResumable
<1>1. Inv => RunningIsResumable
  <2> SUFFICES ASSUME Inv, StatusOf(verification) = "running", ~rolledBack, queuedMark,
                      \A r \in Requests : message[r] \in {"none", "gone", "dead"}
               PROVE  \E r \in Requests : message[r] = "dead"
    BY DEF RunningIsResumable
  <2>1. PICK r \in Requests : message[r] # "none"
    BY DEF Inv, Queues
  <2>2. message[r] = "gone" => StatusOf(verification) \in Terminal
    BY DEF Inv, Queues, QueueOK
  <2> QED BY <2>1, <2>2 DEF Terminal
<1>2. Spec => []Inv
  BY Invariance
<1> QED BY <1>1, <1>2, PTL

\* The record is written at the revision that a process loaded, or rolled back to
\* its snapshot.
LEMMA StepWrites ==
    ASSUME [Next]_vars, verification' # verification
    PROVE  \/ \E p \in Procs : proc[p].pc \in Loaded /\ SameRevision(proc[p])
           \/ rollback # NoItem /\ rolledBack'
<1>1. ASSUME NEW p, writeStart(p) PROVE proc[p].pc \in Loaded /\ SameRevision(proc[p])
  BY <1>1 DEF writeStart, store, Loaded
<1>2. ASSUME NEW p, NEW after, writeCompletion(p, after)
      PROVE  proc[p].pc \in Loaded /\ SameRevision(proc[p])
  BY <1>2 DEF writeCompletion, store, Loaded
<1>3. ASSUME NEW p, rollbackWrite(p) PROVE rollback # NoItem /\ rolledBack'
  BY <1>3 DEF rollbackWrite, store
<1>4. PICK r \in Requests : Begin(r) \/ RequestStep(r) \/ WorkerStep(r) \/ RequestDies(r) \/ WorkerDies(r)
  BY DEF Next, vars
<1>5. CASE RequestStep(r)
  <2>1. \/ writeStart(request(r)) \/ writeCompletion(request(r), "localDone") \/ rollbackWrite(request(r))
    BY <1>5 DEF RequestStep, ReadStatus, ReadMark, Decide, admissionFails, markVerificationRunning,
         loadVerificationItem, readRollbackItem, rereadStart, Publish, PublishFails, recordQueuedMarker, Rollback,
         rollbackRead, rollbackReadItem, LocalVerify, LocalComplete, store
  <2> QED BY <1>1, <1>2, <1>3, <2>1, ProcFacts
<1>6. CASE WorkerStep(r)
  <2>1. writeCompletion(worker(r), "deleted")
    BY <1>6 DEF WorkerStep, Receive, resolveVerificationWorkDisposition, restoreVerificationWorkDirectory,
         invokeBundleVerifier, publishVerificationArtifacts, completeVerificationResult,
         loadVerificationItem, readRollbackItem, persistExhaustedVerificationFailure, Settle, store
  <2> QED BY <1>2, <2>1, ProcFacts
<1>7. CASE Begin(r) \/ RequestDies(r) \/ WorkerDies(r)
  BY <1>7 DEF Begin, RequestDies, WorkerDies, store
<1> QED BY <1>4, <1>5, <1>6, <1>7

\* No start, resumption, duplicate work or exhausted delivery replaces a stored
\* result, as long as no rollback has been made (writeVerificationResult: the
\* revision condition and the terminal check of each attempt).
THEOREM ResultsStay ==
    ASSUME RunConstants
    PROVE  Spec => [][StickyUnlessRolledBack]_vars
<1>1. Inv /\ [Next]_vars => [StickyUnlessRolledBack]_vars
  <2> SUFFICES ASSUME Inv, [Next]_vars, StatusOf(verification) \in Terminal, ~rolledBack
               PROVE  verification' = verification
    BY DEF StickyUnlessRolledBack
  <2>1. ASSUME NEW p \in Procs, proc[p].pc \in Loaded, SameRevision(proc[p]) PROVE FALSE
    BY <2>1, WriteFacts
  <2>2. rollback = NoItem
    BY DEF Inv, Fresh, Terminal
  <2> QED BY <2>1, <2>2, StepWrites
<1>2. Spec => []Inv
  BY Invariance
<1> QED BY <1>1, <1>2, PTL DEF Spec

=============================================================================
