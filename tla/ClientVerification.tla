------------------------ MODULE ClientVerification ------------------------
(***************************************************************************)
(* The verification page of a browser tab and the poller that runs behind  *)
(* it (apps/web/src/routes/verify and verification).                       *)
(*                                                                         *)
(* The poller belongs to the tab, not to a page: it is started by the      *)
(* result page, publishes what it learns to whoever listens and may still  *)
(* await an answer when the tab has gone on to another session.  The       *)
(* verification page fetches the verification itself, starts its sequence  *)
(* once the first answer is in, asks for a run if there was none, and      *)
(* fetches until the verdict is there, the wait is over or the page is     *)
(* left.  Answers of a page that was left still reach the stored session.  *)
(* Another tab may store its own session or reset; a session has one       *)
(* successful finalization, which its id stands for.                       *)
(***************************************************************************)
EXTENDS ClientStorage, Naturals, Sequences, FiniteSets

CONSTANTS MaxSessions,   \* sessions the tab goes through, each with a result
          Outcomes,      \* the outcomes a verification run may have
          MaxMounts,     \* bound on the verification pages mounted
          MaxFaults      \* bound on lost answers, damaged results and other tabs' steps

\* What an instance gives the constants.
ClientVerificationConstants ==
  /\ MaxSessions \in Nat \ {0} /\ MaxMounts \in Nat \ {0} /\ MaxFaults \in Nat
  /\ Outcomes \subseteq {"success", "failed"}

VARIABLES record, knowledge, lock,  \* the view of the tab
          page,                     \* what the tab shows
          seq,                      \* the sequence of the verification page
          flight,                   \* requests of verification pages, also left ones
          pollers,                  \* the pollers ever started
          latest,                   \* the latest snapshot of the pollers
          server,                   \* the verification of each session
          mounts, faults,
          replaced                  \* sessions another tab replaced or reset

vars == <<record, knowledge, lock, page, seq, flight, pollers, latest, server, mounts, faults, replaced>>
store == <<record, knowledge, lock>>

Sessions == 1 .. MaxSessions
PendingStatus == {"not_run", "running"}
Terminal == {"success", "failed"}
Available == PendingStatus \cup Terminal

View == [record |-> record, knowledge |-> knowledge, lock |-> lock]
Put(v) == record' = v.record /\ knowledge' = v.knowledge /\ lock' = v.lock

Stored(s) == [EmptyRecord EXCEPT !.session = s, !.phase = "verifying", !.result = s]

Page(at, s) == [at |-> at, id |-> s, mount |-> mounts, data |-> None, validated |-> FALSE, error |-> FALSE,
                loading |-> at = "verify", continues |-> FALSE, steps |-> None]

NoSequence == [pc |-> "none", asked |-> FALSE, payload |-> None]

Datum(s, status) == [session |-> s, status |-> status]

Init ==
  /\ record = Stored(1) /\ lock = 1
  /\ knowledge = [session |-> 1, facts |-> {1}]
  /\ page = [at |-> "result", id |-> 1, mount |-> 0, data |-> None, validated |-> FALSE, error |-> FALSE,
             loading |-> FALSE, continues |-> FALSE, steps |-> None]
  /\ seq = NoSequence
  /\ flight = {}
  /\ pollers = <<>>
  /\ latest = None
  /\ server = [s \in Sessions |-> [status |-> "not_run", health |-> "good"]]
  /\ mounts = 0 /\ faults = 0 /\ replaced = {}

----------------------------------------------------------------------------
(* The poller.                                                             *)

Active(p) == ~p.cancelled

hasActiveSession(v, s) == readActive(v).session = s /\ v.record.result = s

\* A poller of the same session goes on; that of another one is cancelled, though it
\* may still await an answer.
startedPollers(s) ==
  IF \E i \in DOMAIN pollers : pollers[i].session = s /\ Active(pollers[i])
    THEN pollers
    ELSE Append([i \in DOMAIN pollers |-> [pollers[i] EXCEPT !.cancelled = TRUE]],
                [session |-> s, cancelled |-> FALSE, answer |-> "timer"])

\* The next poll: it ends the poller when its session is gone or its time is over.
Poll(i) ==
  LET p == pollers[i]
  IN  /\ p.answer = "timer"
      /\ Put(IF Active(p) THEN readActive(View).view ELSE View)
      /\ \/ /\ Active(p) /\ hasActiveSession(View, p.session)
            /\ pollers' = [pollers EXCEPT ![i].answer = "sent"]
         \/ pollers' = [pollers EXCEPT ![i].answer = "ended", ![i].cancelled = TRUE]
      /\ UNCHANGED <<page, seq, flight, latest, server, mounts, faults, replaced>>

\* Faulty variant: the snapshot of any session is shown.
ListenedAny(s, status) ==
  IF page.at # "verify" \/ ~page.validated THEN {page}
  ELSE {page} \cup {[page EXCEPT !.data = Datum(s, status), !.error = FALSE, !.loading = FALSE]}

\* What the page makes of a snapshot: nothing if it is of another session, if its own
\* fetch has not been answered yet or if it comes in the same millisecond as the last.
Listened(s, status) ==
  LET own == page.at = "verify" /\ ForIdentity(View, page.id).session = s /\ record.result = s
  IN  IF ~own \/ ~page.validated THEN {page}
      ELSE {page} \cup {IF status \in Available
                          THEN [page EXCEPT !.data = Datum(s, status), !.error = FALSE, !.loading = FALSE]
                          ELSE [page EXCEPT !.data = None, !.validated = FALSE, !.error = TRUE, !.loading = FALSE]}

\* A snapshot is published without a look at whether the poller was cancelled.
PollAnswered(i) ==
  LET p == pollers[i]
      ends == p.answer \notin PendingStatus \/ p.cancelled
  IN  /\ p.answer \in Available \cup {"corrupt"}
      /\ latest' = Datum(p.session, p.answer)
      /\ page' \in Listened(p.session, p.answer)
      /\ pollers' = [pollers EXCEPT ![i].answer = IF ends THEN "ended" ELSE "timer",
                                    ![i].cancelled = @ \/ ends]
      /\ UNCHANGED <<store, seq, flight, server, mounts, faults, replaced>>

\* The session is cleared for every fatal error.  The code forgets only the result for
\* INVALID_FINALIZATION_ARTIFACT, which the API sends with status 500, never fatal.
clearClientStateForFatalPollingError(v, s) ==
  LET a == readActive(v)
  IN  IF a.session = s THEN clearClientSessionAuthority(a.view, s) ELSE a.view

\* A fatal error ("missing": any answer 401, 403 or 404) ends the poller and drops the
\* stored session; any other one leads to another poll.
PollFailed(i) ==
  LET p == pollers[i]
  IN  /\ p.answer \in {"missing", "error"}
      /\ IF p.answer = "missing"
           THEN /\ Put(clearClientStateForFatalPollingError(View, p.session))
                /\ pollers' = [pollers EXCEPT ![i].answer = "ended", ![i].cancelled = TRUE]
           ELSE /\ UNCHANGED store
                /\ pollers' = [pollers EXCEPT ![i].answer = IF p.cancelled THEN "ended" ELSE "timer"]
      /\ UNCHANGED <<page, seq, flight, latest, server, mounts, faults, replaced>>

----------------------------------------------------------------------------
(* The result page.                                                        *)

Request(kind, s, n) == [kind |-> kind, session |-> s, mount |-> n, answer |-> "sent"]

\* Starting a poller forgets a snapshot of another session.
Forgotten(s) ==
  IF latest # None /\ latest.session # s /\ startedPollers(s) # pollers THEN None ELSE latest

\* The verification status the result page knows: one the server had at some time.
Known(s) == {"not_run"} \cup {server[s].status} \cup {"running" : t \in {server[s].status} \cap Terminal}

\* The request is noted in the stored session, a run is asked for if none is known,
\* and the poller is started unless the verdict is known.
handleVerify ==
  LET s == page.id
  IN  /\ page.at = "result" /\ s # None /\ mounts < MaxMounts
      /\ ForIdentity(View, s).session = s /\ record.result = s
      /\ Put(saveSessionDataForIdentity(View, s, [requested |-> TRUE]).view)
      /\ page' = [page EXCEPT !.at = "leaving"]
      /\ \E known \in Known(s) :
           /\ flight' = IF known = "not_run" THEN flight \cup {Request("run", s, 0)} ELSE flight
           /\ pollers' = IF known \in PendingStatus THEN startedPollers(s) ELSE pollers
           /\ latest' = IF known \in PendingStatus THEN Forgotten(s) ELSE latest
      /\ UNCHANGED <<seq, server, mounts, faults, replaced>>

----------------------------------------------------------------------------
(* The verification page and its requests.                                 *)

\* Is there a session with a result for the page to ask about?
There(v, id) == ForIdentity(v, id).session # None /\ v.record.result # None

\* The page starts from the latest snapshot if that is of its own session.
InitialData(s) ==
  IF latest # None /\ latest.session = s /\ latest.status \in Available THEN latest ELSE None

\* The verification page is mounted, after handleVerify or by its address, for the
\* session that is stored then, and fetches at once.
MountVerify ==
  LET s == readActive(View).session
      there == There(View, s)
      fresh == [Page("verify", s) EXCEPT !.mount = mounts + 1]
  IN  /\ page.at \in {"result", "leaving"} /\ mounts < MaxMounts
      /\ mounts' = mounts + 1
      /\ Put(readActive(View).view)
      /\ page' = IF there THEN [fresh EXCEPT !.continues = record.requested, !.data = InitialData(s)]
                          ELSE [fresh EXCEPT !.error = TRUE, !.loading = FALSE]
      /\ flight' = flight \cup {q \in {Request("first", s, mounts + 1)} : there}
      /\ seq' = NoSequence
      /\ UNCHANGED <<pollers, latest, server, faults, replaced>>

\* The server (external): a run is started once; a damaged result or a missing session
\* is told as such.  The answer to the result page's run request is not looked at.
Told(s) == CASE server[s].health = "missing" -> "missing"
             [] server[s].health = "corrupt" -> "corrupt"
             [] OTHER -> server[s].status

Serve(r) ==
  LET started == r.kind \in {"run", "rerun"} /\ server[r.session] = [status |-> "not_run", health |-> "good"]
  IN  /\ r \in flight /\ r.answer = "sent"
      /\ flight' = (flight \ {r}) \cup {q \in {[r EXCEPT !.answer = Told(r.session)]} : r.kind # "run"}
      /\ server' = IF started THEN [server EXCEPT ![r.session].status = "running"] ELSE server
      /\ UNCHANGED <<store, page, seq, pollers, latest, mounts, faults, replaced>>

ServePoll(i) ==
  /\ pollers[i].answer = "sent"
  /\ pollers' = [pollers EXCEPT ![i].answer = Told(pollers[i].session)]
  /\ UNCHANGED <<store, page, seq, flight, latest, server, mounts, faults, replaced>>

\* Is the request one of the page that is shown?
Mounted(r) == page.at = "verify" /\ page.mount = r.mount

\* What a fetched verification does to the stored session: its knowledge is merged, a
\* damaged result is forgotten and a missing session dropped.
FetchedStore(r) ==
  CASE r.answer \in Available -> saveKnowledge(View, None, r.session, {r.session})
    [] r.answer = "corrupt" -> clearClientFinalizedProjection(View, r.session)
    [] r.answer = "missing" -> clearClientSessionAuthority(View, r.session)
    [] r.answer = "error" -> View

FetchedPage(r) ==
  CASE ~Mounted(r) -> page
    [] Mounted(r) /\ r.answer \in Available ->
         [page EXCEPT !.data = Datum(r.session, r.answer), !.validated = TRUE, !.error = FALSE, !.loading = FALSE]
    [] Mounted(r) /\ r.answer \notin Available /\ r.kind = "first" ->
         [page EXCEPT !.data = None, !.validated = FALSE, !.error = TRUE, !.loading = FALSE, !.continues = FALSE]
    [] Mounted(r) /\ r.answer \in {"corrupt", "missing"} /\ r.kind = "fetch" -> [page EXCEPT !.error = TRUE]
    [] OTHER -> page

FirstFetched(r) ==
  /\ r \in flight /\ r.kind = "first" /\ r.answer # "sent"
  /\ flight' = flight \ {r}
  /\ Put(FetchedStore(r))
  /\ page' = FetchedPage(r)
  /\ UNCHANGED <<seq, pollers, latest, server, mounts, faults, replaced>>

----------------------------------------------------------------------------
(* The sequence.                                                           *)

StarkStatus == IF page.data = None THEN "not_run" ELSE page.data.status

directAccessBlocked == ~page.continues /\ StarkStatus = "not_run"

Published(status) == [page EXCEPT !.steps = Datum(page.id, status)]

\* The sequence goes on from a status without waiting: it has its verdict, asks for a
\* run, once, or fetches.  Without a session or result to ask about it fails.
Continue(status, asked, payload) ==
  LET at(pc) == seq' = [pc |-> pc, asked |-> asked \/ pc = "rerun", payload |-> payload]
      ask(kind) == at(kind) /\ flight' = flight \cup {Request(kind, page.id, page.mount)}
  IN  CASE status \in Terminal -> at("publish") /\ UNCHANGED flight
        [] status \notin Terminal /\ ~There(View, page.id) -> at("give_up") /\ UNCHANGED flight
        [] status = "not_run" /\ ~asked /\ There(View, page.id) -> ask("rerun")
        [] OTHER -> ask("fetch")

\* The page starts its sequence by itself, once.
runVerificationSequence ==
  LET a == ForIdentity(View, page.id)
  IN  /\ page.at = "verify" /\ seq.pc = "none"
      /\ ~page.loading /\ ~page.error /\ page.data # None /\ page.validated /\ ~directAccessBlocked
      /\ Put(a.view)
      /\ IF a.session = None
           THEN page' = [page EXCEPT !.error = TRUE] /\ UNCHANGED <<seq, flight>>
           ELSE Continue(StarkStatus, FALSE, page.data) /\ UNCHANGED page
      /\ UNCHANGED <<pollers, latest, server, mounts, faults, replaced>>

\* The answer to the sequence's own run request.  A damaged result or a missing
\* session ends the sequence; otherwise it fetches, even if the page was left.
RunRequested(r) ==
  LET lost == r.answer \in {"corrupt", "missing"}
      v == FetchedStore([r EXCEPT !.answer = IF lost THEN @ ELSE "error"])
      fetches == ~lost /\ There(v, r.session)
  IN  /\ r \in flight /\ r.kind = "rerun" /\ r.answer # "sent"
      /\ Put(v)
      /\ flight' = (flight \ {r}) \cup {q \in {Request("fetch", r.session, r.mount)} : fetches}
      /\ IF ~Mounted(r) THEN UNCHANGED <<page, seq>>
         ELSE /\ page' = IF lost THEN [page EXCEPT !.data = None, !.error = TRUE] ELSE page
              /\ seq' = [seq EXCEPT !.pc = CASE lost -> "aborted" [] fetches -> "fetch" [] OTHER -> "give_up"]
      /\ UNCHANGED <<pollers, latest, server, mounts, faults, replaced>>

\* The answer to a fetch of the sequence.  An error other than a damaged result or a
\* missing session is the sequence's outcome.
SequenceFetched(r) ==
  LET lost == r.answer \in {"corrupt", "missing"}
  IN  /\ r \in flight /\ r.kind = "fetch" /\ r.answer # "sent"
      /\ flight' = flight \ {r}
      /\ Put(FetchedStore(r))
      /\ page' = FetchedPage(r)
      /\ seq' = IF ~Mounted(r) THEN seq
                ELSE IF lost THEN [seq EXCEPT !.pc = "aborted"]
                ELSE IF r.answer = "error" THEN [seq EXCEPT !.pc = "give_up"]
                ELSE [seq EXCEPT !.pc = "delay", !.payload = Datum(r.session, r.answer)]
      /\ UNCHANGED <<pollers, latest, server, mounts, faults, replaced>>

\* After half a second the sequence asks again, unless it has its verdict, has waited
\* too long, or finds its session gone, which it takes for a failed fetch.
SequenceAsks ==
  /\ page.at = "verify" /\ seq.pc = "delay"
  /\ Put(ForIdentity(View, page.id).view)
  /\ \/ Continue(seq.payload.status, seq.asked, seq.payload)
     \/ seq.payload.status \in PendingStatus /\ seq' = [seq EXCEPT !.pc = "give_up"] /\ UNCHANGED flight
  /\ UNCHANGED <<page, pollers, latest, server, mounts, faults, replaced>>

\* The stages are published together if the session is still there.
SequencePublishes ==
  LET a == ForIdentity(View, page.id)
  IN  /\ page.at = "verify" /\ seq.pc \in {"publish", "give_up"}
      /\ IF a.session = None
           THEN /\ Put(a.view)
                /\ page' = [page EXCEPT !.error = TRUE]
                /\ seq' = [seq EXCEPT !.pc = "aborted"]
           ELSE /\ Put(saveKnowledge(a.view, None, page.id, {seq.payload.session}))
                /\ page' = Published(IF seq.pc = "give_up" THEN "failed" ELSE seq.payload.status)
                /\ seq' = [seq EXCEPT !.pc = "done"]
      /\ UNCHANGED <<flight, pollers, latest, server, mounts, faults, replaced>>

----------------------------------------------------------------------------
(* The user, other tabs and the server.                                    *)

\* Back to the result page.
Leave ==
  /\ page.at = "verify"
  /\ Put(readActive(View).view)
  /\ page' = Page("result", readActive(View).session)
  /\ seq' = NoSequence
  /\ UNCHANGED <<flight, pollers, latest, server, mounts, faults, replaced>>

\* The tab resets and goes through a session of its own, up to its result; in between
\* its requests and pollers go on.
GoOn ==
  LET s == page.id + 1
  IN  /\ page.at # "leaving" /\ page.id # None /\ page.id < MaxSessions
      /\ Put([record |-> Stored(s), knowledge |-> [session |-> s, facts |-> {s}], lock |-> s])
      /\ page' = Page("result", s)
      /\ seq' = NoSequence
      /\ UNCHANGED <<flight, pollers, latest, server, mounts, faults, replaced>>

\* The page learns that its session was replaced.
handleStorage ==
  /\ page.at = "verify" /\ ~page.error
  /\ isSessionReplacedForIdentity(View, page.id)
  /\ page' = [page EXCEPT !.error = TRUE, !.loading = FALSE]
  /\ UNCHANGED <<store, seq, flight, pollers, latest, server, mounts, faults, replaced>>

Work(s) ==
  /\ server[s].status = "running"
  /\ \E o \in Outcomes : server' = [server EXCEPT ![s].status = o]
  /\ UNCHANGED <<store, page, seq, flight, pollers, latest, mounts, faults, replaced>>

Fault ==
  /\ faults < MaxFaults
  /\ faults' = faults + 1
  /\ \/ /\ \E s \in Sessions, h \in {"corrupt", "missing"} :
             server[s].health = "good" /\ server' = [server EXCEPT ![s].health = h]
        /\ UNCHANGED <<store, flight, pollers, replaced>>
     \/ /\ \E r \in flight : r.answer # "error"
                             /\ flight' = (flight \ {r}) \cup {[r EXCEPT !.answer = "error"]}
        /\ UNCHANGED <<store, pollers, server, replaced>>
     \/ /\ \E i \in DOMAIN pollers : pollers[i].answer = "sent"
                                     /\ pollers' = [pollers EXCEPT ![i].answer = "error"]
        /\ UNCHANGED <<store, flight, server, replaced>>
     \/ /\ record.session \in Sessions
        /\ replaced' = replaced \cup {record.session}
        /\ \E r \in {EmptyRecord, [EmptyRecord EXCEPT !.session = MaxSessions + 1]} :
             record' = r /\ knowledge' = [NoKnowledge EXCEPT !.session = r.session]
        /\ UNCHANGED <<lock, flight, pollers, server>>
  /\ UNCHANGED <<page, seq, latest, mounts>>

PollerStep(i) == Poll(i) \/ PollAnswered(i) \/ PollFailed(i) \/ ServePoll(i)

Receive(r) == FirstFetched(r) \/ RunRequested(r) \/ SequenceFetched(r)

Next ==
  \/ handleVerify \/ MountVerify \/ runVerificationSequence \/ SequenceAsks \/ SequencePublishes
  \/ Leave \/ GoOn \/ handleStorage \/ Fault
  \/ \E i \in DOMAIN pollers : PollerStep(i)
  \/ \E r \in flight : Serve(r) \/ Receive(r)
  \/ \E s \in Sessions : Work(s)

Spec == Init /\ [][Next]_vars

----------------------------------------------------------------------------
(* Properties.                                                             *)

TypeOK ==
  /\ record.session \in 1 .. MaxSessions + 1 \cup {None} /\ lock \in Sessions \cup {None}
  /\ page.id \in Sessions \cup {None} /\ page.mount \in 0 .. MaxMounts
  /\ seq.pc \in {"none", "rerun", "fetch", "delay", "publish", "give_up", "done", "aborted"}
  /\ Len(pollers) <= MaxMounts
  /\ \A q, r \in flight : q.kind = r.kind /\ q.mount = r.mount /\ q.kind # "run" => q = r

\* What the page shows is about its own session, whatever the poller of an earlier one
\* still publishes.
ShownIsOwn ==
  /\ page.data # None => page.data.session = page.id
  /\ seq.payload # None => seq.payload.session = page.id

\* One poller at a time asks the server again; cancelled ones only await their answer.
OnePoller == Cardinality({i \in DOMAIN pollers : Active(pollers[i]) /\ pollers[i].answer # "ended"}) <= 1

\* The stored session and its result stay until the server says that they are gone or
\* another tab takes the place: an answer about an earlier session does not remove them.
KeptUnlessTold ==
  page.id # None /\ page.id \notin replaced =>
    /\ record.session # page.id => server[page.id].health = "missing"
    /\ record.result # page.id => server[page.id].health # "good"

\* A published verdict of success is the server's own, and the knowledge that goes with
\* it is never written into another tab's session.
PublishedIsJustified ==
  /\ page.steps # None /\ page.steps.status = "success" => server[page.id].status = "success"
  /\ record.session # None => knowledge.session \in {None, record.session}

============================================================================
