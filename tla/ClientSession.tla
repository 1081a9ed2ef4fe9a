--------------------------- MODULE ClientSession ---------------------------
(***************************************************************************)
(* Browser tabs on the way from the home page to the result (apps/web/src):*)
(* a session is started, a vote is cast, the bots are awaited, the         *)
(* finalization is asked for and followed, and the result is shown.        *)
(*                                                                         *)
(* Tabs share the stored session (ClientStorage).  Each page captures the  *)
(* identity of its session when it is mounted, sends requests for it and   *)
(* checks it again when an answer arrives.  Requests are answered in any   *)
(* order or fail, also after the server has acted on them; those of a page *)
(* that is left are abandoned, though the server may still see them.  The  *)
(* record expires or is damaged, and the server may drop the session.      *)
(***************************************************************************)
EXTENDS ClientStorage, Naturals, FiniteSets

CONSTANTS Tabs,          \* the browser's tabs
          MaxSessions,   \* bound on the sessions the server issues
          MaxAttempts,   \* bound on the finalization attempts of a session
          MaxFaults,     \* bound on lost answers, expiries, damage and dropped sessions
          MaxVisits,     \* bound on resets and on pages loaded by address or by a reload
          Addresses,     \* the pages users load by address
          SharedTabs     \* may a tab open the pages of a session another tab started?

Pages == {"home", "vote", "waiting", "aggregate", "result"}

\* What an instance gives the constants.
ClientConstants ==
  /\ MaxSessions \in Nat \ {0} /\ MaxAttempts \in Nat \ {0} /\ MaxFaults \in Nat
  /\ MaxVisits \in Nat /\ Addresses \subseteq Pages /\ SharedTabs \in BOOLEAN

VARIABLES record, knowledge,  \* localStorage
          lock,               \* the sessionStorage of each tab
          tab,                \* the page of each tab
          flight,             \* the requests of each tab
          orphans,            \* abandoned requests the server may still see
          server,             \* the sessions of the server
          faults, visits

store == <<record, knowledge, lock>>
vars == <<record, knowledge, lock, tab, flight, orphans, server, faults, visits>>

Sessions == 1 .. MaxSessions
Statuses == {"none", "pending", "running", "succeeded", "failed"}

View(t) == [record |-> record, knowledge |-> knowledge, lock |-> lock[t]]

Put(t, v) ==
  /\ record' = v.record
  /\ knowledge' = v.knowledge
  /\ lock' = [lock EXCEPT ![t] = v.lock]

\* An opening and a result carry the session they belong to.  Openings are random: two
\* that are made in different tabs or page loads differ.
Opening(s, t) == [session |-> s, by |-> t, load |-> visits]
Result(s, n) == [session |-> s, attempt |-> n]

Request(kind, s, body) == [kind |-> kind, session |-> s, body |-> body, answer |-> "sent"]

Home == [page |-> "home", id |-> None, phase |-> "idle", pending |-> None, nav |-> FALSE]

Init ==
  /\ record = EmptyRecord
  /\ knowledge = NoKnowledge
  /\ lock = [t \in Tabs |-> None]
  /\ tab = [t \in Tabs |-> Home]
  /\ flight = [t \in Tabs |-> {}]
  /\ orphans = {}
  /\ server = [s \in Sessions |-> [by |-> None, vote |-> None, bots |-> FALSE,
                                   status |-> "none", attempt |-> 0, gone |-> FALSE]]
  /\ faults = 0
  /\ visits = 0

----------------------------------------------------------------------------
(* Mounting a page.                                                        *)

\* The footer of every page, and the page itself, look for the stored session.
Captured(v) == readActive(v)

MayMount(t, id) == SharedTabs \/ \A s \in Sessions : s = id => server[s].by = t

\* Requests of the page that is left are aborted; what they ask of the server may
\* still happen.
Abandon(t) ==
  orphans' = orphans \cup {r \in flight[t] : r.answer = "sent" /\ r.kind \in {"vote", "submit"}}

\* The phase in which a page starts, and the request it sends at once.
MountedPage(p, v, id) ==
  [page |-> p, id |-> id, nav |-> FALSE,
   phase |-> IF p = "aggregate" /\ (isSessionReplacedForIdentity(v, id) \/ isSessionReplaced(v))
               THEN "failed"
             ELSE IF p = "result" THEN IF id = None THEN "failed" ELSE "loading"
             ELSE "idle",
   pending |-> IF p = "vote" /\ id # None THEN v.record.opening ELSE None]

MountRequests(p, id) ==
  IF id = None THEN {}
  ELSE CASE p = "aggregate" -> {Request("restore", id, None)}
         [] p = "result" -> {Request("result", id, None)}
         [] OTHER -> {}

\* The waiting page records at once that the bots have not voted yet, and the home
\* page forgets the knowledge snapshot.
Mount(t, p, v) ==
  LET a == Captured(v)
      w == CASE p = "home" -> clearKnowledge(a.view)
             [] p = "waiting" -> saveKnowledge(a.view, None, a.session, {a.session})
             [] OTHER -> a.view
  IN  /\ p # "home" => MayMount(t, a.session)
      /\ Put(t, w)
      /\ tab' = [tab EXCEPT ![t] = MountedPage(p, w, IF p = "home" THEN None ELSE a.session)]
      /\ flight' = [flight EXCEPT ![t] = MountRequests(p, a.session)]
      /\ Abandon(t)

\* A page loaded by its address, or again.
Visit(t) ==
  /\ visits < MaxVisits
  /\ visits' = visits + 1
  /\ \E p \in Addresses : Mount(t, p, View(t))
  /\ UNCHANGED <<server, faults>>

\* The reset of the header and of the result page drops the stored session, whoever
\* started it.
Reset(t) ==
  /\ visits < MaxVisits
  /\ visits' = visits + 1
  /\ tab[t].page # "home"
  /\ Mount(t, "home", clearStoredSessionData(View(t)))
  /\ UNCHANGED <<server, faults>>

----------------------------------------------------------------------------
(* Requests.                                                               *)

Asking(t, kind) == \E r \in flight[t] : r.kind = kind

Send(t, r) == flight' = [flight EXCEPT ![t] = @ \cup {r}]

\* What the server answers to a request, and its sessions afterwards (external).
\* A vote is recorded once: the same opening is answered again, another is refused.
Reply(r) ==
  LET s == r.session
      m == server[s]
      voted == IF m.vote = None THEN [server EXCEPT ![s].vote = r.body] ELSE server
      started == m.status \in {"none", "failed"} /\ m.attempt < MaxAttempts
      begun == IF started THEN [server EXCEPT ![s].status = "pending", ![s].attempt = @ + 1] ELSE server
  IN  IF m.gone THEN [answer |-> "missing", server |-> server]
      ELSE CASE r.kind = "vote" -> [answer |-> IF voted[s].vote = r.body THEN "receipt" ELSE "error",
                                    server |-> voted]
             [] r.kind = "progress" -> [answer |-> IF m.bots THEN "completed" ELSE "waiting",
                                        server |-> server]
             [] r.kind = "submit" -> [answer |-> begun[s].status, server |-> begun]
             [] OTHER -> [answer |-> m.status, server |-> server]

Answered(r) ==
  [r EXCEPT !.answer = Reply(r).answer,
            !.body = IF Reply(r).answer = "succeeded" THEN Result(r.session, server[r.session].attempt) ELSE @]

Serve(t) ==
  /\ \E r \in flight[t] :
       /\ r.answer = "sent"
       /\ flight' = [flight EXCEPT ![t] = (@ \ {r}) \cup {Answered(r)}]
       /\ server' = Reply(r).server
  /\ UNCHANGED <<store, tab, orphans, faults, visits>>

ServeOrphan ==
  /\ \E r \in orphans :
       /\ orphans' = orphans \ {r}
       /\ server' \in {server, Reply(r).server}
  /\ UNCHANGED <<store, tab, flight, faults, visits>>

\* A request or its answer is lost.
Lose(t) ==
  /\ faults < MaxFaults
  /\ faults' = faults + 1
  /\ \E r \in flight[t] :
       /\ r.kind # "commit" /\ r.answer \notin {"error", "ended"}
       /\ flight' = [flight EXCEPT ![t] = (@ \ {r}) \cup {[r EXCEPT !.answer = "error"]}]
  /\ UNCHANGED <<store, tab, orphans, server, visits>>

Arrived(t, r) == r \in flight[t] /\ r.answer \notin {"sent", "ended"}

\* What an answer does to the page: the view it leaves, the page's new state, and
\* the requests that go on.  A poll does not outlive the phase it was started in.
Apply(t, r, v, page) ==
  /\ Put(t, v)
  /\ tab' = [tab EXCEPT ![t] = page]
  /\ flight' = [flight EXCEPT ![t] = {q \in @ \ {r} : q.kind = "poll" => page.phase = tab[t].phase}]
  /\ UNCHANGED <<orphans, server, faults, visits>>

----------------------------------------------------------------------------
(* The home page.                                                          *)

\* The server issues a session at once (external); its answer takes a while.
handleStart(t) ==
  /\ tab[t].page = "home" /\ ~Asking(t, "create")
  /\ \E s \in Sessions :
       /\ server[s].by = None /\ \A q \in 1 .. s - 1 : server[q].by # None
       /\ server' = [server EXCEPT ![s].by = t]
       /\ Send(t, [Request("create", s, None) EXCEPT !.answer = "created"])
  /\ UNCHANGED <<store, tab, orphans, faults, visits>>

\* The knowledge of an earlier session is dropped before the new one is stored.
ReceiveCreate(t) ==
  \E r \in flight[t] :
    /\ r.kind = "create" /\ Arrived(t, r)
    /\ \/ /\ r.answer = "created"
          /\ LET v == initializeSession(clearKnowledge(View(t)), r.session)
                 w == saveKnowledge(v, r.session, None, {r.session})
             IN  Mount(t, "vote", w)
          /\ UNCHANGED <<server, faults, visits>>
       \/ /\ r.answer = "error"
          /\ Apply(t, r, View(t), tab[t])

----------------------------------------------------------------------------
(* The vote page.                                                          *)

Failed(t) == [tab[t] EXCEPT !.phase = "failed"]

\* The opening is stored before it is sent, and kept by the page.
SendVote(t, opening) ==
  LET id == tab[t].id
      v == saveSessionDataForIdentity(View(t), id, [opening |-> opening]).view
  IN  /\ Put(t, v)
      /\ tab' = [tab EXCEPT ![t].pending = opening, ![t].phase = "submitting"]
      /\ flight' = [flight EXCEPT ![t] = {r \in @ : r.kind # "commit"} \cup {Request("vote", id, opening)}]
      /\ UNCHANGED <<orphans, server, faults, visits>>

\* A choice is noted before it is submitted, without a look at the stored session.
handleOptionChange(t) ==
  LET id == tab[t].id
  IN  /\ tab[t].page = "vote" /\ id # None
      /\ Put(t, saveKnowledge(View(t), None, id, {id}))
      /\ UNCHANGED <<tab, flight, orphans, server, faults, visits>>

\* The opening a submission replays: the one of this page, else the stored one.
savedOpening(t) == IF tab[t].pending # None THEN tab[t].pending ELSE record.opening

\* Without an opening to replay one is made, which takes a while.
handleSubmit(t) ==
  LET a == ForIdentity(View(t), tab[t].id)
  IN  /\ tab[t].page = "vote" /\ flight[t] = {}
      /\ \/ /\ a.session = None
            /\ tab[t].phase # "failed"
            /\ Apply(t, None, a.view, Failed(t))
         \/ /\ a.session # None
            /\ savedOpening(t) # None
            /\ SendVote(t, savedOpening(t))
         \/ /\ a.session # None
            /\ savedOpening(t) = None
            /\ Put(t, a.view)
            /\ tab' = [tab EXCEPT ![t].phase = "submitting"]
            /\ Send(t, [Request("commit", a.session, Opening(a.session, t)) EXCEPT !.answer = "made"])
            /\ UNCHANGED <<orphans, server, faults, visits>>

CommitmentMade(t) ==
  \E r \in flight[t] :
    /\ r.kind = "commit"
    /\ LET a == ForIdentity(View(t), tab[t].id)
       IN  IF a.session = None THEN Apply(t, r, a.view, Failed(t)) ELSE SendVote(t, r.body)

ReceiveVote(t) ==
  \E r \in flight[t] :
    /\ r.kind = "vote" /\ Arrived(t, r)
    /\ LET a == ForIdentity(View(t), tab[t].id)
           id == tab[t].id
           v == saveSessionDataForIdentity(View(t), id, [receipt |-> r.body]).view
           w == saveKnowledge(v, None, id, {r.session})
       IN  IF r.answer = "receipt" /\ a.session # None
             THEN /\ Mount(t, "waiting", w)
                  /\ UNCHANGED <<server, faults, visits>>
             ELSE Apply(t, r, IF r.answer = "receipt" THEN a.view ELSE View(t), Failed(t))

----------------------------------------------------------------------------
(* Waiting for the bots.                                                   *)

fetchProgress(t) ==
  LET a == ForIdentity(View(t), tab[t].id)
  IN  /\ tab[t].page = "waiting" /\ tab[t].phase # "failed" /\ ~Asking(t, "progress")
      /\ IF a.session = None
           THEN Apply(t, None, a.view, Failed(t))
           ELSE /\ Send(t, Request("progress", a.session, None))
                /\ Put(t, a.view)
                /\ UNCHANGED <<tab, orphans, server, faults, visits>>

ReceiveProgress(t) ==
  \E r \in flight[t] :
    /\ r.kind = "progress" /\ Arrived(t, r)
    /\ LET id == tab[t].id
           a == ForIdentity(View(t), id)
           w == saveKnowledge(a.view, None, id, {r.session})
       IN  CASE r.answer = "error" -> Apply(t, r, View(t), tab[t])
             [] r.answer = "missing" -> Apply(t, r, View(t), Failed(t))
             [] r.answer \notin {"error", "missing"} /\ a.session = None -> Apply(t, r, a.view, Failed(t))
             [] r.answer = "waiting" /\ a.session # None -> Apply(t, r, w, tab[t])
             [] r.answer = "completed" /\ a.session # None ->
                  /\ Mount(t, "aggregate", w)
                  /\ UNCHANGED <<server, faults, visits>>

----------------------------------------------------------------------------
(* The aggregate page.                                                     *)

\* What the state of the finalization does to the page and to the stored session.
\* A save that throws fails a submission, and leaves the phase that was set before it
\* to a restore or a poll.
applyFinalizationResource(t, r) ==
  LET id == tab[t].id
      v == View(t)
      finalizing == saveSessionDataForIdentity(v, id, [phase |-> "finalizing"])
      follows == [tab[t] EXCEPT !.phase = IF finalizing.threw /\ r.kind = "submit" THEN "failed"
                                          ELSE IF r.answer = "pending" THEN "queued" ELSE "running"]
      succeeded == saveSessionDataForIdentity(saveKnowledge(v, None, id, {r.session}), id,
                     [phase |-> "verifying", result |-> r.body])
  IN  CASE r.answer \in {"pending", "running"} ->
             Apply(t, r, finalizing.view, follows)
        [] r.answer = "succeeded" ->
             Apply(t, r, succeeded.view, [tab[t] EXCEPT !.phase = "succeeded", !.nav = TRUE])
        [] r.answer = "failed" -> Apply(t, r, clearClientFinalizedProjection(v, id), Failed(t))

handleMissingSession(t, r) == Apply(t, r, clearClientSessionAuthority(View(t), tab[t].id), Failed(t))

\* A poll that is told of no finalization is the last one of its phase.
EndPolling(t, r, v) ==
  /\ Put(t, v)
  /\ flight' = [flight EXCEPT ![t] = (@ \ {r}) \cup {[r EXCEPT !.answer = "ended"]}]
  /\ UNCHANGED <<tab, orphans, server, faults, visits>>

\* An answer is looked at only while the page's session is the stored one.
ReceiveFinalization(t, kind) ==
  \E r \in flight[t] :
    /\ tab[t].page = "aggregate" /\ r.kind = kind /\ Arrived(t, r)
    /\ LET a == ForIdentity(View(t), tab[t].id)
       IN  CASE r.answer = "missing" /\ kind # "submit" -> handleMissingSession(t, r)
             [] r.answer = "missing" /\ kind = "submit" -> Apply(t, r, View(t), Failed(t))
             [] r.answer = "error" -> Apply(t, r, View(t), IF kind = "submit" THEN Failed(t) ELSE tab[t])
             [] r.answer \notin {"missing", "error"} /\ a.session = None -> Apply(t, r, a.view, Failed(t))
             [] r.answer = "none" /\ a.session # None ->
                  IF kind = "poll" THEN EndPolling(t, r, a.view) ELSE Apply(t, r, a.view, tab[t])
             [] r.answer \in Statuses \ {"none"} /\ a.session # None -> applyFinalizationResource(t, r)

ReceiveRestore(t) == ReceiveFinalization(t, "restore")
ReceivePoll(t) == ReceiveFinalization(t, "poll")
ReceiveSubmit(t) == ReceiveFinalization(t, "submit")

\* Faulty variant: a failed poll is the last one.
pollStops(t) ==
  LET a == ForIdentity(View(t), tab[t].id)
  IN  /\ tab[t].phase \in {"queued", "running"} /\ ~Asking(t, "poll") /\ faults = 0
      /\ IF a.session = None
           THEN Apply(t, None, a.view, Failed(t))
           ELSE /\ Send(t, Request("poll", a.session, None))
                /\ Put(t, a.view)
                /\ UNCHANGED <<tab, orphans, server, faults, visits>>

\* While the finalization is queued or running its state is asked for again and again.
poll(t) ==
  LET a == ForIdentity(View(t), tab[t].id)
  IN  /\ tab[t].phase \in {"queued", "running"} /\ ~Asking(t, "poll")
      /\ IF a.session = None
           THEN Apply(t, None, a.view, Failed(t))
           ELSE /\ Send(t, Request("poll", a.session, None))
                /\ Put(t, a.view)
                /\ UNCHANGED <<tab, orphans, server, faults, visits>>

\* The scenario is noted unless the page's session was replaced.
handleScenarioChange(t) ==
  LET id == tab[t].id
  IN  /\ tab[t].page = "aggregate" /\ tab[t].phase \in {"idle", "failed"}
      /\ IF isSessionReplacedForIdentity(View(t), id)
           THEN Apply(t, None, safeParseSession(View(t)), Failed(t))
           ELSE /\ Put(t, saveKnowledge(View(t), None, id, {id}))
                /\ UNCHANGED <<tab, flight, orphans, server, faults, visits>>

\* The button is there while nothing is under way; one submission at a time.
handleFinalize(t) ==
  LET a == ForIdentity(View(t), tab[t].id)
  IN  /\ tab[t].page = "aggregate" /\ tab[t].phase \in {"idle", "failed"} /\ ~Asking(t, "submit")
      /\ a.session # None \/ tab[t].phase = "idle"
      /\ IF a.session = None
           THEN Apply(t, None, a.view, Failed(t))
           ELSE /\ Send(t, Request("submit", a.session, None))
                /\ Put(t, a.view)
                /\ tab' = [tab EXCEPT ![t].phase = "submitting"]
                /\ UNCHANGED <<orphans, server, faults, visits>>

\* Half a second after a success.
NavigateToResult(t) ==
  LET a == ForIdentity(View(t), tab[t].id)
  IN  /\ tab[t].nav
      /\ IF a.session = None
           THEN Apply(t, None, a.view, [Failed(t) EXCEPT !.nav = FALSE])
           ELSE Mount(t, "result", a.view) /\ UNCHANGED <<server, faults, visits>>

----------------------------------------------------------------------------
(* The result page.                                                        *)

\* Only a success is shown; what else the server says removes a stored result.
ReceiveResult(t) ==
  \E r \in flight[t] :
    /\ r.kind = "result" /\ Arrived(t, r)
    /\ LET id == tab[t].id
           a == ForIdentity(View(t), id)
           saved == saveSessionDataForIdentity(a.view, id, [phase |-> "verifying", result |-> r.body]).view
       IN  CASE a.session = None -> Apply(t, r, a.view, Failed(t))
             [] a.session # None /\ r.answer = "missing" ->
                  Apply(t, r, clearClientSessionAuthority(a.view, id), Failed(t))
             [] a.session # None /\ r.answer \in {"none", "error"} -> Apply(t, r, a.view, Failed(t))
             [] a.session # None /\ r.answer \in {"pending", "running", "failed"} ->
                  Apply(t, r, clearClientFinalizedProjection(a.view, id), Failed(t))
             [] a.session # None /\ r.answer = "succeeded" ->
                  Apply(t, r, saveKnowledge(saved, None, id, {r.session}),
                        [tab[t] EXCEPT !.phase = "shown"])

\* A tab learns from a storage event that its session was replaced.
handleStorage(t) ==
  /\ tab[t].page \in {"waiting", "aggregate", "result"} /\ tab[t].phase # "failed"
  /\ isSessionReplacedForIdentity(View(t), tab[t].id)
  /\ Apply(t, None, safeParseSession(View(t)), Failed(t))

----------------------------------------------------------------------------
(* The server and the world around the browser (external).                 *)

Work(s) ==
  /\ server[s].by # None
  /\ \/ /\ server[s].vote # None /\ ~server[s].bots
        /\ server' = [server EXCEPT ![s].bots = TRUE]
     \/ /\ server[s].status = "pending"
        /\ server' = [server EXCEPT ![s].status = "running"]
     \/ /\ server[s].status = "running"
        /\ \E o \in {"succeeded", "failed"} : server' = [server EXCEPT ![s].status = o]
  /\ UNCHANGED <<store, tab, flight, orphans, faults, visits>>

Fault ==
  /\ faults < MaxFaults
  /\ faults' = faults + 1
  /\ \/ /\ record.session # None /\ record.form = "fresh"
        /\ \E f \in {"expired", "corrupt"} : record' = [record EXCEPT !.form = f]
        /\ UNCHANGED server
     \/ /\ \E s \in Sessions : server[s].by # None /\ ~server[s].gone
                               /\ server' = [server EXCEPT ![s].gone = TRUE]
        /\ UNCHANGED record
  /\ UNCHANGED <<knowledge, lock, tab, flight, orphans, visits>>

TabStep(t) ==
  \/ Visit(t) \/ Reset(t) \/ Serve(t) \/ Lose(t)
  \/ handleStart(t) \/ ReceiveCreate(t)
  \/ handleOptionChange(t) \/ handleScenarioChange(t)
  \/ handleSubmit(t) \/ CommitmentMade(t) \/ ReceiveVote(t)
  \/ fetchProgress(t) \/ ReceiveProgress(t)
  \/ ReceiveRestore(t) \/ ReceivePoll(t) \/ ReceiveSubmit(t) \/ poll(t)
  \/ handleFinalize(t) \/ NavigateToResult(t) \/ ReceiveResult(t) \/ handleStorage(t)

Next == (\E t \in Tabs : TabStep(t)) \/ (\E s \in Sessions : Work(s)) \/ ServeOrphan \/ Fault

Spec == Init /\ [][Next]_vars

PollAnswered(t) == \E r \in flight[t] : r.kind = "poll" /\ Arrived(t, r)

\* Answers arrive, timers fire, the server goes on with its work, and the network is
\* not down for ever.  The disjunction is the weak fairness of ReceivePoll, which is
\* enabled whenever an answer has arrived.
Fairness ==
  /\ \A t \in Tabs :
       /\ SF_vars(Serve(t)) /\ WF_vars(poll(t))
       /\ ([]<>(~PollAnswered(t)) \/ []<><<ReceivePoll(t)>>_vars)
  /\ \A s \in Sessions : WF_vars(Work(s))

FairSpec == Spec /\ Fairness

----------------------------------------------------------------------------
(* Properties.                                                             *)

TypeOK ==
  /\ record.session \in Sessions \cup {None}
  /\ record.phase \in {"voting", "finalizing", "verifying"}
  /\ record.opening \in [session : Sessions, by : Tabs, load : 0 .. MaxVisits] \cup {None}
  /\ record.receipt \in [session : Sessions, by : Tabs, load : 0 .. MaxVisits] \cup {None}
  /\ record.result \in [session : Sessions, attempt : 1 .. MaxAttempts] \cup {None}
  /\ knowledge.session \in Sessions \cup {None}
  /\ \A t \in Tabs :
       /\ lock[t] \in Sessions \cup {None}
       /\ tab[t].phase \in {"idle", "submitting", "queued", "running", "succeeded", "failed", "loading", "shown"}
       /\ \A q, r \in flight[t] : q.kind = r.kind => q = r
  /\ \A s \in Sessions : server[s].status \in Statuses

\* What is stored for a session came from that session: an answer that arrives after
\* another tab stored its own session never lands in it.
RecordIsOneSession ==
  \A f \in {"opening", "receipt", "result"} : record[f] # None => record[f].session = record.session

\* The knowledge panel never mixes sessions: the snapshot is that of the stored
\* session, and every fact in it is about the session it names.
KnowledgeIsOneSession ==
  /\ record.session # None => knowledge.session \in {None, record.session}
  /\ knowledge.facts \subseteq {None, knowledge.session}

\* An uncertain vote is replayed with its own opening, also after a lost answer, a
\* reload or an abandoned page: once the server has a vote of the stored session, the
\* stored opening is that vote's, or another tab of the session has stored its own.  No
\* tab makes a second opening for a session.
OpeningIsReplayed ==
  \A s \in Sessions : record.session = s /\ server[s].vote # None =>
    /\ record.opening # None
    /\ record.opening # server[s].vote => record.opening.by # server[s].vote.by

\* Does an answer that tab t applies in this step say that its session has no result?
\* The aggregate page believes only a failure, the result page also that it goes on.
SaidNotFinal(t) ==
  \E r \in flight[t] \ flight'[t] :
    /\ r.session = record.session
    /\ r.answer \in IF tab[t].page = "result" THEN {"pending", "running", "failed"} ELSE {"failed"}

\* A stored result is the success the server has recorded, and is never taken away
\* silently: it goes with its session, or because a tab of that session applies an
\* answer, perhaps a late one, that says otherwise, and that tab then shows a failure.
\* So a result that is lost to a late answer is still on the server and the user told.
SuccessKept ==
  record.result # None /\ record'.session = record.session /\ record'.result # record.result =>
    /\ record'.result = None
    /\ server[record.session].status = "succeeded"
    /\ server[record.session].attempt = record.result.attempt
    /\ \E t \in Tabs : tab[t].id = record.session /\ SaidNotFinal(t) /\ tab'[t].phase = "failed"

\* A tab changes the stored session of another one only by a reset or by storing a new
\* session, whatever answers still reach it; a damaged or expired record is anyone's.
OthersUntouched ==
  \A t \in Tabs :
    tab'[t] # tab[t] /\ tab[t].page # "home" /\ tab'[t].page # "home" =>
      \/ record' = record
      \/ record.session \in {None, tab[t].id}
      \/ record.form # "fresh"

\* A tab that follows a finalization is not left following it for ever.
FollowedToTheEnd ==
  \A t \in Tabs : tab[t].phase \in {"queued", "running"} ~> tab[t].phase \notin {"queued", "running"}
============================================================================
