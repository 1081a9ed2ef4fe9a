--------------------------- MODULE ClientStorage ---------------------------
(***************************************************************************)
(* What a browser tab reads and writes when it uses its session            *)
(* (apps/web/src/session and apps/web/src/knowledge).                      *)
(*                                                                         *)
(* All tabs share one session record and one knowledge snapshot in         *)
(* localStorage; each tab keeps a lock in its own sessionStorage, which    *)
(* names the session it works on.  A view [record, knowledge, lock] is     *)
(* what one tab sees; the operators are the functions of the client, and   *)
(* return the view they leave.  They run inside one event handler, so no   *)
(* other tab comes between their reads and writes.                         *)
(*                                                                         *)
(* A session id stands for the identity {sessionId, capabilityToken}.      *)
(* Of the facts in the knowledge snapshot only the sessions they are       *)
(* really about are kept.                                                  *)
(***************************************************************************)
CONSTANT None   \* the absent value

EmptyRecord == [session |-> None, phase |-> "voting", opening |-> None, receipt |-> None,
             result |-> None, requested |-> FALSE, form |-> "fresh"]

NoKnowledge == [session |-> None, facts |-> {}]

\* Is the record one the client could have written?
admitStoredSessionData(r) ==
  /\ r.form # "corrupt"
  /\ r.phase \in {"voting", "finalizing"} => r.result = None /\ ~r.requested
  /\ r.phase = "verifying" => r.result # None

clearStoredSessionData(v) == [record |-> EmptyRecord, knowledge |-> NoKnowledge, lock |-> None]

\* A record that is not admitted is removed, with the knowledge and the tab's lock.
safeParseSession(v) ==
  IF v.record.session = None \/ admitStoredSessionData(v.record)
    THEN v
    ELSE clearStoredSessionData(v)

isSessionReplaced(v) ==
  LET w == safeParseSession(v)
  IN  w.lock # None /\ w.record.session # w.lock

isSessionReplacedForIdentity(v, id) ==
  LET w == safeParseSession(v)
  IN  /\ id # None
      /\ IF w.record.session = None THEN w.lock # None ELSE w.record.session # id

\* A parsed record of one of the sessions in ids: an expired one is removed, and
\* a tab without a lock takes one.
UseRecord(w, ids) ==
  IF w.record.session \notin ids \ {None}
    THEN [view |-> w, session |-> None]
  ELSE IF w.record.form = "expired"
    THEN [view |-> clearStoredSessionData(w), session |-> None]
  ELSE [view |-> [w EXCEPT !.lock = w.record.session], session |-> w.record.session]

\* Faulty variant: only the record is looked at, not who reads it.
getSessionDataAny(v, ids) ==
  IF ids = {} THEN [view |-> safeParseSession(v), session |-> None]
  ELSE UseRecord(safeParseSession(v), {safeParseSession(v).record.session})

\* The record as a tab that expects one of the sessions in ids may use it, unless
\* its lock names another one.
getSessionData(v, ids) ==
  UseRecord(safeParseSession(v), {s \in ids : safeParseSession(v).lock \in {None, s}})

\* Every session id: what getSessionData() without an identity accepts.
AnySession(v) == {v.record.session}

readActive(v) == getSessionData(v, AnySession(v))

ForIdentity(v, id) == getSessionData(v, {id} \ {None})

PatchedPhase(r, patch) ==
  IF "phase" \in DOMAIN patch THEN patch.phase
  ELSE IF "result" \in DOMAIN patch /\ patch.result # None THEN "verifying"
  ELSE r.phase

applySessionPatch(r, patch) ==
  [f \in DOMAIN r |-> CASE f = "phase" -> PatchedPhase(r, patch)
                        [] f = "form" -> "fresh"
                        [] OTHER -> IF f \in DOMAIN patch THEN patch[f] ELSE r[f]]

\* A patch that would make a record the client does not admit throws.
saveActive(a, patch) ==
  LET c == applySessionPatch(a.view.record, patch)
  IN  IF a.session = None
        THEN [view |-> a.view, threw |-> FALSE]
      ELSE IF admitStoredSessionData(c)
        THEN [view |-> [a.view EXCEPT !.record = c], threw |-> FALSE]
      ELSE [view |-> a.view, threw |-> TRUE]

saveSessionDataForIdentity(v, id, patch) == saveActive(ForIdentity(v, id), patch)

initializeSession(v, s) ==
  [v EXCEPT !.record = [EmptyRecord EXCEPT !.session = s], !.lock = s]

----------------------------------------------------------------------------
(* The knowledge snapshot.                                                 *)

clearKnowledge(v) == [v EXCEPT !.knowledge = NoKnowledge]

\* What a tab may read: nothing of another session.
knowledgeOf(a) ==
  LET k == a.view.knowledge
  IN  IF a.session # None /\ k.session = None
        THEN [view |-> clearKnowledge(a.view), data |-> NoKnowledge]
      ELSE IF a.session # None /\ k.session # a.session
        THEN [view |-> a.view, data |-> NoKnowledge]
      ELSE [view |-> a.view, data |-> k]

safeParseKnowledge(v) ==
  IF isSessionReplaced(v) THEN [view |-> safeParseSession(v), data |-> NoKnowledge]
  ELSE knowledgeOf(readActive(v))

FirstOf(a, b, c, d) == CASE a # None -> a [] b # None -> b [] c # None -> c [] OTHER -> d

\* Facts are joined to those of the session they are bound to; the snapshot of
\* another session is replaced.  A tab whose session was replaced writes nothing.
joinKnowledge(read, active, incoming, expected, facts) ==
  LET w == read.view
      bound == FirstOf(incoming, expected, active, read.data.session)
      rejected == \/ isSessionReplaced(w)
                  \/ expected # None /\ active # expected
                  \/ expected # None /\ bound # expected
      base == IF read.data.session \in {None, bound} THEN read.data.facts ELSE {}
  IN  IF rejected THEN w
      ELSE [w EXCEPT !.knowledge = [session |-> bound, facts |-> base \cup facts]]

saveKnowledge(v, incoming, expected, facts) ==
  joinKnowledge(safeParseKnowledge(v), readActive(safeParseKnowledge(v).view).session,
                incoming, expected, facts)

clearKnowledgeForSession(v, s) ==
  IF s # None /\ v.knowledge.session \in {None, s} THEN clearKnowledge(v) ELSE v

----------------------------------------------------------------------------
(* What the client drops when the server says that a result, or the        *)
(* session, is no longer there.                                            *)

clearClientFinalizedProjection(v, id) ==
  saveSessionDataForIdentity(clearKnowledgeForSession(v, id), id,
    [phase |-> "voting", result |-> None, requested |-> FALSE]).view

clearActive(a, id) == IF a.session # None /\ a.session = id THEN clearStoredSessionData(a.view) ELSE a.view

clearClientSessionAuthority(v, id) == clearActive(readActive(v), id)

============================================================================
