----------------------------- MODULE GrepChild ------------------------------
(***************************************************************************)
(* GET /v1/ref/grep: a term looked for in every string of the              *)
(* configuration (RefScan has the walk that collects them).  A pattern is  *)
(* run by a child interpreter, which ends by itself, never ends, or        *)
(* breaks, while the request waits for it with a deadline and the caller   *)
(* may hang up.                                                            *)
(***************************************************************************)
EXTENDS Naturals, FiniteSets

CONSTANTS
  Reqs,     \* request slots; each runs once
  Terms,    \* [kind: "bad", "literal" or "regex", hits: the candidates it
            \* matches, child: how its child goes: "ends", "hangs" or "breaks"]
  Location, \* Location[i]: the file of candidate i, in the order of _sort_key
  Cap       \* HIT_CAP

VARIABLES
  term,   \* term[r]: what r looks for
  pc,     \* where r is
  child,  \* child[r]: r's worker process
  answer  \* answer[r]: the body of a 200

vars == <<term, pc, child, answer>>

Over == {"ok", "bad_request", "server_error", "gone"}

NoAnswer == [total |-> 0, hits |-> {}, sources |-> [f \in {} |-> 0]]

\* "next" is the answer that follows once the killed child has been reaped.
TypeOK ==
  /\ term \in [Reqs -> Terms]
  /\ pc \in [Reqs -> Over \cup {"asked", "communicating", "reaping", "reaping_gone"}]
  /\ child \in [Reqs -> {"none", "running", "done", "broken", "dying", "killed"}]
  /\ \A r \in Reqs : Cardinality(answer[r].hits) <= Cap

Init ==
  /\ term \in [Reqs -> Terms]
  /\ pc = [r \in Reqs |-> "asked"]
  /\ child = [r \in Reqs |-> "none"]
  /\ answer = [r \in Reqs |-> NoAnswer]

Goto(r, step) == pc' = [pc EXCEPT ![r] = step]

-----------------------------------------------------------------------------

CountIn(S) == [f \in {Location[i] : i \in S} |-> Cardinality({i \in S : Location[i] = f})]

\* sorted(...)[:HIT_CAP]
FirstOf(S) == {i \in S : Cardinality({j \in S : j < i}) < Cap}

\* Mutant of Summarise: the files are counted after the cap.
SummariseCapped(matches) ==
  LET first == FirstOf(matches)
  IN  [total |-> Cardinality(matches), hits |-> first, sources |-> CountIn(first)]

\* summarise: sort, count per file, and only then cap.
Summarise(matches) ==
  [total |-> Cardinality(matches),
   hits |-> FirstOf(matches),
   sources |-> CountIn(matches)]

Give(r) == answer' = [answer EXCEPT ![r] = Summarise(term[r].hits)]

\* validate_term refuses the term.
Refuse(r) ==
  /\ pc[r] = "asked" /\ term[r].kind = "bad"
  /\ Goto(r, "bad_request")
  /\ UNCHANGED <<term, child, answer>>

\* A literal is answered here.
MatchLiteral(r) ==
  /\ pc[r] = "asked" /\ term[r].kind = "literal"
  /\ Give(r)
  /\ Goto(r, "ok")
  /\ UNCHANGED <<term, child>>

\* regex_matches, to communicate.  (A configuration has some string in it.)
Spawn(r) ==
  /\ pc[r] = "asked" /\ term[r].kind = "regex"
  /\ child' = [child EXCEPT ![r] = "running"]
  /\ Goto(r, "communicating")
  /\ UNCHANGED <<term, answer>>

\* Status 0, and the indices on stdout; or another status.
Collect(r) ==
  /\ pc[r] = "communicating"
  /\ \/ child[r] = "done" /\ Give(r) /\ Goto(r, "ok")
     \/ child[r] = "broken" /\ UNCHANGED answer /\ Goto(r, "server_error")
  /\ UNCHANGED <<term, child>>

\* The finally clause: what still runs is killed and waited for.
KillAnd(r, waiting, over) ==
  IF child[r] = "running"
  THEN child' = [child EXCEPT ![r] = "dying"] /\ Goto(r, waiting)
  ELSE UNCHANGED child /\ Goto(r, over)

\* Mutant of Deadline: there is none.
DeadlineNever(r) == FALSE /\ UNCHANGED vars

\* REGEX_DEADLINE_S is over - perhaps just as the child ends.
Deadline(r) ==
  /\ pc[r] = "communicating"
  /\ KillAnd(r, "reaping", "bad_request")
  /\ UNCHANGED <<term, answer>>

\* Mutant of HangUp: only the deadline kills.
HangUpLeaves(r) ==
  /\ pc[r] = "communicating"
  /\ Goto(r, "gone")
  /\ UNCHANGED <<term, child, answer>>

\* The caller hangs up: the handler is cancelled at its await; the second time,
\* while it waits for the killed child, that wait ends too.
HangUp(r) ==
  /\ \/ pc[r] = "communicating" /\ KillAnd(r, "reaping_gone", "gone")
     \/ pc[r] \in {"reaping", "reaping_gone"} /\ Goto(r, "gone") /\ UNCHANGED child
  /\ UNCHANGED <<term, answer>>

\* proc.wait() returns.
Reaped(r) ==
  /\ child[r] = "killed"
  /\ \/ pc[r] = "reaping" /\ Goto(r, "bad_request")
     \/ pc[r] = "reaping_gone" /\ Goto(r, "gone")
  /\ UNCHANGED <<term, child, answer>>

\* The child ends by itself, one way or the other...
ChildEnds(r) ==
  /\ child[r] = "running"
  /\ \/ term[r].child = "ends" /\ child' = [child EXCEPT ![r] = "done"]
     \/ term[r].child = "breaks" /\ child' = [child EXCEPT ![r] = "broken"]
  /\ UNCHANGED <<term, pc, answer>>

\* ... or is killed.
ChildDies(r) ==
  /\ child[r] = "dying"
  /\ child' = [child EXCEPT ![r] = "killed"]
  /\ UNCHANGED <<term, pc, answer>>

Handle(r) == Refuse(r) \/ MatchLiteral(r) \/ Spawn(r) \/ Collect(r) \/ Deadline(r) \/ Reaped(r)

AllOver == (\A r \in Reqs : pc[r] \in Over) /\ UNCHANGED vars

Next ==
  \/ \E r \in Reqs : Handle(r) \/ HangUp(r) \/ ChildEnds(r) \/ ChildDies(r)
  \/ AllOver

\* The event loop runs every handler, its timer included, and SIGKILL kills.
Fairness == \A r \in Reqs : WF_vars(Handle(r)) /\ WF_vars(ChildDies(r))

Spec == Init /\ [][Next]_vars /\ Fairness

-----------------------------------------------------------------------------
(* Properties *)

\* regex_matches: "a child left running a runaway pattern would spin for as
\* long as the pattern takes" - a request that is over leaves none.
NoChildLeft == \A r \in Reqs : pc[r] \in Over => child[r] # "running"

\* What the counts add up to: as many marks under each file as it is counted for.
Tally(sources) == UNION {{f} \X (1 .. sources[f]) : f \in DOMAIN sources}

\* summarise: "counts first, so a truncated answer still says how much there
\* was"; and no answer is made of what a killed or broken child had found.
AnswersAreWhole ==
  \A r \in Reqs : pc[r] = "ok" =>
    /\ child[r] \in {"none", "done"}
    /\ answer[r].total = Cardinality(term[r].hits)
    /\ answer[r].hits \subseteq term[r].hits
    /\ \A i \in answer[r].hits, j \in term[r].hits \ answer[r].hits : i < j
    /\ answer[r].total = Cardinality(Tally(answer[r].sources))
    /\ answer[r].hits # term[r].hits => Cardinality(answer[r].hits) = Cap

\* "Patterns are therefore evaluated in a child interpreter with a deadline":
\* every request ends, whatever its pattern does.
EveryGrepEnds == \A r \in Reqs : <>(pc[r] \in Over)
=============================================================================
