------------------------------- MODULE Comms --------------------------------
(***************************************************************************)
(* The readers of the endpoint container (pkg/communication) over the      *)
(* lifecycle that the monitoring core implements: the HTTP handlers, the   *)
(* goroutine that gossips the endpoints' status to other lookouts, and the *)
(* UDP configuration service.  They walk the live endpoints: epc.mutex     *)
(* protects at most the copy of the map, and Complete never takes it.      *)
(*                                                                         *)
(* Complete's side is refined here by what the readers can see of it: the  *)
(* object behind ep.App is replaced by an empty one when the endpoint is   *)
(* identified, and filled in place, section by section, by SetCtlIfOut.    *)
(* Stores take effect in the order of the program.                         *)
(*                                                                         *)
(* A reader changes nothing another one looks at, so one is enough at a    *)
(* time: job is the operation under way.                                   *)
(***************************************************************************)
EXTENDS Lifecycle, Metrics, FiniteSets

CONSTANTS None,      \* "no endpoint"
          Bounds,    \* bounds of the buckets of a reported histogram
          MaxCount   \* bound: the greatest count in a bucket

ASSUME CommsAssumption == None \notin EP /\ Kind \in [EP -> AppName]

ASSUME ReportAssumption ==
  Bounds \subseteq Nat /\ IsFiniteSet(Bounds) /\ MaxCount \in Nat

VARIABLES
  obj,      \* obj[e]: content of the object behind e's App
  fill,     \* SetCtlIfOut under way: its endpoint and the sections to come
  ready,    \* ghost: endpoints whose recognized App has taken an answer
  job,      \* the operation of a reader, with its locals
  tags,     \* what Serf's agent has for this lookout: status per endpoint
  gossiped, \* what has reached the agent of another lookout
  known,    \* Lookouts[this lookout].Apps at that other lookout
  exit      \* "no", or what ended the process

commVars == <<tags, gossiped, known>>
vars == <<state, app, goal, obj, fill, ready, job, tags, gossiped, known, exit>>

Alive == exit = "no"

(* GetList, and every range over epMap: the endpoints in it.               *)
InMap == {e \in EP : state[e] # "unknown"}

NoFill == [ep |-> None, left |-> <<>>]

(* A status per endpoint: "1" running, "0" not, "none" not reported.       *)
Status == {"none", "0", "1"}

NoStatus == [e \in EP |-> "none"]

(* ask is the state a /v0/ request asks for; text is what has been written *)
(* to the reply or to the tags.  of is empty while Parse works on the      *)
(* object behind App; once App is replaced, it holds the old content.      *)
NoJob == [kind |-> "none", pc |-> "idle", todo |-> {}, ep |-> None,
          ask |-> "none", text |-> NoStatus, reads |-> <<>>, of |-> <<>>,
          reported |-> {}, steady |-> {}, replaced |-> FALSE]

JobAt(k, p) == Alive /\ job.kind = k /\ job.pc = p

Goes(p) == job' = [job EXCEPT !.pc = p]

(* Mutant: JsonMarshal does not take epc.mutex.                            *)
MutexNotTaken == TRUE

(* JsonMarshal holds epc.mutex until the reply is made.                    *)
MutexFree == ~(job.kind = "v0" /\ job.pc = "marshal")

-----------------------------------------------------------------------------
(* The monitoring core.                                                    *)

(* A step of the core as a running job sees it.                            *)
Seen == job' = [job EXCEPT !.steady = {e \in @ : state'[e] = "running"}]

(* AddEp writes epMap; the runtime throws if a range over it is under way. *)
CoreFinds(e) ==
  /\ Alive /\ MutexFree /\ Found(e)
  /\ IF job.kind = "tags"
       THEN \/ exit' = "mapRace" /\ UNCHANGED job
            \/ UNCHANGED exit
               /\ job' \in {job, [job EXCEPT !.todo = @ \cup {e}]}
       ELSE UNCHANGED <<job, exit>>
  /\ UNCHANGED <<obj, fill, ready, commVars>>

CoreDecides(e) ==
  /\ Alive /\ MutexFree
  /\ Looks(e) \/ Reappears(e) \/ LosesTouch(e) \/ Vanishes(e)
  /\ UNCHANGED <<obj, fill, ready, job, commVars, exit>>

(* ep.App is replaced.  A Parse that is under way goes on with the object  *)
(* it was called on.                                                       *)
CoreIdentifies(e) ==
  /\ Alive /\ fill = NoFill
  /\ Identified(e) \/ Misread(e)
  /\ obj' = [obj EXCEPT ![e] = NoContent]
  /\ ready' = ready \ {e}
  /\ job' = [job EXCEPT
       !.steady = @ \ {e},
       !.replaced = @ \/ job.ep = e,
       !.of = IF job.pc = "parse" /\ job.ep = e /\ @ = <<>>
              THEN <<obj[e]>> ELSE @]
  /\ UNCHANGED <<fill, commVars, exit>>

(* Complete on a readable answer to a down endpoint (425-427).             *)
CoreRevives(e) ==
  /\ Alive /\ fill = NoFill
  /\ state[e] = "down" /\ Answered(e)
  /\ UNCHANGED <<obj, fill, ready, job, commVars, exit>>

(* Mutant: every answer is completed by a goroutine of its own.            *)
BeginFillOverlapping(e) ==
  /\ Alive /\ state[e] # "unknown"
  /\ fill' = [ep |-> e, left |-> SetCtlIfOut(app[e])]
  /\ UNCHANGED <<lcVars, obj, ready, job, commVars, exit>>

(* update: SetCtlIfOut on the App, then ChangeState.                       *)
BeginFill(e) ==
  /\ Alive /\ fill = NoFill /\ Idle("complete") /\ state[e] # "unknown"
  /\ fill' = [ep |-> e, left |-> SetCtlIfOut(app[e])]
  /\ UNCHANGED <<lcVars, obj, ready, job, commVars, exit>>

FillNext ==
  LET e == fill.ep
      s == Head(fill.left)
  IN /\ Alive /\ fill # NoFill /\ fill.left # <<>>
     /\ IF s \in Slice \cap Carries(app[e]) /\ obj[e][s] = "nil"
          THEN /\ obj' = [obj EXCEPT ![e][s] = "torn"]
               /\ UNCHANGED fill
          ELSE /\ obj' = [obj EXCEPT ![e][s] =
                            IF s \in Carries(app[e]) THEN "set" ELSE "nil"]
               /\ fill' = [fill EXCEPT !.left = Tail(@)]
     /\ UNCHANGED <<lcVars, ready, job, commVars, exit>>

EndFill ==
  /\ Alive /\ fill # NoFill /\ fill.left = <<>>
  /\ Answered(fill.ep)
  /\ ready' = ready \cup {e \in {fill.ep} : app[e] \in AppName}
  /\ fill' = NoFill
  /\ UNCHANGED <<obj, job, commVars, exit>>

CoreFinishes(w) ==
  /\ Alive /\ Finish(w) /\ Seen
  /\ UNCHANGED <<obj, fill, ready, commVars, exit>>

-----------------------------------------------------------------------------
(* GET /metrics: MetricsHandler.                                           *)

(* A reader gets epc.mutex, when no change is under way, for the time it   *)
(* takes to copy the map (TakeSnapshot) or a reference to it (GetList).    *)
Starts(k) ==
  /\ Alive /\ job.kind = "none" /\ Idle("container")
  /\ job' = [NoJob EXCEPT !.kind = k, !.pc = "next", !.todo = InMap,
               !.steady = {e \in ready : state[e] = "running"}]

TakeSnapshot == Starts("metrics")

(* The next endpoint of the copied map, if it is running.                  *)
ScrapeNext(e) ==
  /\ JobAt("metrics", "next") /\ e \in job.todo
  /\ job' = [job EXCEPT !.todo = @ \ {e}, !.ep = e, !.replaced = FALSE,
               !.pc = IF state[e] = "running" THEN "labels" ELSE "next"]

ScrapeLabels ==
  LET e == job.ep
      r == LoadSystemInfo(app[e], obj[e])
  IN /\ JobAt("metrics", "labels")
     /\ Goes(CASE r = "labels" -> "call" [] r = "skip" -> "next"
               [] r = "panic" -> "panicked")

(* ep.App is read again for the call of Parse.                             *)
ScrapeCall ==
  LET e == job.ep
  IN /\ JobAt("metrics", "call")
     /\ job' = [job EXCEPT !.pc = "parse", !.of = <<>>,
                           !.reads = Parse(app[e], obj[e])]

ScrapeParse ==
  LET o == IF job.of = <<>> THEN obj[job.ep] ELSE job.of[1]
  IN /\ JobAt("metrics", "parse")
     /\ job' = IF job.reads = <<>>
               THEN [job EXCEPT !.pc = "next", !.reported = @ \cup {job.ep}]
               ELSE IF o[Head(job.reads)] = "set"
                    THEN [job EXCEPT !.reads = Tail(@)]
                    ELSE [job EXCEPT !.pc = "panicked"]

ScrapeDone ==
  JobAt("metrics", "next") /\ job.todo = {} /\ Goes("done")

-----------------------------------------------------------------------------
(* GET /v0/...: JsonMarshal.                                               *)

Asked == {"running", "any", "down", "init", "removing"}

(* The endpoints in the state asked for, chosen under epc.mutex.           *)
JsonMarshal(q) ==
  /\ Alive /\ job.kind = "none" /\ Idle("container")
  /\ job' = [NoJob EXCEPT !.kind = "v0", !.pc = "marshal", !.ask = q,
               !.todo = {e \in InMap : q \in {"any", state[e]}}]

(* Their State is read again for the reply.                                *)
Marshal ==
  /\ JobAt("v0", "marshal")
  /\ job' = [job EXCEPT !.pc = "done",
               !.text = [e \in EP |-> IF e \in job.todo THEN state[e]
                                                        ELSE "none"]]

-----------------------------------------------------------------------------
(* SetTags: GetCompressedGossipData ranges over the live map, then         *)
(* SetNodeTags, whose error is logged.                                     *)

SetTags == Starts("tags")

(* Mutant: the status is only written for a running endpoint.              *)
statusOnlyRunning(e) == IF state[e] = "running" THEN "1" ELSE tags[e]

status(e) == IF state[e] = "running" THEN "1" ELSE "0"

TagNext(e) ==
  /\ JobAt("tags", "next") /\ e \in job.todo
  /\ job' = [job EXCEPT !.todo = @ \ {e}, !.text[e] = status(e)]

TagsAccepted ==
  /\ JobAt("tags", "next") /\ job.todo = {}
  /\ tags' = job.text /\ Goes("done")
  /\ UNCHANGED <<lcVars, obj, fill, ready, gossiped, known, exit>>

(* Serf refuses tags that are too large.                                   *)
TagsRefused ==
  JobAt("tags", "next") /\ job.todo = {} /\ Goes("done")

(* Serf brings this lookout's tags to another agent, whose lookout reads   *)
(* them: GetTags.                                                          *)
Gossip ==
  /\ gossiped' = tags
  /\ UNCHANGED <<lcVars, obj, fill, ready, job, tags, known, exit>>

GetTags ==
  /\ known' = gossiped
  /\ UNCHANGED <<lcVars, obj, fill, ready, job, tags, gossiped, exit>>

-----------------------------------------------------------------------------
(* A UDP request for e's configuration: getConfigNSend calls MarkAlive,    *)
(* which reads epMap without the mutex.  The answer changes nothing here.  *)
MarkAlive(e) ==
  /\ Alive
  /\ \/ state[e] \in {"init", "down"} /\ exit' = "broken"
     \/ (\E f \in EP : state[f] = "unknown") /\ exit' = "mapRace"
  /\ UNCHANGED <<lcVars, obj, fill, ready, job, commVars>>

(* The HTTP server recovers from a handler's panic: the request ends.      *)
EndJob ==
  /\ Alive /\ job.pc \in {"done", "panicked"}
  /\ job' = NoJob

-----------------------------------------------------------------------------
Init ==
  /\ LcInit
  /\ obj = [e \in EP |-> NoContent]
  /\ fill = NoFill /\ ready = {} /\ job = NoJob
  /\ tags = NoStatus /\ gossiped = NoStatus /\ known = NoStatus
  /\ exit = "no"

Core ==
  \/ \E e \in EP : \/ CoreFinds(e) \/ CoreDecides(e) \/ CoreIdentifies(e)
                   \/ CoreRevives(e) \/ BeginFill(e)
  \/ FillNext \/ EndFill
  \/ \E w \in Writer : CoreFinishes(w)

(* What a started operation does next.                                     *)
JobStep ==
  /\ \/ \E e \in EP : ScrapeNext(e) \/ TagNext(e)
     \/ ScrapeLabels \/ ScrapeCall \/ ScrapeParse \/ ScrapeDone
     \/ Marshal \/ TagsRefused \/ EndJob
  /\ UNCHANGED <<lcVars, obj, fill, ready, commVars, exit>>

Request ==
  /\ TakeSnapshot \/ (\E q \in Asked : JsonMarshal(q)) \/ SetTags
  /\ UNCHANGED <<lcVars, obj, fill, ready, commVars, exit>>

Next ==
  \/ Core \/ Request \/ JobStep \/ TagsAccepted \/ Gossip \/ GetTags
  \/ \E e \in EP : MarkAlive(e)

Spec == Init /\ [][Next]_vars

(* A started operation and a decided change end; SetTags and GetTags run   *)
(* every ten seconds.  Of Serf it is assumed that it does not refuse tags  *)
(* for ever and brings them to the other lookout in the end.               *)
FairSpec ==
  /\ Spec
  /\ WF_vars(JobStep \/ TagsAccepted)
  /\ \A w \in Writer : WF_vars(CoreFinishes(w))
  /\ SF_vars(SetTags /\ UNCHANGED <<lcVars, obj, fill, ready, commVars, exit>>)
  /\ SF_vars(TagsAccepted)
  /\ WF_vars(Gossip) /\ WF_vars(GetTags)

-----------------------------------------------------------------------------
(* Properties.                                                             *)

(* Every variable keeps its type, and Complete fills an object only while  *)
(* it has no ChangeState under way.                                        *)
TypeOK ==
  /\ state \in [EP -> Epstate] /\ app \in [EP -> App]
  /\ goal \in [Writer -> {<<>>} \cup (EP \X Epstate)]
  /\ obj \in [EP -> [Section -> Presence]]
  /\ fill.ep \in EP \cup {None} /\ fill.left \in Seq(Section)
  /\ fill # NoFill => Idle("complete")
  /\ ready \subseteq EP
  /\ DOMAIN job = DOMAIN NoJob
  /\ job.kind \in {"none", "metrics", "v0", "tags"}
  /\ job.todo \subseteq EP /\ job.ep \in EP \cup {None}
  /\ job.reported \subseteq EP /\ job.steady \subseteq EP
  /\ tags \in [EP -> Status] /\ gossiped \in [EP -> Status]
  /\ known \in [EP -> Status]
  /\ exit \in {"no", "mapRace", "broken"}

(* A scrape meets no nil and no half-written section of an endpoint, even  *)
(* while SetCtlIfOut fills the object it reports from, unless the endpoint *)
(* was identified anew after the scrape found it running: NISD takes over  *)
(* SysInfo, which LoadSystemInfo tests, after what Parse relies on.        *)
ScrapeSurvives == job.pc = "panicked" => job.replaced

(* "Prometheus-formatted metrics from all active endpoints": a scrape      *)
(* reports every endpoint that was running, with an answer taken, from its *)
(* start to its end.  Only an App replaced under it may cut it short.      *)
AllActiveReported ==
  /\ job.kind = "metrics"
  /\ job.pc = "done" \/ (job.pc = "panicked" /\ ~job.replaced)
  => job.steady \subseteq job.reported

LosslessReports == LosslessOn(Bounds, MaxCount)

(* Once a scrape has reported an endpoint, nothing of the structs reported *)
(* is lost: GenericPromDataParser, parseHistogram and makePromHistogram    *)
(* keep every value.                                                       *)
MetricsLossless == job.reported # {} => LosslessReports

(* A reply to /v0/<state> shows no endpoint in another state than the one  *)
(* asked for, unless an answer has just been taken from it: epc.mutex is   *)
(* held while State is read twice, which keeps CleanEPs and Poll out, but  *)
(* not Complete.                                                           *)
ReplyState ==
  job.kind = "v0" /\ job.pc = "done" /\ job.ask # "any"
    => \A e \in EP : job.text[e] \in {"none", job.ask, "identified", "running"}

(* Another lookout ends up with the right status of an endpoint that       *)
(* settles, running or not, whatever tags Serf refused and however the     *)
(* range over the live map interleaved with the changes before.            *)
PeersConverge ==
  \A e \in EP :
    /\ <>[](Alive /\ state[e] = "running") => <>[](known[e] = "1")
    /\ <>[](Alive /\ state[e] \notin {"unknown", "running"})
         => <>[](known[e] = "0")
=============================================================================
