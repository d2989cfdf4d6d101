---------------------------- MODULE CommsProofs -----------------------------
(***************************************************************************)
(* Proofs about the readers of the endpoint container: what a scrape, a    *)
(* reply to /v0/<state> and a range for the tags may meet while Complete   *)
(* and the container's side change the endpoints under them; and that the  *)
(* samples of a struct keep all its values, for histograms of any size.    *)
(***************************************************************************)
EXTENDS Comms, FoldLemmas, SequenceTheorems

(* Complete's only changes are to identified and running.                  *)
CompleteAims ==
  goal["complete"] # <<>> => goal["complete"][2] \in {"identified", "running"}

AppFits == \A e \in EP : app[e] \in {Kind[e], "unrecognized"}

(* What SetCtlIfOut has still to take over of a NISD's answer, and what of *)
(* it is there already; SysInfo, which a scrape tests, comes last.         *)
NisdFillInv ==
  LET e == fill.ep
  IN fill # NoFill /\ app[e] = "NISD" =>
       \/ fill.left = <<"niorq", "root", "sys">>
       \/ fill.left = <<"root", "sys">> /\ obj[e]["niorq"] = "set"
       \/ fill.left = <<"sys">> /\ obj[e]["niorq"] = "set" /\ obj[e]["root"] = "set"
       \/ fill.left = <<>> /\ obj[e]["sys"] = "set"

SysInfoLast ==
  \A e \in EP : app[e] = "NISD" /\ obj[e]["sys"] = "set"
    => obj[e]["niorq"] = "set" /\ obj[e]["root"] = "set"

ReadyHolds ==
  \A e \in ready : app[e] \in AppName /\ (app[e] = "NISD" => obj[e]["sys"] = "set")

-----------------------------------------------------------------------------
(* The fields of job.                                                      *)

JobPC == {"idle", "next", "labels", "call", "parse", "panicked", "marshal", "done"}

JobRec ==
  [kind     : {"none", "metrics", "v0", "tags"}, pc : JobPC,
   todo     : SUBSET EP,
   ep       : EP \cup {None},
   ask      : Asked \cup {"none"},
   text     : [EP -> Status \cup Epstate],
   reads    : Seq(Section),
   of       : Seq([Section -> Presence]),
   reported : SUBSET EP,
   steady   : SUBSET EP,
   replaced : BOOLEAN]

OnEndpoint == {"labels", "call", "parse"}

(* A scrape has reported, or still comes to, every steady endpoint; steady *)
(* ones are running and have taken an answer.                              *)
ScrapeCovers ==
  job.kind = "metrics" =>
    /\ \A e \in job.steady : e \in ready /\ state[e] = "running"
    /\ job.pc # "panicked" =>
         \A e \in job.steady : \/ e \in job.reported \/ e \in job.todo
                               \/ job.pc \in OnEndpoint /\ e = job.ep
    /\ job.pc = "done" => job.todo = {}
    /\ job.pc \in OnEndpoint => job.ep \in EP

(* The endpoint a scrape reports from has what the rest of Parse takes     *)
(* from it, as long as its App is the one the scrape found.                *)
ScrapeReads ==
  job.kind = "metrics" /\ ~job.replaced =>
    /\ job.pc \in {"call", "parse"} =>
         /\ app[job.ep] # "unrecognized"
         /\ app[job.ep] = "NISD" => obj[job.ep]["sys"] = "set"
    /\ job.pc = "parse" /\ app[job.ep] = "NISD" =>
         /\ job.of = <<>>
         /\ \A i \in 1..Len(job.reads) : job.reads[i] \in {"root", "niorq", "sys"}
    /\ job.pc = "panicked" => job.ep \in EP /\ Kind[job.ep] # "NISD"

(* Only scrapes panic; replies are made under epc.mutex, so that while     *)
(* JsonMarshal reads State a second time only Complete may change it.      *)
ReplyInv ==
  /\ job.pc = "panicked" => job.kind = "metrics"
  /\ job.kind = "v0" /\ job.pc = "marshal" =>
       /\ Idle("container")
       /\ job.ask # "any" =>
            \A e \in job.todo : state[e] \in {job.ask, "identified", "running"}
  /\ job.kind = "tags" => job.text \in [EP -> Status]

(* The part of the invariant about the monitoring core, which no reader    *)
(* disturbs.                                                               *)
CoreTypes ==
  /\ state \in [EP -> Epstate] /\ app \in [EP -> App]
  /\ goal \in [Writer -> {<<>>} \cup (EP \X Epstate)]
  /\ obj \in [EP -> [Section -> Presence]]
  /\ fill \in [ep : EP \cup {None}, left : Seq(Section)]
  /\ fill # NoFill => fill.ep \in EP /\ Idle("complete")
  /\ ready \subseteq EP

CoreInv ==
  /\ CoreTypes
  /\ CompleteAims /\ AppFits /\ NisdFillInv /\ SysInfoLast /\ ReadyHolds

(* The part about the operation under way.                                 *)
JobInv ==
  /\ job \in JobRec
  /\ ScrapeCovers /\ ScrapeReads /\ ReplyInv /\ ReplyState

(* The part about the tags on their way, and the end of the process.       *)
TagTypes ==
  /\ tags \in [EP -> Status] /\ gossiped \in [EP -> Status]
  /\ known \in [EP -> Status]
  /\ exit \in {"no", "mapRace", "broken"}

CommsInv == CoreInv /\ JobInv /\ TagTypes


-----------------------------------------------------------------------------
(* What the applications do.                                               *)

(* SetCtlIfOut takes over sections; a NISD's SysInfo last.                 *)
LEMMA SetCtlIfOutSections ==
  ASSUME NEW a \in App
  PROVE  /\ SetCtlIfOut(a) \in Seq(Section)
         /\ a = "NISD" => SetCtlIfOut(a) = <<"niorq", "root", "sys">>
<1>1. CASE a = "NISD"
  <2>1. SetCtlIfOut(a) = <<"niorq", "root", "sys">>
    BY <1>1 DEF SetCtlIfOut, NisdSetCtlIfOut
  <2> QED
    BY <2>1 DEF Section
<1>2. CASE a = "NCLIENT"
  <2>1. SetCtlIfOut(a) = <<"nclient", "sys", "niorq">>
    BY <1>2 DEF SetCtlIfOut, NclientSetCtlIfOut
  <2>2. <<"nclient", "sys", "niorq">> \in Seq(Section) /\ a # "NISD"
    BY <1>2 DEF Section
  <2> QED
    BY <2>1, <2>2
<1>3. CASE a = "PMDB"
  <2>1. SetCtlIfOut(a) = <<"raft">>
    BY <1>3 DEF SetCtlIfOut, PmdbSetCtlIfOut
  <2>2. <<"raft">> \in Seq(Section) /\ a # "NISD"
    BY <1>3 DEF Section
  <2> QED
    BY <2>1, <2>2
<1>4. CASE a = "unrecognized"
  <2>1. SetCtlIfOut(a) = <<>>
    BY <1>4 DEF SetCtlIfOut
  <2>2. <<>> \in Seq(Section) /\ a # "NISD"
    BY <1>4 DEF Section
  <2> QED
    BY <2>1, <2>2
<1> QED
  BY <1>1, <1>2, <1>3, <1>4 DEF App, AppName

(* LoadSystemInfo: a NISD without SysInfo is skipped, the other            *)
(* applications are dereferenced.                                          *)
LEMMA LoadSystemInfoResult ==
  ASSUME NEW a \in App, NEW o \in [Section -> Presence]
  PROVE  /\ LoadSystemInfo(a, o) \in {"labels", "skip", "panic"}
         /\ LoadSystemInfo(a, o) = "labels" => a # "unrecognized" /\ o["sys"] = "set"
         /\ LoadSystemInfo(a, o) = "panic" => a \in {"PMDB", "NCLIENT"}
         /\ LoadSystemInfo(a, o) = "skip" =>
              a = "unrecognized" \/ (a = "NISD" /\ o["sys"] # "set")
<1>1. CASE a = "NISD"
  BY <1>1 DEF LoadSystemInfo, NisdLoadSystemInfo
<1>2. CASE a = "NCLIENT"
  BY <1>2 DEF LoadSystemInfo, DerefSysInfo
<1>3. CASE a = "PMDB"
  BY <1>3 DEF LoadSystemInfo, DerefSysInfo
<1>4. CASE a = "unrecognized"
  BY <1>4 DEF LoadSystemInfo
<1> QED
  BY <1>1, <1>2, <1>3, <1>4 DEF App, AppName

(* Parse reads sections; of a NISD no more than SetCtlIfOut takes over.    *)
LEMMA ParseReads ==
  ASSUME NEW a \in App, NEW o \in [Section -> Presence]
  PROVE  /\ Parse(a, o) \in Seq(Section)
         /\ a = "NISD" => \A i \in 1..Len(Parse(a, o)) :
                            Parse(a, o)[i] \in {"root", "niorq", "sys"}
<1>1. CASE a = "NISD"
  <2>1. Parse(a, o) \in {<<>>, <<"root", "niorq", "root", "sys">>}
    BY <1>1 DEF Parse, NisdParse
  <2>2. CASE Parse(a, o) = <<>>
    BY <2>2
  <2>3. CASE Parse(a, o) = <<"root", "niorq", "root", "sys">>
    <3>1. /\ Len(<<"root", "niorq", "root", "sys">>) = 4
          /\ \A i \in 1..4 : <<"root", "niorq", "root", "sys">>[i]
                               \in {"root", "niorq", "sys"}
          /\ <<"root", "niorq", "root", "sys">> \in Seq(Section)
      BY DEF Section
    <3> QED
      BY <2>3, <3>1
  <2> QED
    BY <2>1, <2>2, <2>3
<1>2. CASE a = "NCLIENT"
  <2>1. Parse(a, o) = <<"nclient", "niorq", "sys">>
    BY <1>2 DEF Parse, NclientParse
  <2>2. <<"nclient", "niorq", "sys">> \in Seq(Section) /\ a # "NISD"
    BY <1>2 DEF Section
  <2> QED
    BY <2>1, <2>2
<1>3. CASE a = "PMDB"
  <2>1. Parse(a, o) = <<"ownRaft", "sys">>
    BY <1>3 DEF Parse, PmdbParse
  <2>2. <<"ownRaft", "sys">> \in Seq(Section) /\ a # "NISD"
    BY <1>3 DEF Section
  <2> QED
    BY <2>1, <2>2
<1>4. CASE a = "unrecognized"
  <2>1. Parse(a, o) = <<>>
    BY <1>4 DEF Parse
  <2>2. <<>> \in Seq(Section) /\ a # "NISD"
    BY <1>4 DEF Section
  <2> QED
    BY <2>1, <2>2
<1> QED
  BY <1>1, <1>2, <1>3, <1>4 DEF App, AppName


-----------------------------------------------------------------------------
(* The monitoring core.                                                    *)

(* A change by the container's side touches no App and no object.          *)
LEMMA CoreContainer ==
  ASSUME CoreInv, NEW e \in EP, CoreFinds(e) \/ CoreDecides(e)
  PROVE  CoreInv'
<1> USE DEF CoreInv
<1>1. UNCHANGED <<app, obj, fill, ready>> /\ goal'["complete"] = goal["complete"]
  BY DEF CoreFinds, CoreDecides, Found, Looks, Reappears, LosesTouch, Vanishes,
         Aim, CoreTypes, Writer
<1>2. state' \in [EP -> Epstate]
  BY DEF CoreFinds, CoreDecides, Found, Looks, Reappears, LosesTouch, Vanishes,
         CoreTypes, Epstate
<1>3. goal' \in [Writer -> {<<>>} \cup (EP \X Epstate)]
  <2>1. goal \in [Writer -> {<<>>} \cup (EP \X Epstate)] /\ state[e] \in Epstate
    BY DEF CoreTypes
  <2>2. CASE goal' = goal
    BY <2>1, <2>2
  <2>3. CASE \E s \in Epstate : goal' = [goal EXCEPT !["container"] = <<e, s>>]
    <3>1. PICK s \in Epstate : goal' = [goal EXCEPT !["container"] = <<e, s>>]
      BY <2>3
    <3>2. <<e, s>> \in {<<>>} \cup (EP \X Epstate)
      OBVIOUS
    <3> QED
      BY <2>1, <3>1, <3>2
  <2>4. {"init", "down", "removing"} \subseteq Epstate
    BY DEF Epstate
  <2> QED
    BY <2>1, <2>2, <2>3, <2>4
       DEF CoreFinds, CoreDecides, Found, Looks, Reappears, LosesTouch,
           Vanishes, Aim
<1>4. CoreTypes'
  BY <1>1, <1>2, <1>3 DEF CoreTypes, Idle
<1> QED
  BY <1>1, <1>4 DEF CompleteAims, AppFits, NisdFillInv, SysInfoLast, ReadyHolds

(* Complete's decisions.                                                   *)
LEMMA CoreAnswer ==
  ASSUME CoreInv, NEW e \in EP, Answered(e), UNCHANGED <<obj, app>>
  PROVE  /\ goal' \in [Writer -> {<<>>} \cup (EP \X Epstate)]
         /\ state' = state /\ CompleteAims'
<1>1. goal' = [goal EXCEPT !["complete"] = <<e, "running">>] /\ state' = state
  BY DEF Answered, Aim
<1>2. goal' \in [Writer -> {<<>>} \cup (EP \X Epstate)]
  BY <1>1 DEF CoreInv, CoreTypes, Epstate
<1>3. goal'["complete"] = <<e, "running">>
  BY <1>1 DEF CoreInv, CoreTypes, Writer
<1> QED
  BY <1>1, <1>2, <1>3 DEF CompleteAims

(* A new App starts with an empty object.                                  *)
LEMMA CoreNewApp ==
  ASSUME CoreInv, NEW e \in EP, CoreIdentifies(e)
  PROVE  CoreInv'
<1> USE DEF CoreInv
<1>1. /\ fill = NoFill /\ fill' = fill /\ state' = state
      /\ obj' = [obj EXCEPT ![e] = NoContent] /\ ready' = ready \ {e}
      /\ \/ app' = [app EXCEPT ![e] = Kind[e]]
         \/ app' = [app EXCEPT ![e] = "unrecognized"]
      /\ goal' = goal \/ goal' = [goal EXCEPT !["complete"] = <<e, "identified">>]
  BY DEF CoreIdentifies, Identified, Misread, Aim
<1>2. Kind[e] \in App
  BY CommsAssumption DEF App
<1>3. NoContent \in [Section -> Presence] /\ NoContent["sys"] = "nil"
  BY DEF NoContent, Section, Presence
<1>4. goal' \in [Writer -> {<<>>} \cup (EP \X Epstate)] /\ CompleteAims'
  <2>1. CASE goal' = goal
    BY <2>1 DEF CoreTypes, CompleteAims
  <2>2. CASE goal' = [goal EXCEPT !["complete"] = <<e, "identified">>]
    <3>1. goal' \in [Writer -> {<<>>} \cup (EP \X Epstate)]
      BY <2>2 DEF CoreTypes, Epstate
    <3>2. goal'["complete"] = <<e, "identified">>
      BY <2>2 DEF CoreTypes, Writer
    <3> QED
      BY <3>1, <3>2 DEF CompleteAims
  <2> QED
    BY <1>1, <2>1, <2>2
<1>5. app' \in [EP -> App]
  BY <1>1, <1>2 DEF CoreTypes, App
<1>6. CoreTypes'
  BY <1>1, <1>3, <1>4, <1>5 DEF CoreTypes
<1>7. \A f \in EP : f # e => app'[f] = app[f] /\ obj'[f] = obj[f]
  BY <1>1 DEF CoreTypes
<1>8. obj'[e]["sys"] = "nil" /\ app'[e] \in {Kind[e], "unrecognized"}
  BY <1>1, <1>3 DEF CoreTypes
<1>9. NisdFillInv'
  BY <1>1 DEF NisdFillInv, NoFill
<1> QED
  BY <1>1, <1>4, <1>6, <1>7, <1>8, <1>9
     DEF AppFits, SysInfoLast, ReadyHolds, CoreTypes

(* A running update starts with every section to come.                     *)
LEMMA CoreBeginFill ==
  ASSUME CoreInv, NEW e \in EP, BeginFill(e)
  PROVE  CoreInv'
<1> USE DEF CoreInv
<1>1. /\ fill' = [ep |-> e, left |-> SetCtlIfOut(app[e])] /\ Idle("complete")
      /\ UNCHANGED <<state, app, goal, obj, ready>>
  BY DEF BeginFill, lcVars
<1>2. app[e] \in App
  BY DEF CoreTypes
<1>3. /\ fill'.ep = e /\ fill'.left = SetCtlIfOut(app[e])
      /\ fill' \in [ep : EP \cup {None}, left : Seq(Section)]
  BY <1>1, <1>2, SetCtlIfOutSections
<1>4. CoreTypes'
  BY <1>1, <1>3 DEF CoreTypes, Idle
<1>5. NisdFillInv'
  BY <1>1, <1>2, <1>3, SetCtlIfOutSections DEF NisdFillInv
<1> QED
  BY <1>1, <1>4, <1>5 DEF CompleteAims, AppFits, SysInfoLast, ReadyHolds

(* What a step of SetCtlIfOut does to the object it fills.                 *)
LEMMA FillObject ==
  ASSUME CoreInv, FillNext
  PROVE  /\ fill.ep \in EP /\ Head(fill.left) \in Section
         /\ obj' \in [EP -> [Section -> Presence]]
         /\ \A f \in EP : \A s \in Section :
              f # fill.ep \/ s # Head(fill.left) => obj'[f][s] = obj[f][s]
         /\ app[fill.ep] = "NISD" /\ obj[fill.ep][Head(fill.left)] = "set"
              => obj'[fill.ep][Head(fill.left)] = "set"
<1>1. fill.ep \in EP /\ fill.left \in Seq(Section) /\ fill.left # <<>>
  BY DEF CoreInv, CoreTypes, FillNext
<1>2. Head(fill.left) \in Section
  BY <1>1
<1> DEFINE e == fill.ep
           h == Head(fill.left)
<1>3. PICK v \in Presence : obj' = [obj EXCEPT ![e][h] = v]
  BY DEF FillNext, Presence
<1>4. obj \in [EP -> [Section -> Presence]]
  BY DEF CoreInv, CoreTypes
<1>5. app[e] = "NISD" /\ obj[e][h] = "set" => v = "set" \/ h \notin Carries("NISD")
  <2> SUFFICES ASSUME app[e] = "NISD", obj[e][h] = "set", h \in Carries("NISD")
               PROVE  obj'[e][h] = "set"
    BY <1>1, <1>2, <1>3, <1>4
  <2>1. obj' = [obj EXCEPT ![e][h] = "set"]
    BY DEF FillNext
  <2> QED
    BY <1>1, <1>2, <1>4, <2>1
<1>6. app[e] = "NISD" => h \in Carries("NISD")
  <2>1. Carries("NISD") = {"sys", "root", "niorq"}
    BY DEF Carries
  <2>2. app[e] = "NISD" => h \in {"sys", "root", "niorq"}
    BY DEF CoreInv, NisdFillInv, FillNext
  <2> QED
    BY <2>1, <2>2
<1> HIDE DEF e, h
<1>7. /\ obj' \in [EP -> [Section -> Presence]]
      /\ \A f \in EP : \A s \in Section : f # e \/ s # h => obj'[f][s] = obj[f][s]
      /\ e \in EP /\ h \in Section => obj'[e][h] = v
  BY <1>3, <1>4
<1> QED
  BY <1>1, <1>2, <1>5, <1>6, <1>7 DEF e, h


(* The two ways a step of SetCtlIfOut goes: a slice that was nil gets its  *)
(* length first; otherwise the section is done.                            *)
LEMMA FillProgress ==
  ASSUME CoreInv, FillNext, app[fill.ep] = "NISD"
  PROVE  \/ fill' = fill /\ Head(fill.left) # "sys"
         \/ /\ fill'.ep = fill.ep /\ fill'.left = Tail(fill.left)
            /\ obj'[fill.ep][Head(fill.left)] = "set"
<1> DEFINE e == fill.ep
           h == Head(fill.left)
<1>1. e \in EP /\ h \in Section /\ h \in {"niorq", "root", "sys"}
  BY FillObject DEF CoreInv, NisdFillInv, FillNext
<1>2. Carries("NISD") = {"sys", "root", "niorq"}
  BY DEF Carries
<1>3. fill \in [ep : EP \cup {None}, left : Seq(Section)]
      /\ obj \in [EP -> [Section -> Presence]]
  BY DEF CoreInv, CoreTypes
<1>4. CASE h \in Slice /\ obj[e][h] = "nil"
  BY <1>1, <1>2, <1>4 DEF FillNext, Slice
<1>5. CASE ~(h \in Slice /\ obj[e][h] = "nil")
  <2>1. obj' = [obj EXCEPT ![e][h] = "set"] /\ fill' = [fill EXCEPT !.left = Tail(@)]
    BY <1>1, <1>2, <1>5 DEF FillNext
  <2>2. fill'.ep = fill.ep /\ fill'.left = Tail(fill.left)
    BY <1>3, <2>1
  <2>3. obj'[e][h] = "set"
    BY <1>1, <1>3, <2>1
  <2> QED
    BY <2>2, <2>3
<1> QED
  BY <1>4, <1>5

(* SetCtlIfOut fills the object it began with.                             *)
LEMMA CoreFillNext ==
  ASSUME CoreInv, FillNext
  PROVE  CoreInv'
<1> USE DEF CoreInv
<1> DEFINE e == fill.ep
           h == Head(fill.left)
<1>1. UNCHANGED <<state, app, goal, ready>> /\ fill # NoFill /\ fill.left # <<>>
  BY DEF FillNext, lcVars
<1>2. /\ e \in EP /\ h \in Section
      /\ obj' \in [EP -> [Section -> Presence]]
      /\ \A f \in EP : \A s \in Section : f # e \/ s # h => obj'[f][s] = obj[f][s]
      /\ app[e] = "NISD" /\ obj[e][h] = "set" => obj'[e][h] = "set"
  BY FillObject
<1>3. /\ fill' \in [ep : EP \cup {None}, left : Seq(Section)]
      /\ fill'.ep = e
  <2>1. fill \in [ep : EP \cup {None}, left : Seq(Section)]
    BY DEF CoreTypes
  <2>2. fill' = fill \/ fill' = [fill EXCEPT !.left = Tail(@)]
    BY DEF FillNext
  <2>3. Tail(fill.left) \in Seq(Section)
    BY <1>1, <2>1
  <2> QED
    BY <2>1, <2>2, <2>3
<1>4. CoreTypes'
  BY <1>1, <1>2, <1>3 DEF CoreTypes, Idle
<1>5. {"sys", "root", "niorq"} \subseteq Section
  BY DEF Section
<1>6. ASSUME app[e] = "NISD"
      PROVE  /\ NisdFillInv'
             /\ obj'[e]["sys"] = "set" =>
                  obj'[e]["niorq"] = "set" /\ obj'[e]["root"] = "set"
             /\ obj[e]["sys"] = "set" => obj'[e]["sys"] = "set"
  <2>1. \A s \in {"sys", "root", "niorq"} : obj[e][s] = "set" => obj'[e][s] = "set"
    BY <1>2, <1>5, <1>6
  <2>2. \/ fill' = fill /\ h # "sys"
        \/ fill'.ep = e /\ fill'.left = Tail(fill.left) /\ obj'[e][h] = "set"
    BY <1>6, FillProgress
  <2>3. CASE fill.left = <<"niorq", "root", "sys">>
    <3>1. h = "niorq" /\ Tail(fill.left) = <<"root", "sys">>
      BY <2>3
    <3>2. NisdFillInv'
      BY <1>1, <1>3, <2>2, <2>3, <3>1 DEF NisdFillInv
    <3>3. obj'[e]["sys"] = obj[e]["sys"]
      BY <1>2, <1>5, <3>1
    <3> QED
      BY <1>2, <1>6, <2>1, <3>2, <3>3 DEF SysInfoLast
  <2>4. CASE fill.left = <<"root", "sys">> /\ obj[e]["niorq"] = "set"
    <3>1. h = "root" /\ Tail(fill.left) = <<"sys">>
      BY <2>4
    <3>2. NisdFillInv'
      BY <1>1, <1>3, <2>1, <2>2, <2>4, <3>1 DEF NisdFillInv
    <3>3. obj'[e]["sys"] = obj[e]["sys"]
      BY <1>2, <1>5, <3>1
    <3> QED
      BY <1>2, <1>6, <2>1, <3>2, <3>3 DEF SysInfoLast
  <2>5. CASE /\ fill.left = <<"sys">>
             /\ obj[e]["niorq"] = "set" /\ obj[e]["root"] = "set"
    <3>1. h = "sys" /\ Tail(fill.left) = <<>>
      BY <2>5
    <3>2. NisdFillInv'
      BY <1>1, <1>3, <2>2, <2>5, <3>1 DEF NisdFillInv
    <3> QED
      BY <2>1, <2>5, <3>2
  <2> QED
    BY <1>1, <1>6, <2>3, <2>4, <2>5 DEF NisdFillInv
<1>7. NisdFillInv'
  BY <1>1, <1>3, <1>6 DEF NisdFillInv
<1>8. \A f \in EP : f # e => obj'[f]["sys"] = obj[f]["sys"]
        /\ obj'[f]["niorq"] = obj[f]["niorq"] /\ obj'[f]["root"] = obj[f]["root"]
  BY <1>2, <1>5
<1>9. SysInfoLast'
  BY <1>1, <1>2, <1>6, <1>8 DEF SysInfoLast
<1>10. ReadyHolds'
  BY <1>1, <1>2, <1>6, <1>8 DEF ReadyHolds, CoreTypes
<1> QED
  BY <1>1, <1>4, <1>7, <1>9, <1>10 DEF CompleteAims, AppFits

(* When SetCtlIfOut is done the App holds the answer.                      *)
LEMMA CoreEndFill ==
  ASSUME CoreInv, EndFill
  PROVE  CoreInv'
<1> USE DEF CoreInv
<1> DEFINE e == fill.ep
<1>1. /\ fill # NoFill /\ fill.left = <<>> /\ fill' = NoFill /\ Answered(e)
      /\ ready' = ready \cup {f \in {e} : app[f] \in AppName}
      /\ UNCHANGED obj /\ UNCHANGED app
  BY DEF EndFill, Answered
<1>2. e \in EP
  BY <1>1 DEF CoreTypes
<1>3. /\ goal' \in [Writer -> {<<>>} \cup (EP \X Epstate)]
      /\ state' = state /\ CompleteAims'
  BY <1>1, <1>2, CoreAnswer
<1>4. fill' \in [ep : EP \cup {None}, left : Seq(Section)]
  BY <1>1 DEF NoFill
<1>5. CoreTypes'
  BY <1>1, <1>2, <1>3, <1>4 DEF CoreTypes
<1>6. app[e] = "NISD" => obj[e]["sys"] = "set"
  BY <1>1 DEF NisdFillInv
<1>7. ReadyHolds'
  BY <1>1, <1>2, <1>6 DEF ReadyHolds
<1>8. NisdFillInv'
  BY <1>1 DEF NisdFillInv
<1> QED
  BY <1>1, <1>3, <1>5, <1>7, <1>8 DEF AppFits, SysInfoLast

(* A readable answer to a down endpoint.                                   *)
LEMMA CoreRevive ==
  ASSUME CoreInv, NEW e \in EP, CoreRevives(e)
  PROVE  CoreInv'
<1> USE DEF CoreInv
<1>1. /\ fill = NoFill /\ Answered(e)
      /\ UNCHANGED <<app, obj, fill, ready>>
  BY DEF CoreRevives, Answered
<1>2. /\ goal' \in [Writer -> {<<>>} \cup (EP \X Epstate)]
      /\ state' = state /\ CompleteAims'
  BY <1>1, CoreAnswer
<1>3. CoreTypes'
  BY <1>1, <1>2 DEF CoreTypes
<1> QED
  BY <1>1, <1>2, <1>3 DEF NisdFillInv, AppFits, SysInfoLast, ReadyHolds

(* What ChangeState writes when it ends.                                   *)
LEMMA FinishWrites ==
  ASSUME CoreInv, NEW w \in Writer, Finish(w)
  PROVE  \E e \in EP, s \in Epstate :
           /\ goal[w] = <<e, s>>
           /\ state' = [state EXCEPT ![e] = s]
           /\ goal' = [goal EXCEPT ![w] = <<>>]
           /\ app' = app
           /\ w = "complete" => s \in {"identified", "running"}
<1>1. goal[w] \in EP \X Epstate
  BY DEF CoreInv, CoreTypes, Finish, Idle
<1>2. PICK e \in EP, s \in Epstate : goal[w] = <<e, s>>
  BY <1>1
<1>3. goal[w][1] = e /\ goal[w][2] = s /\ goal[w] # <<>>
  BY <1>2
<1>4. w = "complete" => s \in {"identified", "running"}
  BY <1>3 DEF CoreInv, CompleteAims
<1> QED
  BY <1>2, <1>3, <1>4 DEF Finish

(* The end of a ChangeState, of either side.                               *)
LEMMA CoreFinish ==
  ASSUME CoreInv, NEW w \in Writer, CoreFinishes(w)
  PROVE  CoreInv'
<1> USE DEF CoreInv
<1>1. Finish(w) /\ UNCHANGED <<obj, fill, ready>>
  BY DEF CoreFinishes
<1>2. PICK e \in EP, s \in Epstate :
           /\ goal[w] = <<e, s>>
           /\ state' = [state EXCEPT ![e] = s]
           /\ goal' = [goal EXCEPT ![w] = <<>>]
           /\ app' = app
  BY <1>1, FinishWrites
<1>3. state' \in [EP -> Epstate]
  BY <1>2 DEF CoreTypes
<1>4. goal' \in [Writer -> {<<>>} \cup (EP \X Epstate)]
  BY <1>2 DEF CoreTypes
<1>5. goal'["complete"] = <<>> \/ goal'["complete"] = goal["complete"]
  BY <1>2 DEF CoreTypes, Writer
<1>6. CoreTypes' /\ CompleteAims'
  BY <1>1, <1>2, <1>3, <1>4, <1>5 DEF CoreTypes, CompleteAims, Idle
<1> QED
  BY <1>1, <1>2, <1>6 DEF AppFits, NisdFillInv, SysInfoLast, ReadyHolds

(* The core keeps its part of the invariant.                               *)
LEMMA CoreKeeps ==
  ASSUME CoreInv, Core
  PROVE  CoreInv'
  BY CoreContainer, CoreNewApp, CoreRevive, CoreBeginFill, CoreFillNext,
     CoreEndFill, CoreFinish DEF Core


-----------------------------------------------------------------------------
(* The operation under way while the core changes endpoints.               *)

(* The types of job's fields.                                              *)
LEMMA JobFields ==
  ASSUME job \in JobRec
  PROVE  /\ job.kind \in {"none", "metrics", "v0", "tags"} /\ job.pc \in JobPC
         /\ job.todo \in SUBSET EP /\ job.ep \in EP \cup {None}
         /\ job.ask \in Asked \cup {"none"}
         /\ job.text \in [EP -> Status \cup Epstate]
         /\ job.reads \in Seq(Section)
         /\ job.of \in Seq([Section -> Presence])
         /\ job.reported \in SUBSET EP /\ job.steady \in SUBSET EP
         /\ job.replaced \in BOOLEAN
  BY DEF JobRec

(* A job that is not touched keeps its invariant when nothing it relies on *)
(* is taken away.                                                          *)
LEMMA JobStays ==
  ASSUME JobInv, job' = job, app' = app, ready \subseteq ready',
         \A f \in EP : state[f] = "running" => state'[f] = "running",
         \A f \in EP : app[f] = "NISD" /\ obj[f]["sys"] = "set"
                         => obj'[f]["sys"] = "set",
         ~MutexFree => state' = state /\ goal'["container"] = goal["container"]
  PROVE  JobInv'
<1> USE DEF JobInv
<1>1. ScrapeCovers'
  BY JobFields DEF ScrapeCovers
<1>2. ScrapeReads'
  <2> SUFFICES ASSUME job.kind = "metrics", ~job.replaced,
                      job.pc \in {"call", "parse"}, app[job.ep] = "NISD"
               PROVE  obj'[job.ep]["sys"] = "set"
    BY DEF ScrapeReads
  <2>1. job.ep \in EP
    BY DEF ScrapeCovers, OnEndpoint
  <2> QED
    BY <2>1 DEF ScrapeReads
<1>3. ReplyInv'
  BY DEF ReplyInv, MutexFree, Idle
<1>4. ReplyState'
  BY DEF ReplyState
<1> QED
  BY <1>1, <1>2, <1>3, <1>4

(* AddEp puts a new endpoint into the map; only a range over the live map  *)
(* may see it.                                                             *)
LEMMA JobFinds ==
  ASSUME CoreInv, JobInv, NEW e \in EP, CoreFinds(e)
  PROVE  JobInv'
<1> USE DEF JobInv
<1>1. /\ state[e] = "unknown" /\ state' = [state EXCEPT ![e] = "init"]
      /\ app' = app /\ goal' = goal /\ obj' = obj /\ ready' = ready /\ MutexFree
      /\ state \in [EP -> Epstate]
  BY DEF CoreFinds, Found, CoreInv, CoreTypes
<1>2. \A f \in EP : state[f] = "running" => state'[f] = "running"
  BY <1>1
<1>3. CASE job' = job
  BY <1>1, <1>2, <1>3, JobStays
<1>4. CASE job.kind = "tags" /\ job' = [job EXCEPT !.todo = @ \cup {e}]
  <2>1. /\ job' \in JobRec /\ job'.kind = "tags" /\ job'.pc = job.pc
        /\ job'.text = job.text
    BY <1>4 DEF JobRec
  <2> QED
    BY <1>4, <2>1 DEF ScrapeCovers, ScrapeReads, ReplyInv, ReplyState
<1> QED
  BY <1>3, <1>4 DEF CoreFinds

(* The other steps of the core that leave job alone.                       *)
LEMMA JobDecides ==
  ASSUME CoreInv, JobInv, NEW e \in EP,
         CoreDecides(e) \/ CoreRevives(e) \/ BeginFill(e)
  PROVE  JobInv'
<1>1. UNCHANGED <<state, app, obj, ready, job>>
  BY DEF CoreDecides, Looks, Reappears, LosesTouch, Vanishes, CoreRevives,
         Answered, BeginFill, lcVars
<1>2. ~MutexFree => goal'["container"] = goal["container"]
  BY DEF CoreDecides, CoreRevives, Answered, Aim, BeginFill, lcVars,
         CoreInv, CoreTypes, Writer
<1> QED
  BY <1>1, <1>2, JobStays

(* A section more makes nothing of what a scrape relies on go away.        *)
LEMMA JobFills ==
  ASSUME CoreInv, JobInv, FillNext \/ EndFill
  PROVE  JobInv'
<1>1. CASE FillNext
  <2>1. UNCHANGED <<state, app, goal, ready, job>>
    BY <1>1 DEF FillNext, lcVars
  <2>2. \A f \in EP : app[f] = "NISD" /\ obj[f]["sys"] = "set"
                        => obj'[f]["sys"] = "set"
    BY <1>1, FillObject DEF Section
  <2> QED
    BY <2>1, <2>2, JobStays
<1>2. CASE EndFill
  <2>1. /\ UNCHANGED <<state, app, obj, job>> /\ ready \subseteq ready'
        /\ goal' = [goal EXCEPT !["complete"] = <<fill.ep, "running">>]
    BY <1>2 DEF EndFill, Answered, Aim
  <2>2. goal'["container"] = goal["container"]
    BY <2>1 DEF CoreInv, CoreTypes, Writer
  <2> QED
    BY <2>1, <2>2, JobStays
<1> QED
  BY <1>1, <1>2

(* A ChangeState that ends takes the endpoint out of the steady ones       *)
(* unless it is running; while a reply is made it is Complete's.           *)
LEMMA JobFinishes ==
  ASSUME CoreInv, JobInv, NEW w \in Writer, CoreFinishes(w)
  PROVE  JobInv'
<1> USE DEF JobInv
<1>1. /\ Finish(w) /\ UNCHANGED <<obj, ready>>
      /\ job' = [job EXCEPT !.steady = {e \in @ : state'[e] = "running"}]
  BY DEF CoreFinishes, Seen
<1>2. PICK e \in EP, s \in Epstate :
           /\ goal[w] = <<e, s>>
           /\ state' = [state EXCEPT ![e] = s]
           /\ goal' = [goal EXCEPT ![w] = <<>>]
           /\ app' = app
           /\ w = "complete" => s \in {"identified", "running"}
  BY <1>1, FinishWrites
<1>3. /\ job' \in JobRec /\ job'.kind = job.kind /\ job'.pc = job.pc
      /\ job'.todo = job.todo /\ job'.ep = job.ep /\ job'.ask = job.ask
      /\ job'.text = job.text /\ job'.reads = job.reads /\ job'.of = job.of
      /\ job'.reported = job.reported /\ job'.replaced = job.replaced
      /\ job'.steady = {f \in job.steady : state'[f] = "running"}
  BY <1>1 DEF JobRec
<1>4. ScrapeCovers'
  BY <1>1, <1>3 DEF ScrapeCovers
<1>5. ScrapeReads'
  BY <1>1, <1>2, <1>3 DEF ScrapeReads
<1>6. ReplyInv'
  <2>1. CASE job.kind = "v0" /\ job.pc = "marshal"
    <3>1. Idle("container")
      BY <2>1 DEF ReplyInv
    <3>2. w = "complete"
      BY <1>1, <3>1 DEF Finish, Writer
    <3>3. s \in {"identified", "running"}
      BY <1>2, <3>2
    <3>4. state \in [EP -> Epstate] /\ goal \in [Writer -> {<<>>} \cup (EP \X Epstate)]
      BY DEF CoreInv, CoreTypes
    <3>5. goal'["container"] = goal["container"]
      BY <1>2, <3>2, <3>4 DEF Writer
    <3>6. Idle("container")'
      BY <3>1, <3>5 DEF Idle
    <3>7. \A f \in EP : state'[f] = IF f = e THEN s ELSE state[f]
      BY <1>2, <3>4
    <3>8. job.todo \subseteq EP
      BY JobFields
    <3> QED
      BY <1>3, <2>1, <3>3, <3>6, <3>7, <3>8 DEF ReplyInv
  <2>2. CASE ~(job.kind = "v0" /\ job.pc = "marshal")
    BY <1>3, <2>2 DEF ReplyInv
  <2> QED
    BY <2>1, <2>2
<1>7. ReplyState'
  BY <1>3 DEF ReplyState
<1> QED
  BY <1>3, <1>4, <1>5, <1>6, <1>7

(* A new App: a scrape that is at the endpoint notes it.                   *)
LEMMA JobNewApp ==
  ASSUME CoreInv, JobInv, NEW e \in EP, CoreIdentifies(e)
  PROVE  JobInv'
<1> USE DEF JobInv
<1>1. /\ state' = state /\ ready' = ready \ {e}
      /\ obj' = [obj EXCEPT ![e] = NoContent]
      /\ \A f \in EP : f # e => app'[f] = app[f]
      /\ goal'["container"] = goal["container"]
  BY DEF CoreIdentifies, Identified, Misread, Aim, CoreInv, CoreTypes, Writer
<1>2. obj[e] \in [Section -> Presence] /\ \A f \in EP : f # e => obj'[f] = obj[f]
  BY <1>1 DEF CoreInv, CoreTypes
<1>3. /\ job'.kind = job.kind /\ job'.pc = job.pc
      /\ job'.todo = job.todo /\ job'.ep = job.ep /\ job'.ask = job.ask
      /\ job'.text = job.text /\ job'.reads = job.reads
      /\ job'.reported = job.reported
      /\ job'.steady = job.steady \ {e}
      /\ job'.replaced = (job.replaced \/ job.ep = e)
      /\ job'.of = IF job.pc = "parse" /\ job.ep = e /\ job.of = <<>>
                   THEN <<obj[e]>> ELSE job.of
  BY DEF CoreIdentifies, JobRec
<1>4. job' \in JobRec
  <2>1. job'.of \in Seq([Section -> Presence])
    <3> DEFINE O == [Section -> Presence]
    <3>1. job.of \in Seq(O) /\ obj[e] \in O
      BY <1>2, JobFields
    <3> HIDE DEF O
    <3>2. <<obj[e]>> \in Seq(O)
      BY <3>1
    <3>3. job'.of \in Seq(O)
      BY <1>3, <3>1, <3>2
    <3> QED
      BY <3>3 DEF O
  <2>2. job' = [job EXCEPT !.steady = job'.steady, !.replaced = job'.replaced,
                           !.of = job'.of]
    BY <1>3 DEF CoreIdentifies, JobRec
  <2>3. job'.steady \in SUBSET EP /\ job'.replaced \in BOOLEAN
    BY <1>3, JobFields
  <2> QED
    BY <2>1, <2>2, <2>3 DEF JobRec
<1>5. ScrapeCovers'
  BY <1>1, <1>3 DEF ScrapeCovers
<1>6. ScrapeReads'
  <2> SUFFICES ASSUME job.kind = "metrics", ~job'.replaced
               PROVE  ScrapeReads'
    BY <1>3 DEF ScrapeReads
  <2>1. ~job.replaced /\ job.ep # e /\ job'.of = job.of
    BY <1>3
  <2>2. job.pc \in {"call", "parse"} => job.ep \in EP
    BY DEF ScrapeCovers, OnEndpoint
  <2>3. job.ep \in EP => app'[job.ep] = app[job.ep] /\ obj'[job.ep] = obj[job.ep]
    BY <1>1, <1>2, <2>1
  <2> QED
    BY <1>3, <2>1, <2>2, <2>3 DEF ScrapeReads
<1>7. ReplyInv'
  BY <1>1, <1>3 DEF ReplyInv, Idle
<1>8. ReplyState'
  BY <1>3 DEF ReplyState
<1> QED
  BY <1>4, <1>5, <1>6, <1>7, <1>8


-----------------------------------------------------------------------------
(* The steps of the operation itself.                                      *)

(* A new operation.                                                        *)
LEMMA JobStarts ==
  ASSUME CoreInv, Request
  PROVE  JobInv'
<1>1. /\ UNCHANGED <<state, app, goal, obj, fill, ready>> /\ InMap \subseteq EP
      /\ state \in [EP -> Epstate] /\ ready \subseteq EP
  BY DEF Request, lcVars, InMap, CoreInv, CoreTypes
<1>2. /\ NoJob.todo = {} /\ NoJob.ep = None /\ NoJob.ask = "none"
      /\ NoJob.text = NoStatus /\ NoJob.reads = <<>> /\ NoJob.of = <<>>
      /\ NoJob.reported = {} /\ NoJob.replaced = FALSE
      /\ NoStatus \in [EP -> Status]
      /\ NoStatus \in [EP -> Status \cup Epstate] /\ NoJob \in JobRec
  BY DEF NoJob, NoStatus, JobRec, JobPC, Status
<1>3. ASSUME NEW k \in {"metrics", "tags"}, Starts(k)
      PROVE  JobInv'
  <2>1. job' = [NoJob EXCEPT !.kind = k, !.pc = "next", !.todo = InMap,
                  !.steady = {e \in ready : state[e] = "running"}]
    BY <1>3 DEF Starts
  <2>2. /\ job' \in JobRec /\ job'.kind = k /\ job'.pc = "next"
        /\ job'.todo = InMap /\ job'.text = NoStatus
        /\ job'.steady = {e \in ready : state[e] = "running"}
    BY <1>1, <1>2, <2>1 DEF JobRec, JobPC
  <2>3. \A e \in job'.steady : e \in InMap
    BY <1>1, <2>2 DEF InMap
  <2> QED
    BY <1>1, <1>2, <2>2, <2>3
       DEF JobInv, ScrapeCovers, ScrapeReads, ReplyInv, ReplyState, OnEndpoint
<1>4. ASSUME NEW q \in Asked, JsonMarshal(q)
      PROVE  JobInv'
  <2> DEFINE todo == {e \in InMap : q \in {"any", state[e]}}
  <2>1. job' = [NoJob EXCEPT !.kind = "v0", !.pc = "marshal", !.ask = q,
                             !.todo = todo] /\ Idle("container")
    BY <1>4 DEF JsonMarshal
  <2>2. /\ job' \in JobRec /\ job'.kind = "v0" /\ job'.pc = "marshal"
        /\ job'.todo = todo /\ job'.ask = q
    BY <1>1, <1>2, <2>1 DEF JobRec, JobPC
  <2> QED
    BY <1>1, <2>1, <2>2
       DEF JobInv, ScrapeCovers, ScrapeReads, ReplyInv, ReplyState, Idle
<1> QED
  BY <1>3, <1>4 DEF Request, TakeSnapshot, SetTags

(* The fields of a job that goes on to p.                                  *)
LEMMA JobGoes ==
  ASSUME job \in JobRec, NEW p \in JobPC, Goes(p)
  PROVE  /\ job' \in JobRec /\ job'.pc = p /\ job'.kind = job.kind
         /\ job'.todo = job.todo /\ job'.ep = job.ep /\ job'.ask = job.ask
         /\ job'.text = job.text /\ job'.reads = job.reads /\ job'.of = job.of
         /\ job'.reported = job.reported /\ job'.steady = job.steady
         /\ job'.replaced = job.replaced
  BY DEF Goes, JobRec

(* A scrape comes to its next endpoint, or is done.                        *)
LEMMA ScrapeMoves ==
  ASSUME CoreInv, JobInv, UNCHANGED <<state, app, goal, obj, fill, ready>>,
         ScrapeDone \/ \E e \in EP : ScrapeNext(e)
  PROVE  JobInv'
<1> USE DEF JobInv
<1>1. CASE ScrapeDone
  <2>1. Goes("done") /\ job.kind = "metrics" /\ job.pc = "next" /\ job.todo = {}
    BY <1>1 DEF ScrapeDone, JobAt
  <2>2. /\ job' \in JobRec /\ job'.pc = "done" /\ job'.kind = "metrics"
        /\ job'.todo = {} /\ job'.reported = job.reported
        /\ job'.steady = job.steady
    BY <2>1, JobGoes DEF JobPC
  <2> QED
    BY <2>1, <2>2 DEF ScrapeCovers, ScrapeReads, ReplyInv, ReplyState, OnEndpoint
<1>2. ASSUME NEW e \in EP, ScrapeNext(e)
      PROVE  JobInv'
  <2>1. /\ job.kind = "metrics" /\ job.pc = "next"
        /\ job' = [job EXCEPT !.todo = @ \ {e}, !.ep = e, !.replaced = FALSE,
                     !.pc = IF state[e] = "running" THEN "labels" ELSE "next"]
    BY <1>2 DEF ScrapeNext, JobAt
  <2>2. /\ job' \in JobRec /\ job'.kind = "metrics" /\ job'.todo = job.todo \ {e}
        /\ job'.ep = e /\ job'.replaced = FALSE
        /\ job'.pc = (IF state[e] = "running" THEN "labels" ELSE "next")
        /\ job'.reported = job.reported /\ job'.steady = job.steady
    BY <2>1 DEF JobRec, JobPC
  <2> QED
    BY <2>1, <2>2 DEF ScrapeCovers, ScrapeReads, ReplyInv, ReplyState, OnEndpoint
<1> QED
  BY <1>1, <1>2

(* LoadSystemInfo skips no steady endpoint, and a NISD's never panics.     *)
LEMMA ScrapeLoads ==
  ASSUME CoreInv, JobInv, UNCHANGED <<state, app, goal, obj, fill, ready>>,
         ScrapeLabels
  PROVE  JobInv'
<1> USE DEF JobInv
<1> DEFINE e == job.ep
           r == LoadSystemInfo(app[e], obj[e])
<1>1. job.kind = "metrics" /\ job.pc = "labels" /\ e \in EP
  BY DEF ScrapeLabels, JobAt, ScrapeCovers, OnEndpoint
<1>2. app[e] \in App /\ obj[e] \in [Section -> Presence]
  BY <1>1 DEF CoreInv, CoreTypes
<1>3. /\ r \in {"labels", "skip", "panic"}
      /\ r = "labels" => app[e] # "unrecognized" /\ obj[e]["sys"] = "set"
      /\ r = "panic" => app[e] \in {"PMDB", "NCLIENT"}
      /\ r = "skip" => app[e] = "unrecognized"
                       \/ (app[e] = "NISD" /\ obj[e]["sys"] # "set")
  BY <1>2, LoadSystemInfoResult
<1>4. Goes(CASE r = "labels" -> "call" [] r = "skip" -> "next"
             [] r = "panic" -> "panicked")
  BY DEF ScrapeLabels
<1> HIDE DEF r
<1>5. CASE r = "labels"
  <2>1. Goes("call")
    BY <1>4, <1>5
  <2>2. /\ job' \in JobRec /\ job'.pc = "call" /\ job'.kind = "metrics"
        /\ job'.todo = job.todo /\ job'.ep = e
        /\ job'.reported = job.reported /\ job'.steady = job.steady
    BY <1>1, <2>1, JobGoes DEF JobPC
  <2> QED
    BY <1>1, <1>3, <1>5, <2>2
       DEF ScrapeCovers, ScrapeReads, ReplyInv, ReplyState, OnEndpoint
<1>6. CASE r = "skip"
  <2>1. Goes("next")
    BY <1>4, <1>6
  <2>2. /\ job' \in JobRec /\ job'.pc = "next" /\ job'.kind = "metrics"
        /\ job'.todo = job.todo /\ job'.ep = e
        /\ job'.reported = job.reported /\ job'.steady = job.steady
    BY <1>1, <2>1, JobGoes DEF JobPC
  <2>3. e \notin ready
    BY <1>3, <1>6 DEF CoreInv, ReadyHolds, AppName
  <2>4. e \notin job.steady
    BY <1>1, <2>3 DEF ScrapeCovers
  <2> QED
    BY <1>1, <2>2, <2>4
       DEF ScrapeCovers, ScrapeReads, ReplyInv, ReplyState, OnEndpoint
<1>7. CASE r = "panic"
  <2>1. Goes("panicked")
    BY <1>4, <1>7
  <2>2. /\ job' \in JobRec /\ job'.pc = "panicked" /\ job'.kind = "metrics"
        /\ job'.todo = job.todo /\ job'.ep = e
        /\ job'.reported = job.reported /\ job'.steady = job.steady
    BY <1>1, <2>1, JobGoes DEF JobPC
  <2>3. Kind[e] # "NISD"
    BY <1>1, <1>3, <1>7 DEF CoreInv, AppFits
  <2> QED
    BY <1>1, <2>2, <2>3
       DEF ScrapeCovers, ScrapeReads, ReplyInv, ReplyState, OnEndpoint
<1> QED
  BY <1>3, <1>5, <1>6, <1>7


(* Parse begins on the object behind App.                                  *)
LEMMA ScrapeCalls ==
  ASSUME CoreInv, JobInv, UNCHANGED <<state, app, goal, obj, fill, ready>>,
         ScrapeCall
  PROVE  JobInv'
<1> USE DEF JobInv
<1> DEFINE e == job.ep
           p == Parse(app[e], obj[e])
<1>1. job.kind = "metrics" /\ job.pc = "call" /\ e \in EP
  BY DEF ScrapeCall, JobAt, ScrapeCovers, OnEndpoint
<1>2. app[e] \in App /\ obj[e] \in [Section -> Presence]
  BY <1>1 DEF CoreInv, CoreTypes
<1>3. /\ p \in Seq(Section)
      /\ app[e] = "NISD" => \A i \in 1..Len(p) : p[i] \in {"root", "niorq", "sys"}
  BY <1>2, ParseReads
<1>4. job' = [job EXCEPT !.pc = "parse", !.of = <<>>, !.reads = p]
  BY DEF ScrapeCall
<1> HIDE DEF p
<1>5. /\ job' \in JobRec /\ job'.kind = "metrics" /\ job'.pc = "parse"
      /\ job'.of = <<>> /\ job'.reads = p /\ job'.ep = e
      /\ job'.todo = job.todo /\ job'.reported = job.reported
      /\ job'.steady = job.steady /\ job'.replaced = job.replaced
  <2>1. <<>> \in Seq([Section -> Presence])
    OBVIOUS
  <2>2. job' \in JobRec
    BY <1>3, <1>4, <2>1 DEF JobRec, JobPC
  <2> QED
    BY <1>1, <1>4, <2>2 DEF JobRec
<1>6. ScrapeCovers'
  BY <1>1, <1>5 DEF ScrapeCovers, OnEndpoint
<1>7. ScrapeReads'
  BY <1>1, <1>3, <1>5 DEF ScrapeReads
<1> QED
  BY <1>5, <1>6, <1>7 DEF ReplyInv, ReplyState

(* A NISD's Parse finds every section it takes there, unless App was       *)
(* replaced since the scrape found the endpoint running.                   *)
LEMMA ScrapeParses ==
  ASSUME CoreInv, JobInv, UNCHANGED <<state, app, goal, obj, fill, ready>>,
         ScrapeParse
  PROVE  JobInv'
<1> USE DEF JobInv
<1> DEFINE e == job.ep
           o == IF job.of = <<>> THEN obj[e] ELSE job.of[1]
<1>1. job.kind = "metrics" /\ job.pc = "parse" /\ e \in EP
  BY DEF ScrapeParse, JobAt, ScrapeCovers, OnEndpoint
<1>2. CASE job.reads = <<>>
  <2>1. job' = [job EXCEPT !.pc = "next", !.reported = @ \cup {e}]
    BY <1>2 DEF ScrapeParse
  <2>2. /\ job' \in JobRec /\ job'.kind = "metrics" /\ job'.pc = "next"
        /\ job'.todo = job.todo /\ job'.reported = job.reported \cup {e}
        /\ job'.steady = job.steady
    BY <1>1, <2>1 DEF JobRec, JobPC
  <2> QED
    BY <1>1, <2>2 DEF ScrapeCovers, ScrapeReads, ReplyInv, ReplyState, OnEndpoint
<1>3. CASE job.reads # <<>> /\ o[Head(job.reads)] = "set"
  <2>1. job' = [job EXCEPT !.reads = Tail(@)]
    BY <1>3 DEF ScrapeParse
  <2>2. job.reads \in Seq(Section) /\ Tail(job.reads) \in Seq(Section)
    BY <1>3, JobFields
  <2>3. /\ job' \in JobRec /\ job'.kind = "metrics" /\ job'.pc = "parse"
        /\ job'.reads = Tail(job.reads) /\ job'.ep = e /\ job'.of = job.of
        /\ job'.todo = job.todo /\ job'.reported = job.reported
        /\ job'.steady = job.steady /\ job'.replaced = job.replaced
    BY <1>1, <2>1, <2>2 DEF JobRec
  <2>4. \A i \in 1..Len(Tail(job.reads)) :
          i + 1 \in 1..Len(job.reads) /\ Tail(job.reads)[i] = job.reads[i + 1]
    BY <1>3, <2>2
  <2>5. ScrapeReads'
    BY <1>1, <2>3, <2>4 DEF ScrapeReads
  <2>6. ScrapeCovers'
    BY <1>1, <2>3 DEF ScrapeCovers, OnEndpoint
  <2> QED
    BY <2>3, <2>5, <2>6 DEF ReplyInv, ReplyState
<1>4. CASE job.reads # <<>> /\ o[Head(job.reads)] # "set"
  <2>1. Goes("panicked")
    BY <1>4 DEF ScrapeParse, Goes
  <2>2. /\ job' \in JobRec /\ job'.kind = "metrics" /\ job'.pc = "panicked"
        /\ job'.ep = e /\ job'.steady = job.steady
        /\ job'.replaced = job.replaced
    BY <1>1, <2>1, JobGoes DEF JobPC
  <2>3. ASSUME ~job.replaced PROVE Kind[e] # "NISD"
    <3> SUFFICES ASSUME app[e] = "NISD" PROVE FALSE
      BY <1>1, <2>3 DEF CoreInv, AppFits, ScrapeReads
    <3>1. /\ job.of = <<>> /\ obj[e]["sys"] = "set"
          /\ \A i \in 1..Len(job.reads) : job.reads[i] \in {"root", "niorq", "sys"}
      BY <1>1, <2>3 DEF ScrapeReads
    <3>2. obj[e]["niorq"] = "set" /\ obj[e]["root"] = "set"
      BY <1>1, <3>1 DEF CoreInv, SysInfoLast
    <3>3. job.reads \in Seq(Section)
      BY JobFields
    <3>4. Head(job.reads) = job.reads[1] /\ 1 \in 1..Len(job.reads)
      BY <1>4, <3>3
    <3>5. Head(job.reads) \in {"root", "niorq", "sys"}
      BY <3>1, <3>4
    <3> QED
      BY <1>4, <3>1, <3>2, <3>5
  <2> QED
    BY <1>1, <2>2, <2>3
       DEF ScrapeCovers, ScrapeReads, ReplyInv, ReplyState, OnEndpoint
<1> QED
  BY <1>2, <1>3, <1>4

(* The reply: only Complete can have changed what is read a second time.   *)
LEMMA MarshalReplies ==
  ASSUME CoreInv, JobInv, UNCHANGED <<state, app, goal, obj, fill, ready>>,
         Marshal
  PROVE  JobInv'
<1> USE DEF JobInv
<1> DEFINE t == [e \in EP |-> IF e \in job.todo THEN state[e] ELSE "none"]
<1>1. /\ job.kind = "v0" /\ job.pc = "marshal"
      /\ job' = [job EXCEPT !.pc = "done", !.text = t]
  BY DEF Marshal, JobAt
<1>2. t \in [EP -> Status \cup Epstate]
  BY DEF CoreInv, CoreTypes, Status
<1>3. \A e \in EP : t[e] = IF e \in job.todo THEN state[e] ELSE "none"
  OBVIOUS
<1> HIDE DEF t
<1>4. /\ job' \in JobRec /\ job'.kind = "v0" /\ job'.pc = "done"
      /\ job'.text = t /\ job'.ask = job.ask
  BY <1>1, <1>2 DEF JobRec, JobPC
<1> QED
  BY <1>1, <1>3, <1>4 DEF ScrapeCovers, ScrapeReads, ReplyInv, ReplyState

(* The steps of a range for the tags, and the end of an operation.         *)
LEMMA TagsMove ==
  ASSUME CoreInv, JobInv, UNCHANGED <<state, app, goal, obj, fill, ready>>,
         \/ \E e \in EP : TagNext(e)
         \/ job.kind = "tags" /\ Goes("done")
         \/ EndJob
  PROVE  JobInv'
<1> USE DEF JobInv
<1>1. ASSUME NEW e \in EP, TagNext(e)
      PROVE  JobInv'
  <2>1. /\ job.kind = "tags" /\ job.pc = "next" /\ status(e) \in {"0", "1"}
        /\ job' = [job EXCEPT !.todo = @ \ {e}, !.text[e] = status(e)]
    BY <1>1 DEF TagNext, JobAt, status
  <2>2. job.text \in [EP -> Status] /\ job \in JobRec
    BY <2>1 DEF ReplyInv
  <2>3. /\ [job.text EXCEPT ![e] = status(e)] \in [EP -> Status]
        /\ [job.text EXCEPT ![e] = status(e)] \in [EP -> Status \cup Epstate]
    BY <2>1, <2>2 DEF Status
  <2>4. /\ job' \in JobRec /\ job'.kind = "tags" /\ job'.pc = "next"
        /\ job'.text = [job.text EXCEPT ![e] = status(e)]
    BY <2>1, <2>2, <2>3 DEF JobRec
  <2> QED
    BY <2>3, <2>4 DEF ScrapeCovers, ScrapeReads, ReplyInv, ReplyState
<1>2. CASE job.kind = "tags" /\ Goes("done")
  <2>1. /\ job' \in JobRec /\ job'.kind = "tags" /\ job'.pc = "done"
        /\ job'.text = job.text
    BY <1>2, JobGoes DEF JobPC
  <2> QED
    BY <1>2, <2>1 DEF ScrapeCovers, ScrapeReads, ReplyInv, ReplyState
<1>3. CASE EndJob
  <2>1. job' = NoJob /\ NoJob.kind = "none" /\ NoJob.pc = "idle"
    BY <1>3 DEF EndJob, NoJob
  <2>2. NoJob \in JobRec
    BY DEF NoJob, NoStatus, JobRec, JobPC, Status
  <2> QED
    BY <2>1, <2>2 DEF ScrapeCovers, ScrapeReads, ReplyInv, ReplyState
<1> QED
  BY <1>1, <1>2, <1>3

-----------------------------------------------------------------------------
(* The invariant.                                                          *)

(* At the start nothing is known of any endpoint.                          *)
LEMMA CommsInit == Init => CommsInv
<1> SUFFICES ASSUME Init PROVE CommsInv
  OBVIOUS
<1>1. NoStatus \in [EP -> Status]
  BY DEF NoStatus, Status
<1>2. /\ NoJob.kind = "none" /\ NoJob.pc = "idle" /\ NoJob \in JobRec
  BY DEF NoJob, NoStatus, JobRec, JobPC, Status
<1>3. CoreInv
  <2>1. NoContent \in [Section -> Presence] /\ NoContent["sys"] = "nil"
    BY DEF NoContent, Section, Presence
  <2>2. NoFill \in [ep : EP \cup {None}, left : Seq(Section)]
    BY DEF NoFill
  <2>3. CoreTypes
    BY <2>1, <2>2 DEF Init, LcInit, CoreTypes, Epstate, App
  <2>4. goal["complete"] = <<>>
    BY DEF Init, LcInit, Writer
  <2> QED
    BY <2>1, <2>3, <2>4 DEF Init, LcInit, CoreInv, CompleteAims, AppFits,
       NisdFillInv, SysInfoLast, ReadyHolds
<1>4. JobInv
  BY <1>2 DEF Init, JobInv, ScrapeCovers, ScrapeReads, ReplyInv, ReplyState
<1> QED
  BY <1>1, <1>3, <1>4 DEF Init, CommsInv, TagTypes

(* Every step keeps the invariant.                                         *)
LEMMA CommsNext == CommsInv /\ [Next]_vars => CommsInv'
<1> SUFFICES ASSUME CommsInv, [Next]_vars PROVE CommsInv'
  OBVIOUS
<1> USE DEF CommsInv
<1>1. CASE Core
  <2>1. JobInv'
    BY <1>1, JobFinds, JobDecides, JobNewApp, JobFills, JobFinishes DEF Core
  <2>2. TagTypes'
    BY <1>1 DEF Core, CoreFinds, CoreDecides, CoreIdentifies, CoreRevives,
       BeginFill, FillNext, EndFill, CoreFinishes, commVars, TagTypes
  <2> QED
    BY <1>1, <2>1, <2>2, CoreKeeps
<1>2. ASSUME UNCHANGED <<state, app, goal, obj, fill, ready>>
      PROVE  CoreInv'
  BY <1>2 DEF CoreInv, CoreTypes, CompleteAims, AppFits, NisdFillInv,
     SysInfoLast, ReadyHolds, Idle
<1>3. CASE Request
  <2>1. UNCHANGED <<state, app, goal, obj, fill, ready>> /\ TagTypes'
    BY <1>3 DEF Request, lcVars, commVars, TagTypes
  <2> QED
    BY <1>2, <1>3, <2>1, JobStarts
<1>4. CASE JobStep
  <2>1. UNCHANGED <<state, app, goal, obj, fill, ready>> /\ TagTypes'
    BY <1>4 DEF JobStep, lcVars, commVars, TagTypes
  <2>2. JobInv'
    BY <1>4, <2>1, ScrapeMoves, ScrapeLoads, ScrapeCalls, ScrapeParses,
       MarshalReplies, TagsMove DEF JobStep, TagsRefused, JobAt
  <2> QED
    BY <1>2, <2>1, <2>2
<1>5. CASE TagsAccepted
  <2>1. /\ UNCHANGED <<state, app, goal, obj, fill, ready, gossiped, known, exit>>
        /\ job.kind = "tags" /\ Goes("done") /\ tags' = job.text
    BY <1>5 DEF TagsAccepted, JobAt, lcVars
  <2>2. TagTypes'
    BY <2>1 DEF TagTypes, JobInv, ReplyInv
  <2> QED
    BY <1>2, <2>1, <2>2, TagsMove
<1>6. ASSUME UNCHANGED <<state, app, goal, obj, fill, ready, job>>
      PROVE  JobInv'
  BY <1>6, JobStays
<1>7. CASE \/ Gossip \/ GetTags \/ UNCHANGED vars
           \/ \E e \in EP : MarkAlive(e)
  <2>1. UNCHANGED <<state, app, goal, obj, fill, ready, job>> /\ TagTypes'
    BY <1>7 DEF Gossip, GetTags, MarkAlive, vars, lcVars, commVars, TagTypes
  <2> QED
    BY <1>2, <1>6, <2>1
<1> QED
  BY <1>1, <1>3, <1>4, <1>5, <1>7 DEF Next


(* The invariant of the readers holds in every state of every behaviour.   *)
THEOREM CommsInvariant == Spec => []CommsInv
  BY CommsInit, CommsNext, PTL DEF Spec

(* Every variable of the readers keeps its type, and SetCtlIfOut never     *)
(* runs while Complete has a ChangeState under way.                        *)
THEOREM CommsTypeCorrect == Spec => []TypeOK
<1>1. CommsInv => TypeOK
  <2> SUFFICES ASSUME CommsInv PROVE TypeOK
    OBVIOUS
  <2>1. /\ DOMAIN job = DOMAIN NoJob
        /\ job.kind \in {"none", "metrics", "v0", "tags"}
        /\ job.todo \subseteq EP /\ job.ep \in EP \cup {None}
        /\ job.reported \subseteq EP /\ job.steady \subseteq EP
    BY DEF CommsInv, JobInv, JobRec, NoJob
  <2>2. fill.ep \in EP \cup {None} /\ fill.left \in Seq(Section)
    BY DEF CommsInv, CoreInv, CoreTypes
  <2> QED
    BY <2>1, <2>2 DEF CommsInv, CoreInv, CoreTypes, TagTypes, TypeOK
<1> QED
  BY <1>1, CommsInvariant, PTL

(* A reply to /v0/<state> shows an endpoint in the state asked for or just *)
(* answered: epc.mutex keeps the container's side out between the two      *)
(* reads of State, for any number of endpoints and any interleaving.       *)
THEOREM RepliesShowState == Spec => []ReplyState
<1>1. CommsInv => ReplyState
  BY DEF CommsInv, JobInv
<1> QED
  BY <1>1, CommsInvariant, PTL

(* A scrape panics on no NISD whose App is still the one it found.         *)
ScrapeSurvivesNisd ==
  job.pc = "panicked" => job.replaced \/ Kind[job.ep] # "NISD"

(* Whatever runs on the other endpoints, LoadSystemInfo and Parse of a     *)
(* NISD meet no nil and no half-written section, since SetCtlIfOut stores  *)
(* SysInfo last.                                                           *)
THEOREM NisdNeverPanics == Spec => []ScrapeSurvivesNisd
<1>1. CommsInv => ScrapeSurvivesNisd
  BY DEF CommsInv, JobInv, ScrapeReads, ReplyInv, ScrapeSurvivesNisd, JobRec
<1> QED
  BY <1>1, CommsInvariant, PTL

(* What a scrape that comes to its end has reported.                       *)
ScrapeIsComplete ==
  job.kind = "metrics" /\ job.pc = "done" => job.steady \subseteq job.reported

(* A scrape that comes to its end has left out no endpoint that was        *)
(* running with an answer taken throughout, whatever the applications.     *)
THEOREM DoneScrapeIsComplete == Spec => []ScrapeIsComplete
<1>1. CommsInv => ScrapeIsComplete
  BY DEF CommsInv, JobInv, ScrapeCovers, ScrapeIsComplete, OnEndpoint
<1> QED
  BY <1>1, CommsInvariant, PTL

(* With NISDs only, no scrape panics unless an App is replaced under it.   *)
(* (A PMDB makes every scrape of a running one panic, and an NCLIENT that  *)
(* has not yet given its first answer may make one.)                       *)
THEOREM NisdScrapeSurvives ==
  ASSUME \A e \in EP : Kind[e] = "NISD"
  PROVE  Spec => []ScrapeSurvives
<1>1. CommsInv => ScrapeSurvives
  BY DEF CommsInv, JobInv, ScrapeReads, ReplyInv, JobRec, ScrapeSurvives
<1> QED
  BY <1>1, CommsInvariant, PTL

(* With NISDs only, a scrape reports all active endpoints: one that ends,  *)
(* or panics on an App that is the one it found, has left out none.        *)
THEOREM NisdScrapeReportsAll ==
  ASSUME \A e \in EP : Kind[e] = "NISD"
  PROVE  Spec => []AllActiveReported
<1>1. CommsInv => AllActiveReported
  BY DEF CommsInv, JobInv, ScrapeCovers, ScrapeReads, ReplyInv, JobRec,
     OnEndpoint, AllActiveReported
<1> QED
  BY <1>1, CommsInvariant, PTL


-----------------------------------------------------------------------------
(* What the readers see of the core is a behaviour of Lifecycle, which     *)
(* Lookout is proved to implement: taking Complete's update apart adds no  *)
(* change of State or App that the core cannot make.                       *)
THEOREM CoreIsLifecycle == Spec => LcSpec
<1>1. Init => LcInit
  BY DEF Init
<1>2. CommsInv /\ [Next]_vars => [LcNext]_lcVars
  <2> SUFFICES ASSUME CommsInv, Next PROVE LcNext \/ UNCHANGED lcVars
    BY DEF vars, lcVars
  <2>1. CASE Core
    <3>1. ASSUME NEW e \in EP, CoreFinds(e) \/ CoreDecides(e)
                                 \/ CoreIdentifies(e) \/ CoreRevives(e)
          PROVE  LcNext
      BY <3>1 DEF CoreFinds, CoreDecides, CoreIdentifies, CoreRevives, LcNext
    <3>2. CASE FillNext \/ \E e \in EP : BeginFill(e)
      BY <3>2 DEF FillNext, BeginFill
    <3>3. CASE EndFill
      <4>1. fill.ep \in EP
        BY <3>3 DEF EndFill, CommsInv, CoreInv, CoreTypes
      <4> QED
        BY <3>3, <4>1 DEF EndFill, LcNext
    <3>4. ASSUME NEW w \in Writer, CoreFinishes(w)
          PROVE  LcNext
      BY <3>4 DEF CoreFinishes, LcNext
    <3> QED
      BY <2>1, <3>1, <3>2, <3>3, <3>4 DEF Core
  <2>2. CASE ~Core
    BY <2>2 DEF Next, Request, JobStep, TagsAccepted, Gossip, GetTags, MarkAlive
  <2> QED
    BY <2>1, <2>2
<1> QED
  BY <1>1, <1>2, CommsInvariant, PTL DEF Spec, LcSpec

-----------------------------------------------------------------------------
(* The report of metrics.                                                  *)

(* A finite set of bounds can be put in ascending order: its least element *)
(* first, then the others.                                                 *)
LEMMA AscendingExists ==
  ASSUME NEW S \in SUBSET Nat, IsFiniteSet(S)
  PROVE  \E s \in [1..Cardinality(S) -> S] : Ascends(s)
  <1> DEFINE T == {r \in SUBSET S : \E s \in [1..Cardinality(r) -> r] : Ascends(s)}
  <1>1. ASSUME NEW r \in SUBSET S, \A x \in r : r \ {x} \in T PROVE r \in T
    <2>1. CASE r = {}
      <3>1. Cardinality(r) = 0
        BY <2>1, FS_EmptySet
      <3> DEFINE s == [i \in 1..0 |-> 0]
      <3>2. s \in [1..Cardinality(r) -> r] /\ Ascends(s)
        BY <3>1 DEF Ascends
      <3> QED
        BY <3>2
    <2>2. CASE r # {}
      <3>1. r \in SUBSET Nat
        OBVIOUS
      <3>2. PICK m \in r : \A x \in r : m <= x
        BY <2>2, <3>1, LeastNat
      <3> DEFINE q == r \ {m}
                 n == Cardinality(q)
      <3>3. IsFiniteSet(r) /\ IsFiniteSet(q)
        BY FS_Subset
      <3>4. n \in Nat /\ Cardinality(r) = n + 1
        <4>1. n \in Nat /\ Cardinality(r) \in Nat
          BY <3>3, FS_CardinalityType
        <4>2. n = Cardinality(r) - 1
          BY <3>3, FS_RemoveElement
        <4> HIDE DEF n
        <4> QED
          BY <4>1, <4>2
      <3>5. PICK s \in [1..n -> q] : Ascends(s)
        BY <1>1
      <3> HIDE DEF n
      <3> DEFINE t == [i \in 1..(n + 1) |-> IF i = 1 THEN m ELSE s[i - 1]]
      <3>6. \A i \in 1..(n + 1) : i # 1 => i - 1 \in 1..n /\ s[i - 1] \in q
        BY <3>4
      <3>7. t \in [1..(n + 1) -> r]
        BY <3>6
      <3>8. Ascends(t)
        <4> SUFFICES ASSUME NEW i \in 1..(n + 1), NEW j \in 1..(n + 1), i < j
                     PROVE  t[i] < t[j]
          BY <3>7 DEF Ascends
        <4>1. j # 1 /\ j - 1 \in 1..n /\ t[j] = s[j - 1] /\ s[j - 1] \in q
          BY <3>4, <3>6
        <4>2. CASE i = 1
          <5>1. t[i] = m /\ m <= s[j - 1] /\ m # s[j - 1]
            BY <3>2, <3>4, <4>1, <4>2
          <5>2. m \in Nat /\ s[j - 1] \in Nat
            BY <4>1
          <5> HIDE DEF t
          <5> QED
            BY <4>1, <5>1, <5>2
        <4>3. CASE i # 1
          <5>1. i - 1 \in 1..n /\ t[i] = s[i - 1] /\ i - 1 < j - 1
            BY <3>4, <3>6, <4>3
          <5> QED
            BY <3>5, <4>1, <5>1 DEF Ascends
        <4> QED
          BY <4>2, <4>3
      <3> HIDE DEF t
      <3> QED
        BY <3>4, <3>7, <3>8
    <2> QED
      BY <2>1, <2>2
  <1>2. T \in SUBSET SUBSET S
    OBVIOUS
  <1> HIDE DEF T
  <1>3. T = SUBSET S
    BY <1>1, <1>2, SubsetInduct
  <1> QED
    BY <1>3 DEF T

(* sort.Ints yields every bound, in ascending order.                       *)
LEMMA AscendingOrder ==
  ASSUME NEW S \in SUBSET Nat, IsFiniteSet(S)
  PROVE  LET s == Ascending(S) n == Cardinality(S)
         IN /\ n \in Nat /\ s \in [1..n -> S]
            /\ \A i, j \in 1..n : i < j => s[i] < s[j]
            /\ \A x \in S : \E i \in 1..n : s[i] = x
  <1> DEFINE n == Cardinality(S)
             s == Ascending(S)
  <1>1. n \in Nat
    BY FS_CardinalityType
  <1>2. s \in [1..n -> S] /\ Ascends(s)
    BY AscendingExists DEF Ascending
  <1>3. \A i, j \in 1..n : i < j => s[i] < s[j]
    BY <1>2 DEF Ascends
  <1> HIDE DEF s
  <1>4. s \in Injection(1..n, S)
    <2> SUFFICES ASSUME NEW i \in 1..n, NEW j \in 1..n, s[i] = s[j] PROVE i = j
      BY <1>2 DEF Injection, IsInjective
    <2>1. ~(i < j) /\ ~(j < i)
      <3>1. s[i] \in Nat /\ s[j] \in Nat
        BY <1>2
      <3> QED
        BY <1>3, <3>1
    <2> QED
      BY <1>1, <2>1
  <1>5. IsFiniteSet(1..n) /\ Cardinality(1..n) = Cardinality(S)
    BY <1>1, FS_Interval
  <1>6. s \in Surjection(1..n, S)
    <2> HIDE DEF n
    <2> QED
      BY <1>4, <1>5, FS_Injection
  <1>7. \A x \in S : \E i \in 1..n : s[i] = x
    BY <1>6 DEF Surjection
  <1> QED
    BY <1>1, <1>2, <1>3, <1>7 DEF s

(* The total of the buckets that are not empty is the total of all.        *)
LEMMA CountIsSum ==
  ASSUME NEW B, IsFiniteSet(B), NEW h \in [B -> Nat]
  PROVE  totalObservation(h) = FoldFunction(LAMBDA a, b : a + b, 0, h)
  <1> DEFINE E == {b \in B : h[b] # 0}
             k == parseHistogram(h)
  <1>1. IsFiniteSet(E) /\ E \in SUBSET B
    BY FS_Subset
  <1>2. k \in [E -> Nat] /\ \A x \in E : k[x] = h[x]
    BY DEF parseHistogram
  <1> HIDE DEF k
  <1>3. \A x \in B \ E : h[x] = 0
    OBVIOUS
  <1> HIDE DEF E
  <1>4. PICK g : /\ Total(g, B, h)
                 /\ g[B] = FoldFunction(LAMBDA a, b : a + b, 0, h)
    BY FoldIsTotal
  <1>5. PICK f : /\ Total(f, E, k)
                 /\ f[E] = FoldFunction(LAMBDA a, b : a + b, 0, k)
    BY <1>1, <1>2, FoldIsTotal
  <1>n. Nonzero(E, k, B, h)
    BY <1>1, <1>2, <1>3 DEF Nonzero
  <1>t. Total(g, B, h) /\ Total(f, E, k)
    BY <1>4, <1>5
  <1>6. f[E] = g[B]
    BY ONLY <1>n, <1>t, TotalOfNonzero
  <1>7. totalObservation(h) = FoldFunction(LAMBDA a, b : a + b, 0, k)
    BY DEF totalObservation, k
  <1> QED
    BY <1>4, <1>5, <1>6, <1>7

(* p is the report of histogram h: a sample for each of the n bounds in s, *)
(* which are those of E, then the count.                                   *)
Reports(p, n, s, E, m, l, h, sum) ==
  /\ p \in Seq({p[i] : i \in 1..(n + 1)})
  /\ n \in Nat /\ Len(p) = n + 1
  /\ s \in [1..n -> E]
  /\ \A i, j \in 1..n : i < j => s[i] < s[j]
  /\ \A x \in E : \E i \in 1..n : s[i] = x
  /\ \A i \in 1..n : p[i] = Sample(<<m, "bucket">>, s[i], l, h[s[i]])
  /\ p[n + 1] = Sample(<<m, "count">>, NoBound, {}, sum)

(* makePromHistogram reports the buckets that are not empty, and the sum.  *)
LEMMA HistogramSamples ==
  ASSUME NEW B \in SUBSET Nat, IsFiniteSet(B), NEW h \in [B -> Nat],
         NEW m, NEW l
  PROVE  \E n, s :
           Reports(makePromHistogram(m, l, h), n, s, {b \in B : h[b] # 0},
                   m, l, h, FoldFunction(LAMBDA a, b : a + b, 0, h))
  <1> DEFINE E == {b \in B : h[b] # 0}
             n == Cardinality(E)
             s == Ascending(E)
             k == parseHistogram(h)
             q == [i \in DOMAIN s |-> Sample(<<m, "bucket">>, s[i], l, k[s[i]])]
             c == Sample(<<m, "count">>, NoBound, {}, totalObservation(h))
             p == makePromHistogram(m, l, h)
  <1>1. /\ n \in Nat /\ s \in [1..n -> E]
        /\ \A i, j \in 1..n : i < j => s[i] < s[j]
        /\ \A x \in E : \E i \in 1..n : s[i] = x
    <2>1. E \in SUBSET Nat /\ IsFiniteSet(E)
      BY FS_Subset
    <2> HIDE DEF E
    <2> QED
      BY <2>1, AscendingOrder
  <1>2. DOMAIN k = E /\ \A b \in E : k[b] = h[b]
    BY DEF parseHistogram
  <1>3. p = Append(q, c)
    BY <1>2 DEF makePromHistogram
  <1>4. totalObservation(h) = FoldFunction(LAMBDA a, b : a + b, 0, h)
    BY CountIsSum
  <1> HIDE DEF k, s, E, p
  <1> DEFINE Q == {q[i] : i \in 1..n} \cup {c}
  <1>5. q \in [1..n -> Q]
    BY <1>1
  <1>6. c \in Q
    OBVIOUS
  <1>7. \A i \in 1..n : q[i] = Sample(<<m, "bucket">>, s[i], l, h[s[i]])
    BY <1>1, <1>2
  <1> HIDE DEF q, Q, n, c
  <1>8. q \in Seq(Q) /\ Len(q) = n
    BY <1>1, <1>5
  <1>9. /\ p \in Seq(Q) /\ Len(p) = n + 1
        /\ \A i \in 1..n : p[i] = q[i]
        /\ p[n + 1] = c
    BY <1>3, <1>6, <1>8, AppendProperties
  <1>10. p \in Seq({p[i] : i \in 1..(n + 1)})
    BY <1>1, <1>9
  <1> DEFINE sum == FoldFunction(LAMBDA a, b : a + b, 0, h)
  <1>11. c = Sample(<<m, "count">>, NoBound, {}, sum)
    BY <1>4 DEF c
  <1> HIDE DEF sum
  <1>12. Reports(p, n, s, E, m, l, h, sum)
    BY <1>1, <1>7, <1>9, <1>10, <1>11 DEF Reports
  <1> QED
    BY <1>12 DEF sum, E, p

(* The recursion of FlattenSeq over three lists.                           *)
LEMMA FlattenSteps ==
  ASSUME NEW q, NEW f,
         f = [i \in 1..3 |-> IF i = 1 THEN q[i] ELSE f[i - 1] \o q[i]]
  PROVE  f[1] = q[1] /\ f[2] = f[1] \o q[2] /\ f[3] = f[2] \o q[3]
  <1>1. \A i \in 1..3 : f[i] = IF i = 1 THEN q[i] ELSE f[i - 1] \o q[i]
    OBVIOUS
  <1>2. 2 \in 1..3 /\ 2 # 1 /\ 2 - 1 = 1
    OBVIOUS
  <1>3. 3 \in 1..3 /\ 3 # 1 /\ 3 - 1 = 2
    OBVIOUS
  <1>4. f[2] = f[2 - 1] \o q[2]
    BY ONLY <1>1, <1>2
  <1>5. f[3] = f[3 - 1] \o q[3]
    BY ONLY <1>1, <1>3
  <1>6. f[1] = q[1]
    OBVIOUS
  <1> QED
    BY ONLY <1>2, <1>3, <1>4, <1>5, <1>6

(* FlattenSeq of three lists, the last one of which is empty.              *)
LEMMA FlattenThree ==
  ASSUME NEW S, NEW a \in Seq(S), NEW b \in Seq(S)
  PROVE  FlattenSeq(<<a, b, <<>>>>) = a \o b
  <1> DEFINE q == <<a, b, <<>>>>
             Eq(f) == f = [i \in 1..Len(q) |->
                             IF i = 1 THEN q[i] ELSE f[i - 1] \o q[i]]
             g == [i \in 1..3 |-> IF i = 1 THEN a ELSE
                                 IF i = 2 THEN a \o b ELSE (a \o b) \o <<>>]
             f == CHOOSE e : Eq(e)
  <1>1. Len(q) = 3 /\ q[1] = a /\ q[2] = b /\ q[3] = <<>>
    OBVIOUS
  <1>2. FlattenSeq(q) = f[3]
    BY <1>1 DEF FlattenSeq
  <1> HIDE DEF f, q
  <1>3. Eq(g)
    <2>1. g[1] = q[1] /\ g[2] = g[1] \o q[2] /\ g[3] = g[2] \o q[3]
      BY <1>1
    <2>2. g = [i \in 1..3 |-> g[i]]
      OBVIOUS
    <2> HIDE DEF g
    <2>3. ASSUME NEW i \in 1..3
          PROVE  g[i] = IF i = 1 THEN q[i] ELSE g[i - 1] \o q[i]
      <3>1. CASE i = 1
        BY <2>1, <3>1
      <3>2. CASE i = 2
        <4>1. i # 1 /\ i - 1 = 1
          BY <3>2
        <4> QED
          BY ONLY <2>1, <3>2, <4>1
      <3>3. CASE i = 3
        <4>1. i # 1 /\ i - 1 = 2
          BY <3>3
        <4> QED
          BY ONLY <2>1, <3>3, <4>1
      <3> QED
        BY <3>1, <3>2, <3>3
    <2>4. g = [i \in 1..3 |-> IF i = 1 THEN q[i] ELSE g[i - 1] \o q[i]]
      BY ONLY <2>2, <2>3
    <2> QED
      BY <1>1, <2>4
  <1>4. Eq(f)
    <2> HIDE DEF Eq, g
    <2>1. \E e : Eq(e)
      BY <1>3
    <2> QED
      BY <2>1 DEF f
  <1>5. f[1] = a /\ f[2] = f[1] \o b /\ f[3] = f[2] \o <<>>
    <2>1. f = [i \in 1..3 |-> IF i = 1 THEN q[i] ELSE f[i - 1] \o q[i]]
      BY <1>1, <1>4
    <2>2. f[1] = q[1] /\ f[2] = f[1] \o q[2] /\ f[3] = f[2] \o q[3]
      BY ONLY <2>1, FlattenSteps
    <2> QED
      BY ONLY <1>1, <2>2
  <1>6. a \o b \in Seq(S) /\ (a \o b) \o <<>> = a \o b
    OBVIOUS
  <1> QED
    BY <1>2, <1>5, <1>6 DEF q

(* A report loses nothing, for every set of bounds and every greatest      *)
(* count.                                                                  *)
LEMMA Lossless ==
  ASSUME NEW B \in SUBSET Nat, IsFiniteSet(B), NEW n \in Nat
  PROVE  LosslessOn(B, n)
  <1> DEFINE l == {"uuid"}
             fields(h, v) == <<[type |-> "gauge", metric |-> "g", value |-> v],
                               [type |-> "histogram", metric |-> "h", value |-> h],
                               [type |-> "", metric |-> "u", value |-> v]>>
             Sum(h) == FoldFunction(LAMBDA a, b : a + b, 0, h)
  <1> SUFFICES ASSUME NEW h \in [B -> 0..n], NEW v \in 0..n
               PROVE  LET out     == GenericPromDataParser(fields(h, v), l)
                          buckets == {i \in DOMAIN out : out[i].name = <<"h", "bucket">>}
                          read(b) == {out[i].value : i \in {j \in buckets : out[j].ge = b}}
                      IN /\ IsInjective(out)
                         /\ \A i, j \in buckets : i < j => out[i].ge < out[j].ge
                         /\ \A b \in B : read(b) = IF h[b] = 0 THEN {} ELSE {h[b]}
                         /\ \A i \in buckets : out[i].labels = l
                         /\ {out[i] : i \in DOMAIN out \ buckets} =
                              {Sample(<<"g">>, NoBound, l, v),
                               Sample(<<"h", "count">>, NoBound, {}, Sum(h))}
    BY DEF LosslessOn
  <1>1. h \in [B -> Nat]
    OBVIOUS
  <1> DEFINE p == makePromHistogram("h", l, h)
             g == Sample(<<"g">>, NoBound, l, v)
             out == GenericPromDataParser(fields(h, v), l)
  <1> HIDE DEF l
  <1>2. out = FlattenSeq(<<<<g>>, p, <<>>>>)
    <2> DEFINE F == fields(h, v)
    <2>1. DOMAIN F = 1..3
      OBVIOUS
    <2>2. samples(F[1], l) = <<g>>
      BY DEF samples
    <2>3. samples(F[2], l) = p
      BY DEF samples
    <2>4. samples(F[3], l) = <<>>
      BY DEF samples
    <2> HIDE DEF F, g, p
    <2>5. [i \in DOMAIN F |-> samples(F[i], l)] = <<<<g>>, p, <<>>>>
      BY <2>1, <2>2, <2>3, <2>4
    <2> QED
      BY <2>5 DEF GenericPromDataParser, F
  <1> DEFINE E == {b \in B : h[b] # 0}
             sum == Sum(h)
             c == Sample(<<"h", "count">>, NoBound, {}, sum)
  <1>a. PICK m, s : Reports(p, m, s, E, "h", l, h, sum)
    BY <1>1, HistogramSamples
  <1> HIDE DEF sum, p, E
  <1>3. /\ p \in Seq({p[i] : i \in 1..(m + 1)})
        /\ m \in Nat /\ Len(p) = m + 1
        /\ s \in [1..m -> E]
        /\ \A i, j \in 1..m : i < j => s[i] < s[j]
        /\ \A x \in E : \E i \in 1..m : s[i] = x
        /\ \A i \in 1..m : p[i] = Sample(<<"h", "bucket">>, s[i], l, h[s[i]])
        /\ p[m + 1] = c
    BY <1>a DEF Reports
  <1> HIDE DEF out, g, c
  <1>4. /\ out = <<g>> \o p
        /\ DOMAIN out = 1..(m + 2)
        /\ out[1] = g
        /\ \A i \in 2..(m + 2) : out[i] = p[i - 1]
    <2> DEFINE S == {p[i] : i \in 1..(m + 1)} \cup {g}
    <2>1. p \in Seq(S) /\ <<g>> \in Seq(S)
      BY <1>3
    <2>2. out = <<g>> \o p
      BY <1>2, <2>1, FlattenThree
    <2> HIDE DEF S
    <2>3. Len(out) = m + 2
      BY <1>3, <2>1, <2>2
    <2>4. out \in Seq(S)
      BY <2>1, <2>2
    <2>5. \A i \in 2..(m + 2) : out[i] = p[i - 1]
      BY <1>3, <2>1, <2>2
    <2> QED
      BY <1>3, <2>1, <2>2, <2>3, <2>4, <2>5
  <1>5. /\ g.name # <<"h", "bucket">>
        /\ c.name # <<"h", "bucket">>
    BY DEF g, c, Sample
  <1>6. ASSUME NEW i \in 2..(m + 1)
        PROVE  /\ i - 1 \in 1..m /\ out[i].name = <<"h", "bucket">>
               /\ out[i].ge = s[i - 1] /\ out[i].labels = l
               /\ out[i].value = h[s[i - 1]]
    <2>1. i - 1 \in 1..m /\ i \in 2..(m + 2)
      BY <1>3
    <2>2. out[i] = Sample(<<"h", "bucket">>, s[i - 1], l, h[s[i - 1]])
      BY <1>3, <1>4, <2>1
    <2> QED
      BY <2>1, <2>2 DEF Sample
  <1>7. out[m + 2] = c
    <2>1. m + 2 \in 2..(m + 2) /\ (m + 2) - 1 = m + 1
      BY <1>3
    <2> QED
      BY <1>3, <1>4, <2>1
  <1> DEFINE buckets == {i \in DOMAIN out : out[i].name = <<"h", "bucket">>}
  <1>8. 1..(m + 2) = (2..(m + 1)) \cup {1, m + 2} /\ {1, m + 2} \cap 2..(m + 1) = {}
    BY <1>3
  <1>9. buckets = 2..(m + 1)
    <2> DEFINE I == 2..(m + 1)
               name == <<"h", "bucket">>
    <2>1. DOMAIN out = I \cup {1, m + 2} /\ {1, m + 2} \cap I = {}
      BY <1>4, <1>8
    <2>2. \A i \in I : out[i].name = name
      BY <1>6
    <2>3. out[1].name # name /\ out[m + 2].name # name
      BY <1>4, <1>5, <1>7
    <2> HIDE DEF I, name
    <2>4. {i \in DOMAIN out : out[i].name = name} = I
      BY ONLY <2>1, <2>2, <2>3
    <2> QED
      BY <2>4 DEF I, name
  <1>10. \A i, j \in buckets : i < j => out[i].ge < out[j].ge
    <2> SUFFICES ASSUME NEW i \in 2..(m + 1), NEW j \in 2..(m + 1), i < j
                 PROVE  out[i].ge < out[j].ge
      BY <1>9
    <2>1. /\ i - 1 \in 1..m /\ j - 1 \in 1..m /\ i - 1 < j - 1
          /\ out[i].ge = s[i - 1] /\ out[j].ge = s[j - 1]
      BY <1>3, <1>6
    <2> QED
      BY <1>3, <2>1
  <1>11. \A i \in buckets : out[i].labels = l
    BY <1>6, <1>9
  <1>12. {out[i] : i \in DOMAIN out \ buckets} = {g, c}
    BY <1>4, <1>7, <1>8, <1>9
  <1>13. ASSUME NEW b \in B
         PROVE  {out[i].value : i \in {j \in buckets : out[j].ge = b}} =
                  IF h[b] = 0 THEN {} ELSE {h[b]}
    <2>1. \A i \in buckets : out[i].ge = b => h[b] # 0 /\ out[i].value = h[b]
      <3> SUFFICES ASSUME NEW i \in 2..(m + 1), out[i].ge = b
                   PROVE  h[b] # 0 /\ out[i].value = h[b]
        BY <1>9
      <3>1. i - 1 \in 1..m /\ s[i - 1] = b /\ out[i].value = h[b]
        BY <1>6
      <3>2. b \in E
        BY <1>3, <3>1
      <3> QED
        BY <3>1, <3>2 DEF E
    <2>2. h[b] # 0 => \E i \in buckets : out[i].ge = b
      <3> SUFFICES ASSUME h[b] # 0 PROVE \E i \in 2..(m + 1) : out[i].ge = b
        BY <1>9
      <3>1. b \in E
        BY DEF E
      <3>2. PICK k \in 1..m : s[k] = b
        BY <1>3, <3>1
      <3>3. k + 1 \in 2..(m + 1) /\ (k + 1) - 1 = k
        BY <1>3
      <3>4. out[k + 1].ge = b
        BY <1>6, <3>2, <3>3
      <3> QED
        BY <3>3, <3>4
    <2> HIDE DEF buckets
    <2> QED
      BY <2>1, <2>2
  <1>14. IsInjective(out)
    <2> SUFFICES ASSUME NEW i \in DOMAIN out, NEW j \in DOMAIN out,
                        out[i] = out[j], i # j
                 PROVE  FALSE
      BY DEF IsInjective
    <2>1. g # c
      <3>1. g.name = <<"g">> /\ c.name = <<"h", "count">>
        BY DEF g, c, Sample
      <3> QED
        BY <3>1
    <2>2. \A k \in DOMAIN out : k \in 2..(m + 1) \/ k = 1 \/ k = m + 2
      BY <1>4, <1>8
    <2>3. CASE i \in buckets /\ j \in buckets
      <3>1. /\ i - 1 \in 1..m /\ j - 1 \in 1..m /\ i \in Int /\ j \in Int
            /\ out[i].ge = s[i - 1] /\ out[j].ge = s[j - 1]
        BY <1>6, <1>9, <2>3
      <3>2. s[i - 1] \in Nat /\ s[j - 1] \in Nat
        BY <1>3, <3>1 DEF E
      <3>3. ~(i < j) /\ ~(j < i)
        BY <1>10, <2>3, <3>1, <3>2
      <3> QED
        BY <3>1, <3>3
    <2>4. CASE ~(i \in buckets /\ j \in buckets)
      <3>1. i \notin buckets /\ j \notin buckets
        BY <2>4
      <3>2. (i = 1 /\ j = m + 2) \/ (i = m + 2 /\ j = 1)
        BY <1>9, <2>2, <3>1
      <3> QED
        BY <1>4, <1>7, <2>1, <3>2
    <2> QED
      BY <2>3, <2>4
  <1> HIDE DEF buckets
  <1> QED
    BY <1>10, <1>11, <1>12, <1>13, <1>14 DEF buckets, out, g, c, sum

(* What is reported of a struct can be read back from the samples, for     *)
(* every finite set of bounds and every count.                             *)
THEOREM ReportsAreLossless == Spec => []MetricsLossless
<1>1. LosslessReports
  BY ReportAssumption, Lossless DEF LosslessReports
<1>2. TRUE => MetricsLossless
  BY <1>1 DEF MetricsLossless
<1> QED
  BY <1>2, PTL



-----------------------------------------------------------------------------
(* The PMDBs.                                                              *)

(* A PMDB keeps no SysInfo of any answer, a scrape does not get past its   *)
(* labels, and so does not report it.                                      *)
PmdbInv ==
  /\ \A e \in EP : Kind[e] = "PMDB" => obj[e]["sys"] = "nil"
  /\ fill # NoFill /\ Kind[fill.ep] = "PMDB" => fill.left \in {<<>>, <<"raft">>}
  /\ job.pc \in {"call", "parse"} => Kind[job.ep] # "PMDB"
  /\ \A e \in job.reported : Kind[e] # "PMDB"

(* What a scrape has reported.                                             *)
NoPmdbReported == \A e \in job.reported : Kind[e] # "PMDB"

(* The invariant is about these four fields only.                          *)
LEMMA PmdbStays ==
  ASSUME PmdbInv, obj' = obj, fill' = fill \/ fill' = NoFill,
         \/ job'.pc = job.pc /\ job'.ep = job.ep
         \/ job'.pc \notin {"call", "parse"},
         job'.reported \subseteq job.reported
  PROVE  PmdbInv'
  BY DEF PmdbInv

(* SetCtlIfOut of a PMDB takes over one section, which is not SysInfo.     *)
LEMMA PmdbFills ==
  ASSUME CommsInv, PmdbInv, NEW e \in EP, BeginFill(e)
  PROVE  PmdbInv'
<1>1. /\ obj' = obj /\ job' = job
      /\ fill' = [ep |-> e, left |-> SetCtlIfOut(app[e])]
  BY DEF BeginFill
<1>2. ASSUME Kind[e] = "PMDB"
      PROVE  SetCtlIfOut(app[e]) \in {<<>>, <<"raft">>}
  <2>1. app[e] \in {"PMDB", "unrecognized"}
    BY <1>2 DEF CommsInv, CoreInv, AppFits
  <2>2. CASE app[e] = "PMDB"
    BY <2>2 DEF SetCtlIfOut, PmdbSetCtlIfOut
  <2>3. CASE app[e] = "unrecognized"
    BY <2>3 DEF SetCtlIfOut
  <2> QED
    BY <2>1, <2>2, <2>3
<1> DEFINE l == SetCtlIfOut(app[e])
<1>3. fill'.ep = e /\ fill'.left = l
  BY <1>1
<1> HIDE DEF l
<1>4. Kind[e] = "PMDB" => l \in {<<>>, <<"raft">>}
  BY <1>2 DEF l
<1> QED
  BY <1>1, <1>3, <1>4 DEF PmdbInv

(* A store of SetCtlIfOut leaves SysInfo of every PMDB as it is.           *)
LEMMA PmdbStores ==
  ASSUME CommsInv, PmdbInv, FillNext
  PROVE  PmdbInv'
<1>1. job' = job /\ fill # NoFill /\ fill.left # <<>>
  BY DEF FillNext
<1>2. \/ fill' = fill
      \/ fill'.ep = fill.ep /\ fill'.left = Tail(fill.left)
  <2>1. DOMAIN fill = {"ep", "left"}
    BY DEF CommsInv, CoreInv, CoreTypes
  <2>2. fill' = fill \/ fill' = [fill EXCEPT !.left = Tail(fill.left)]
    BY DEF FillNext
  <2>3. CASE fill' = [fill EXCEPT !.left = Tail(fill.left)]
    BY <2>1, <2>3
  <2> QED
    BY <2>2, <2>3
<1>3. /\ fill.ep \in EP
      /\ \A f \in EP : f # fill.ep \/ "sys" # Head(fill.left)
                         => obj'[f]["sys"] = obj[f]["sys"]
  BY FillObject DEF CommsInv, Section
<1>4. CASE Kind[fill.ep] = "PMDB"
  <2>1. fill.left = <<"raft">>
    BY <1>1, <1>4 DEF PmdbInv
  <2>2. Head(fill.left) = "raft" /\ Tail(fill.left) = <<>>
    BY <2>1
  <2>3. \A f \in EP : Kind[f] = "PMDB" => obj'[f]["sys"] = "nil"
    BY <1>3, <2>2 DEF PmdbInv
  <2>4. fill'.left \in {<<>>, <<"raft">>}
    BY <1>2, <2>1, <2>2
  <2> QED
    BY <1>1, <2>3, <2>4 DEF PmdbInv
<1>5. CASE Kind[fill.ep] # "PMDB"
  <2>1. \A f \in EP : Kind[f] = "PMDB" => obj'[f]["sys"] = "nil"
    BY <1>3, <1>5 DEF PmdbInv
  <2>2. fill'.ep = fill.ep
    BY <1>2
  <2> QED
    BY <1>1, <1>5, <2>1, <2>2 DEF PmdbInv
<1> QED
  BY <1>4, <1>5

(* A new App is empty.                                                     *)
LEMMA PmdbNewApp ==
  ASSUME CommsInv, PmdbInv, NEW e \in EP, CoreIdentifies(e)
  PROVE  PmdbInv'
<1>1. fill' = fill /\ obj' = [obj EXCEPT ![e] = NoContent]
  BY DEF CoreIdentifies
<1>2. job'.pc = job.pc /\ job'.ep = job.ep /\ job'.reported = job.reported
  BY DEF CoreIdentifies, CommsInv, JobInv, JobRec
<1>3. obj \in [EP -> [Section -> Presence]] /\ NoContent["sys"] = "nil"
  BY DEF CommsInv, CoreInv, CoreTypes, NoContent, Section
<1>4. \A f \in EP : Kind[f] = "PMDB" => obj'[f]["sys"] = "nil"
  BY <1>1, <1>3 DEF PmdbInv
<1> QED
  BY <1>1, <1>2, <1>4 DEF PmdbInv

(* LoadSystemInfo of a PMDB does not return labels: SysInfo is not there.  *)
LEMMA PmdbNoLabels ==
  ASSUME CommsInv, PmdbInv, UNCHANGED <<obj, fill>>, ScrapeLabels
  PROVE  PmdbInv'
<1> DEFINE e == job.ep
           r == LoadSystemInfo(app[e], obj[e])
<1>1. e \in EP
  BY DEF ScrapeLabels, JobAt, CommsInv, JobInv, ScrapeCovers, OnEndpoint
<1>2. app[e] \in App /\ obj[e] \in [Section -> Presence]
  BY <1>1 DEF CommsInv, CoreInv, CoreTypes
<1>3. /\ r \in {"labels", "skip", "panic"}
      /\ r = "labels" => app[e] # "unrecognized" /\ obj[e]["sys"] = "set"
  BY <1>2, LoadSystemInfoResult
<1>4. Goes(CASE r = "labels" -> "call" [] r = "skip" -> "next"
             [] r = "panic" -> "panicked")
  BY DEF ScrapeLabels
<1>5. Kind[e] = "PMDB" => r # "labels"
  BY <1>1, <1>3 DEF PmdbInv
<1> HIDE DEF r
<1>6. /\ job'.ep = job.ep /\ job'.reported = job.reported
      /\ job'.pc = "call" => r = "labels"
      /\ job'.pc # "parse"
  BY <1>3, <1>4 DEF Goes, CommsInv, JobInv, JobRec
<1> QED
  BY <1>5, <1>6 DEF PmdbInv

(* What an operation under way does next.                                  *)
LEMMA PmdbJobStep ==
  ASSUME CommsInv, PmdbInv, JobStep
  PROVE  PmdbInv'
<1>1. UNCHANGED <<obj, fill>> /\ job \in JobRec
  BY DEF JobStep, CommsInv, JobInv
<1>2. CASE \E e \in EP : ScrapeNext(e) \/ TagNext(e)
  BY <1>1, <1>2, PmdbStays DEF ScrapeNext, TagNext, JobAt, JobRec
<1>3. CASE ScrapeLabels
  BY <1>1, <1>3, PmdbNoLabels
<1>4. CASE ScrapeCall
  <2>1. job.pc = "call" /\ job'.ep = job.ep /\ job'.reported = job.reported
    BY <1>1, <1>4 DEF ScrapeCall, JobAt, JobRec
  <2> QED
    BY <1>1, <2>1 DEF PmdbInv
<1>5. CASE ScrapeParse
  <2>1. /\ job.pc = "parse" /\ job'.ep = job.ep
        /\ job'.reported \subseteq job.reported \cup {job.ep}
    BY <1>1, <1>5 DEF ScrapeParse, JobAt, JobRec
  <2> QED
    BY <1>1, <2>1 DEF PmdbInv
<1>6. CASE ScrapeDone \/ TagsRefused
  BY <1>1, <1>6, PmdbStays DEF ScrapeDone, TagsRefused, Goes, JobRec
<1>7. CASE Marshal
  BY <1>1, <1>7, PmdbStays DEF Marshal, JobRec
<1>8. CASE EndJob
  BY <1>1, <1>8, PmdbStays DEF EndJob, NoJob
<1> QED
  BY <1>2, <1>3, <1>4, <1>5, <1>6, <1>7, <1>8 DEF JobStep

(* No scrape ever reports a PMDB, however many endpoints there are and     *)
(* whatever they answer: "metrics from all active endpoints" fails for     *)
(* every running PMDB, not only in the behaviour of the run pmdb_metrics.  *)
THEOREM PmdbNeverReported == Spec => []NoPmdbReported
<1>1. Init => PmdbInv
  BY DEF Init, PmdbInv, NoContent, Section, NoJob, NoFill
<1>2. CommsInv /\ PmdbInv /\ [Next]_vars => PmdbInv'
  <2> SUFFICES ASSUME CommsInv, PmdbInv, [Next]_vars PROVE PmdbInv'
    OBVIOUS
  <2>0. job \in JobRec
    BY DEF CommsInv, JobInv
  <2>1. CASE Core
    <3>1. CASE \E e \in EP : CoreFinds(e)
      BY <2>0, <3>1, PmdbStays DEF CoreFinds, JobRec
    <3>2. CASE \E e \in EP : CoreDecides(e) \/ CoreRevives(e)
      BY <3>2, PmdbStays DEF CoreDecides, CoreRevives
    <3>3. CASE EndFill
      BY <3>3, PmdbStays DEF EndFill
    <3>4. CASE \E w \in Writer : CoreFinishes(w)
      BY <2>0, <3>4, PmdbStays DEF CoreFinishes, Seen, JobRec
    <3> QED
      BY <2>1, <3>1, <3>2, <3>3, <3>4, PmdbFills, PmdbStores, PmdbNewApp
      DEF Core
  <2>2. CASE Request
    BY <2>2, PmdbStays
    DEF Request, TakeSnapshot, JsonMarshal, SetTags, Starts, NoJob
  <2>3. CASE JobStep
    BY <2>3, PmdbJobStep
  <2>4. CASE TagsAccepted
    BY <2>0, <2>4, PmdbStays DEF TagsAccepted, Goes, JobRec
  <2>5. CASE \/ Gossip \/ GetTags \/ UNCHANGED vars
             \/ \E e \in EP : MarkAlive(e)
    BY <2>5, PmdbStays DEF Gossip, GetTags, MarkAlive, vars
  <2> QED
    BY <2>1, <2>2, <2>3, <2>4, <2>5 DEF Next
<1>3. PmdbInv => NoPmdbReported
  BY DEF PmdbInv, NoPmdbReported
<1> QED
  BY <1>1, <1>2, <1>3, CommsInvariant, PTL DEF Spec
=============================================================================
