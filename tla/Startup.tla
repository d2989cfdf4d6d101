------------------------------ MODULE Startup -------------------------------
(***************************************************************************)
(* How a lookout comes up (cmd/lookout/main.go): the goroutine that opens  *)
(* the HTTP port and reports through the channel errs, main, which waits   *)
(* for it, probes the port, joins Serf and starts the monitoring core, and *)
(* the Prometheus target file, which outlives the process.                 *)
(***************************************************************************)
EXTENDS Integers, Sequences, SequencesExt

CONSTANTS HttpPort,   \* the port the lookout is told to use
          GossipFile, \* the files GossipNodesPath may name
          ParseIP,    \* net.ParseIP: what it makes of a text, an IP or nil
          PortCount,  \* port numbers there are: 2^16, they are uint16
          MaxRuns,    \* bound: how often the lookout is started
          MaxOther    \* bound: how often another process takes the port

(* A gossip file has a line of addresses and one of numbers; there may be  *)
(* none, or one that cannot be read.                                       *)
NoFile == [addrs |-> <<>>, numbers |-> <<>>]

ASSUME StartupAssumption ==
  /\ MaxRuns \in Nat \ {0} /\ MaxOther \in Nat /\ PortCount \in Nat \ {0}
  /\ \A f \in GossipFile \ {NoFile} :
       /\ f.addrs # <<>> /\ f.addrs \in Seq(DOMAIN ParseIP)
       /\ f.numbers # <<>> /\ f.numbers \in Seq(Int)

VARIABLES
  main,     \* program counter of main
  starter,  \* program counter of the goroutine that calls ServeHttp
  served,   \* what ServeHttp returned: "none" so far, "nil" or "error"
  errs,     \* the channel errs, of capacity 1
  port,     \* who listens on HttpPort: "free", "self" or "other"
  serving,  \* the goroutine that calls http.Serve runs
  serf,     \* SerfAgentStartup: calls made, members and error of the last one
  tags,     \* SetTags and GetTags run
  udp,      \* StartUDPListner: "off", "up" or "ready"
  conf,     \* addrList, ServicePortRangeS and E, PortRange
  file,     \* the gossip file
  prom,     \* content of the file at PromPath: the ports written, in order
  runs,     \* starts so far (bound)
  others    \* times another process has taken the port (bound)

vars == <<main, starter, served, errs, port, serving, serf, tags, udp, conf,
          file, prom, runs, others>>

mainVars == <<serf, tags, udp, conf, prom>>
worldVars == <<file, runs, others>>

MainPC == {"spawned", "recv", "live", "gossip", "serf", "client", "start",
           "monitor", "exit"}

Alive == main # "exit"

MaxSerfRetry == 3

-----------------------------------------------------------------------------
(* The goroutine that starts the HTTP service.                             *)

(* PortRange has one entry when ServeHttp runs, so there is one attempt.   *)
(* An error of the call bind, as for a port in use or one that may not be  *)
(* opened, is not reported; any other error is.                            *)
ServeHttp ==
  /\ starter = "listen" /\ Alive
  /\ \/ port = "free" /\ port' = "self" /\ served' = "nil"
     \/ UNCHANGED port /\ served' \in {"nil", "error"}
  /\ starter' = "send"
  /\ UNCHANGED <<main, errs, serving, mainVars, worldVars>>

(* The goroutine that ServeHttp leaves behind.                             *)
Serve ==
  /\ port = "self" /\ ~serving /\ Alive
  /\ serving' = TRUE
  /\ UNCHANGED <<main, starter, served, errs, port, mainVars, worldVars>>

(* Mutant: the test of err turned round.                                   *)
ReceiveErrInverted(v) == main' = IF v = "nil" THEN "exit" ELSE "live"

(* What main does with the value it receives: an error is fatal.           *)
ReceiveErr(v) == main' = IF v = "error" THEN "exit" ELSE "live"

(* Mutant: only errors are sent.                                           *)
SendErrors ==
  /\ starter = "send" /\ Alive
  /\ IF main = "recv" /\ served = "error"
       THEN ReceiveErr(served) /\ UNCHANGED errs
       ELSE UNCHANGED <<main, errs>>
  /\ starter' = "take"
  /\ UNCHANGED <<served, port, serving, mainVars, worldVars>>

(* errs <- err_r: a receiver that waits gets the value at once.            *)
Send ==
  /\ starter = "send" /\ Alive
  /\ IF main = "recv" THEN ReceiveErr(served) /\ UNCHANGED errs
     ELSE errs' = Append(errs, served) /\ UNCHANGED main
  /\ starter' = "take"
  /\ UNCHANGED <<served, port, serving, mainVars, worldVars>>

(* <-errs in the same goroutine: it takes its own value if main has not.   *)
Take ==
  /\ starter = "take" /\ Alive /\ errs # <<>>
  /\ errs' = Tail(errs) /\ starter' = "done"
  /\ UNCHANGED <<main, served, port, serving, mainVars, worldVars>>

-----------------------------------------------------------------------------
(* main.                                                                   *)

Receive ==
  /\ main = "spawned"
  /\ IF errs # <<>> THEN ReceiveErr(Head(errs)) /\ errs' = Tail(errs)
     ELSE main' = "recv" /\ UNCHANGED errs
  /\ UNCHANGED <<starter, served, port, serving, mainVars, worldVars>>

(* CheckHTTPLiveness asks the port once a second until somebody answers.   *)
(* Another process may answer as well as this one.                         *)
Answers == (port = "self" /\ serving) \/ port = "other"

CheckHTTPLiveness ==
  /\ main = "live" /\ Answers
  /\ main' = "gossip"
  /\ UNCHANGED <<starter, served, errs, port, serving, mainVars, worldVars>>

(* Port numbers are uint16; their arithmetic wraps.                        *)
uint16(n) == n % PortCount

(* Mutant: the length without the end.                                     *)
makeRangeHalfOpen(s, e) == [i \in 1..uint16(e - s) |-> uint16(s + i - 1)]

makeRange(s, e) == [i \in 1..uint16(e - s + 1) |-> uint16(s + i - 1)]

(* Mutant: a text is only compared with the one before it.                 *)
removeRepeatedStr(list) ==
  FoldLeft(LAMBDA l, a : IF l # <<>> /\ Last(l) = a THEN l ELSE Append(l, a),
           <<>>, list)

(* The first of equal texts is kept, in its place.                         *)
removeDuplicateStr(list) ==
  FoldLeft(LAMBDA l, a : IF a \in ToSet(l) THEN l ELSE Append(l, a),
           <<>>, list)

(* The texts are compared, then parsed: two texts of one IP stay two.      *)
addrList(texts) ==
  LET l == removeDuplicateStr(texts) IN [i \in DOMAIN l |-> ParseIP[l[i]]]

NoConf == [addrs |-> <<>>, S |-> 0, E |-> 0, range |-> <<0>>]

(* Without a file that can be read main goes on without Serf.  A port line *)
(* with one number ends in an index out of range.                          *)
LoadConfigInfo ==
  /\ main = "gossip"
  /\ CASE file = NoFile            -> main' = "start" /\ UNCHANGED conf
       [] Len(file.numbers) = 1    -> main' = "exit" /\ UNCHANGED conf
       [] OTHER ->
            LET s == uint16(file.numbers[1])
                e == uint16(file.numbers[2])
            IN /\ main' = "serf"
               /\ conf' = [addrs |-> addrList(file.addrs),
                           S |-> s, E |-> e, range |-> makeRange(s, e)]
  /\ UNCHANGED <<starter, served, errs, port, serving, serf, tags, udp, prom,
                 worldVars>>

NoSerf == [calls |-> 0, members |-> 0, err |-> FALSE]

(* Mutant: the agent counts as started once the attempts are used up.      *)
SerfRetryForgives(s) ==
  IF s.members = 0 /\ s.calls <= MaxSerfRetry THEN "serf"
  ELSE IF s.err /\ s.members > 0 THEN "start" ELSE "client"

(* Mutant: one attempt too many.                                           *)
SerfRetryOnceMore(s) ==
  IF s.members = 0 /\ s.calls <= MaxSerfRetry + 1 THEN "serf"
  ELSE IF s.err THEN "start" ELSE "client"

(* StartSerfAgent: one call, and three more while no member is found.  The *)
(* error of the last call is returned, even if there is still no member.   *)
SerfReturns(s) ==
  IF s.members = 0 /\ s.calls <= MaxSerfRetry THEN "serf"
  ELSE IF s.err THEN "start" ELSE "client"

StartSerfAgent ==
  /\ main = "serf"
  /\ \E n \in {0, 1}, e \in BOOLEAN :
       serf' = [calls |-> serf.calls + 1, members |-> n, err |-> e]
  /\ main' = SerfReturns(serf')
  /\ UNCHANGED <<starter, served, errs, port, serving, tags, udp, conf,
                 prom, worldVars>>

(* With -pmdb main waits for the client API, then starts the UDP listener. *)
StartClientAPI ==
  /\ main = "client"
  /\ udp' \in {"off", "up"}
  /\ tags' = TRUE /\ main' = "start"
  /\ UNCHANGED <<starter, served, errs, port, serving, serf, conf, prom,
                 worldVars>>

(* A socket that cannot be opened is logged, then dereferenced.            *)
StartUDPListner ==
  /\ udp = "up" /\ Alive
  /\ \/ udp' = "ready" /\ UNCHANGED main
     \/ udp' = "off" /\ main' = "exit"
  /\ UNCHANGED <<starter, served, errs, port, serving, serf, tags, conf,
                 prom, worldVars>>

(* The file is opened with O_APPEND.                                       *)
writePromPath == prom' = Append(prom, HttpPort)

Start ==
  /\ main = "start"
  /\ \/ main' = "exit" /\ UNCHANGED prom
     \/ writePromPath /\ main' = "monitor"
  /\ UNCHANGED <<starter, served, errs, port, serving, serf, tags, udp,
                 conf, worldVars>>

-----------------------------------------------------------------------------
(* The outside world.                                                      *)

(* The lookout ends, at any time, and is started again.                    *)
Restart ==
  /\ runs < MaxRuns /\ runs' = runs + 1
  /\ main' = "spawned" /\ starter' = "listen" /\ served' = "none"
  /\ errs' = <<>> /\ serving' = FALSE
  /\ port' = IF port = "self" THEN "free" ELSE port
  /\ serf' = NoSerf /\ tags' = FALSE /\ udp' = "off"
  /\ conf' = NoConf
  /\ UNCHANGED <<file, prom, others>>

OtherBinds ==
  /\ port = "free" \/ (port = "self" /\ ~Alive)
  /\ others < MaxOther
  /\ port' = "other" /\ others' = others + 1
  /\ UNCHANGED <<main, starter, served, errs, serving, mainVars, file, runs>>

OtherLeaves ==
  /\ port = "other" /\ port' = "free"
  /\ UNCHANGED <<main, starter, served, errs, serving, mainVars, worldVars>>

-----------------------------------------------------------------------------
Init ==
  /\ main = "spawned" /\ starter = "listen" /\ served = "none"
  /\ errs = <<>> /\ port = "free" /\ serving = FALSE
  /\ serf = NoSerf /\ tags = FALSE /\ udp = "off"
  /\ conf = NoConf /\ file \in GossipFile
  /\ prom = <<>> /\ runs = 1 /\ others = 0

HttpStarter == ServeHttp \/ Serve \/ Send \/ Take

Main ==
  \/ Receive \/ CheckHTTPLiveness \/ LoadConfigInfo \/ StartSerfAgent
  \/ StartClientAPI \/ Start

World == Restart \/ OtherBinds \/ OtherLeaves

Next == HttpStarter \/ Main \/ StartUDPListner \/ World

Spec == Init /\ [][Next]_vars

(* The scheduler runs every goroutine that can run.  The client API gets   *)
(* ready, and listening ends.                                              *)
FairSpec ==
  /\ Spec
  /\ WF_vars(ServeHttp) /\ WF_vars(Serve) /\ WF_vars(Send) /\ WF_vars(Take)
  /\ WF_vars(Main) /\ WF_vars(StartUDPListner)

-----------------------------------------------------------------------------
(* Properties.                                                             *)

(* Every variable keeps its type; errs never holds more than its capacity, *)
(* and no start writes its port more than once.                            *)
TypeOK ==
  /\ main \in MainPC
  /\ starter \in {"listen", "send", "take", "done"}
  /\ served \in {"none", "nil", "error"}
  /\ errs \in Seq({"nil", "error"}) /\ Len(errs) <= 1
  /\ port \in {"free", "self", "other"} /\ serving \in BOOLEAN
  /\ serf \in [calls : 0..(MaxSerfRetry + 1), members : {0, 1}, err : BOOLEAN]
  /\ tags \in BOOLEAN /\ udp \in {"off", "up", "ready"}
  /\ DOMAIN conf = DOMAIN NoConf /\ file \in GossipFile
  /\ {conf.S, conf.E} \cup ToSet(conf.range) \subseteq 0..(PortCount - 1)
  /\ prom \in Seq({HttpPort}) /\ Len(prom) <= runs
  /\ runs \in 1..MaxRuns /\ others \in 0..MaxOther

(* When the port could not be opened for a reason ServeHttp reports, the   *)
(* lookout goes no further, whoever takes the value out of errs.           *)
ListenErrorStops ==
  served = "error" => main \in {"spawned", "recv", "exit"}

(* If main waits on errs before ServeHttp's result is sent, it gets past   *)
(* the channel: the goroutine cannot take its own value first.             *)
WaitingMainProceeds ==
  (main = "recv" /\ starter \in {"listen", "send"}) ~> main # "recv"

(* Tags are set and read only when the last SerfAgentStartup succeeded.    *)
TagsNeedSerf == tags => serf.calls > 0 /\ ~serf.err

(* The node list handed to Serf has one entry for each different text of   *)
(* the gossip file's line of addresses, in the order in which the texts    *)
(* first occur there, so that the first entry is this lookout's own.  An   *)
(* entry is what the text parses to: an IP written in two ways has two     *)
(* entries, and a text that is no address has a nil one.                   *)
NodeListInOrder ==
  LET texts  == file.addrs
      firsts == {i \in DOMAIN texts : \A j \in 1..(i - 1) : texts[j] # texts[i]}
  IN main = "serf" =>
       \E at \in [DOMAIN conf.addrs -> firsts] :
         /\ firsts \subseteq Range(at)
         /\ \A i, j \in DOMAIN at : i < j => at[i] < at[j]
         /\ \A i \in DOMAIN at : conf.addrs[i] = ParseIP[texts[at[i]]]

(* PortRange holds each port from the start to the end of the range once,  *)
(* whatever numbers the file has: a range that ends before it starts goes  *)
(* on from port 0.  Only a range of all ports comes out empty, since its   *)
(* length does not fit into uint16.                                        *)
PortRangeRight ==
  LET ports  == 0..(PortCount - 1)
      wanted == IF conf.S <= conf.E THEN conf.S..conf.E
                ELSE {p \in ports : p >= conf.S \/ p <= conf.E}
  IN main = "serf" =>
       /\ ToSet(conf.range) = IF wanted = ports THEN {} ELSE wanted
       /\ \A i, j \in DOMAIN conf.range :
            conf.range[i] = conf.range[j] => i = j

(* "Wait for this lookout's http service": the lookout that goes on after  *)
(* CheckHTTPLiveness is the one that listens on the port.                  *)
ServesOwnPort == main \in {"gossip", "serf", "client", "start", "monitor"}
                   => port = "self"

(* "Start lookout": main, unless it fails or the port stays silent, ends   *)
(* up in the monitoring core.                                              *)
LookoutStarts ==
  (main = "spawned") ~> (main \in {"live", "monitor", "exit"})
=============================================================================
