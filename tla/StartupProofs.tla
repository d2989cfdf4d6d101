--------------------------- MODULE StartupProofs ----------------------------
(***************************************************************************)
(* Proofs about the start of a lookout: the order of main and of the       *)
(* goroutine that opens the HTTP port, the retries of Serf, the port range *)
(* in uint16 arithmetic, and the list of addresses handed to Serf, by      *)
(* induction over the list in the gossip file.                             *)
(***************************************************************************)
EXTENDS Startup, FoldLemmas, SequenceTheorems

-----------------------------------------------------------------------------
(* uint16 arithmetic.                                                      *)

(* A remainder is a port.                                                  *)
LEMMA Remainder ==
  ASSUME NEW n \in Int
  PROVE  uint16(n) \in 0..(PortCount - 1)
  BY StartupAssumption DEF uint16

(* What uint16 does to a number that is at most one turn off.              *)
LEMMA Uint16Small ==
  ASSUME NEW n \in Int
  PROVE  /\ n \in 0..(PortCount - 1) => uint16(n) = n
         /\ n \in PortCount..(2 * PortCount - 1) => uint16(n) = n - PortCount
         /\ n < 0 /\ n >= -PortCount => uint16(n) = n + PortCount
  BY StartupAssumption DEF uint16


-----------------------------------------------------------------------------
(* The order of a start.                                                   *)

(* What main and the goroutine of ServeHttp know of each other.  The value *)
(* in errs is the one ServeHttp returned, so main gets past the channel    *)
(* only with "nil", whoever takes it.  A start that has not written the    *)
(* target file leaves room for its line; main asks Serf again only while   *)
(* attempts are left, goes on to the client API only after a call that     *)
(* succeeded.  PortRange is what makeRange made of the configured ends,    *)
(* and the node list is what LoadConfigInfo made of the file's addresses.  *)
StartInv ==
  /\ errs # <<>> => starter = "take" /\ Head(errs) = served
  /\ served = "none" => starter = "listen"
  /\ starter = "listen" => served = "none"
  /\ main \notin {"spawned", "recv", "exit"} => served = "nil"
  /\ main \notin {"monitor", "exit"} => Len(prom) < runs
  /\ main \in {"spawned", "recv", "live", "gossip"} => serf = NoSerf
  /\ main = "serf" => serf.calls <= MaxSerfRetry
  /\ main = "client" => serf.calls > 0 /\ ~serf.err
  /\ tags => main \in {"start", "monitor", "exit"} /\ serf.calls > 0 /\ ~serf.err
  /\ main = "serf" => conf.range = makeRange(conf.S, conf.E)
  /\ main = "serf" => /\ file # NoFile
                      /\ conf.addrs = addrList(file.addrs)

IInv == TypeOK /\ StartInv

(* makeRange yields ports.                                                 *)
LEMMA RangeIsPorts ==
  ASSUME NEW s \in Int, NEW e \in Int
  PROVE  ToSet(makeRange(s, e)) \subseteq 0..(PortCount - 1)
<1>1. uint16(e - s + 1) \in Nat
  BY Remainder, StartupAssumption
<1>2. \A i \in 1..uint16(e - s + 1) : uint16(s + i - 1) \in 0..(PortCount - 1)
  BY <1>1, Remainder
<1> QED
  BY <1>1, <1>2 DEF makeRange, ToSet

(* The first start begins with everything closed and the file empty.       *)
LEMMA StartInit == Init => IInv
<1> SUFFICES ASSUME Init PROVE IInv
  OBVIOUS
<1>1. ToSet(conf.range) = {0}
  BY DEF Init, NoConf, ToSet
<1>2. DOMAIN conf = DOMAIN NoConf /\ conf.S = 0 /\ conf.E = 0
  BY DEF Init, NoConf
<1>3. /\ serf \in [calls : 0..(MaxSerfRetry + 1), members : {0, 1}, err : BOOLEAN]
      /\ runs \in 1..MaxRuns /\ others \in 0..MaxOther
  BY StartupAssumption DEF Init, NoSerf, MaxSerfRetry
<1>4. {conf.S, conf.E} \cup ToSet(conf.range) \subseteq 0..(PortCount - 1)
  BY <1>1, <1>2, StartupAssumption
<1>5. /\ errs \in Seq({"nil", "error"}) /\ Len(errs) <= 1
      /\ prom \in Seq({HttpPort}) /\ Len(prom) <= runs
  BY DEF Init
<1>6. TypeOK
  BY <1>2, <1>3, <1>4, <1>5 DEF Init, TypeOK, MainPC
<1>7. StartInv
  BY DEF Init, StartInv
<1> QED
  BY <1>6, <1>7 DEF IInv

(* The goroutine of ServeHttp sends the value it got and takes it at most  *)
(* once; main, when it waits, goes on only with "nil".                     *)
LEMMA StartHttp ==
  ASSUME IInv, HttpStarter
  PROVE  IInv'
<1> USE DEF IInv
<1>1. CASE ServeHttp
  BY <1>1 DEF ServeHttp, TypeOK, StartInv, MainPC, mainVars, worldVars, Alive
<1>2. CASE Serve
  BY <1>2 DEF Serve, TypeOK, StartInv, MainPC, mainVars, worldVars, Alive
<1>3. CASE Send
  <2>1. served \in {"nil", "error"} /\ errs = <<>>
    BY <1>3 DEF Send, TypeOK, StartInv
  <2>2. CASE main = "recv"
    BY <1>3, <2>1, <2>2
       DEF Send, ReceiveErr, TypeOK, StartInv, MainPC, mainVars, worldVars
  <2>3. CASE main # "recv"
    <3>1. errs' = <<served>>
      BY <1>3, <2>1, <2>3 DEF Send
    <3> QED
      BY <1>3, <2>1, <2>3, <3>1
         DEF Send, TypeOK, StartInv, MainPC, mainVars, worldVars
  <2> QED
    BY <2>2, <2>3
<1>4. CASE Take
  <2>1. errs' = <<>>
    BY <1>4 DEF Take, TypeOK
  <2> QED
    BY <1>4, <2>1 DEF Take, TypeOK, StartInv, MainPC, mainVars, worldVars
<1> QED
  BY <1>1, <1>2, <1>3, <1>4 DEF HttpStarter

(* The two ends LoadConfigInfo reads from a usable file are numbers.       *)
LEMMA FileNumbers ==
  ASSUME TypeOK, file # NoFile, Len(file.numbers) # 1
  PROVE  file.numbers[1] \in Int /\ file.numbers[2] \in Int
<1>1. file.numbers \in Seq(Int) /\ file.numbers # <<>>
  BY StartupAssumption DEF TypeOK
<1>2. ASSUME NEW l \in Seq(Int), l # <<>>, Len(l) # 1
      PROVE  l[1] \in Int /\ l[2] \in Int
  <2>1. Len(l) \in Nat /\ Len(l) # 0
    BY <1>2
  <2>2. \A n \in Nat : n # 0 /\ n # 1 => n >= 2
    OBVIOUS
  <2>3. Len(l) >= 2
    BY <1>2, <2>1, <2>2
  <2> QED
    BY <2>1, <2>3
<1> QED
  BY <1>1, <1>2

(* main, one call at a time.                                               *)
LEMMA StartMain ==
  ASSUME IInv, Main
  PROVE  IInv'
<1> USE DEF IInv
<1>1. CASE Receive
  <2>1. CASE errs # <<>>
    <3>1. errs' = <<>> /\ Head(errs) = served /\ served \in {"nil", "error"}
      BY <1>1, <2>1 DEF Receive, TypeOK, StartInv
    <3> QED
      BY <1>1, <2>1, <3>1
         DEF Receive, ReceiveErr, TypeOK, StartInv, MainPC, mainVars, worldVars
  <2>2. CASE errs = <<>>
    BY <1>1, <2>2 DEF Receive, TypeOK, StartInv, MainPC, mainVars, worldVars
  <2> QED
    BY <2>1, <2>2
<1>2. CASE CheckHTTPLiveness
  BY <1>2 DEF CheckHTTPLiveness, TypeOK, StartInv, MainPC, mainVars, worldVars
<1>3. CASE LoadConfigInfo
  <2>1. CASE UNCHANGED conf /\ main' \in {"start", "exit"}
    BY <1>3, <2>1 DEF LoadConfigInfo, TypeOK, StartInv, MainPC, worldVars
  <2>2. CASE file # NoFile /\ Len(file.numbers) # 1
    <3> DEFINE s == uint16(file.numbers[1])
               e == uint16(file.numbers[2])
    <3>1. s \in 0..(PortCount - 1) /\ e \in 0..(PortCount - 1)
      BY <2>2, FileNumbers, Remainder
    <3>2. /\ main' = "serf"
          /\ conf' = [addrs |-> addrList(file.addrs),
                      S |-> s, E |-> e, range |-> makeRange(s, e)]
      BY <1>3, <2>2 DEF LoadConfigInfo
    <3> HIDE DEF s, e
    <3>3. s \in Int /\ e \in Int
      BY <3>1, StartupAssumption
    <3>4. ToSet(makeRange(s, e)) \subseteq 0..(PortCount - 1)
      BY <3>3, RangeIsPorts
    <3>5. /\ DOMAIN conf' = DOMAIN NoConf
          /\ conf'.S = s /\ conf'.E = e /\ conf'.range = makeRange(s, e)
          /\ conf'.addrs = addrList(file.addrs)
      BY <3>2 DEF NoConf
    <3>6. serf.calls <= MaxSerfRetry /\ ~tags
      BY <1>3 DEF LoadConfigInfo, StartInv, NoSerf, MaxSerfRetry
    <3>7. TypeOK'
      BY <1>3, <3>1, <3>2, <3>4, <3>5
         DEF LoadConfigInfo, TypeOK, MainPC, worldVars
    <3>8. StartInv'
      BY <1>3, <2>2, <3>2, <3>5, <3>6 DEF LoadConfigInfo, StartInv, worldVars
    <3> QED
      BY <3>7, <3>8
  <2> QED
    BY <1>3, <2>1, <2>2 DEF LoadConfigInfo
<1>4. CASE StartSerfAgent
  <2>1. PICK n \in {0, 1}, e \in BOOLEAN :
          serf' = [calls |-> serf.calls + 1, members |-> n, err |-> e]
    BY <1>4 DEF StartSerfAgent
  <2>2. serf.calls \in 0..MaxSerfRetry
    BY <1>4 DEF StartSerfAgent, TypeOK, StartInv, MaxSerfRetry
  <2>3. /\ serf' \in [calls : 0..(MaxSerfRetry + 1), members : {0, 1},
                      err : BOOLEAN]
        /\ serf'.calls > 0
    BY <2>1, <2>2 DEF MaxSerfRetry
  <2>4. /\ main' \in {"serf", "start", "client"}
        /\ main' = "serf" => serf'.calls <= MaxSerfRetry
        /\ main' = "client" => ~serf'.err
    BY <1>4 DEF StartSerfAgent, SerfReturns
  <2> QED
    BY <1>4, <2>3, <2>4
       DEF StartSerfAgent, TypeOK, StartInv, MainPC, worldVars
<1>5. CASE StartClientAPI
  BY <1>5 DEF StartClientAPI, TypeOK, StartInv, MainPC, worldVars
<1>6. CASE Start
  <2>1. CASE writePromPath /\ main' = "monitor"
    <3>1. prom' \in Seq({HttpPort}) /\ Len(prom') = Len(prom) + 1
      BY <2>1 DEF writePromPath, TypeOK
    <3>2. Len(prom) \in Nat /\ Len(prom) < runs /\ runs \in Nat
      BY <1>6, StartupAssumption DEF Start, TypeOK, StartInv
    <3> QED
      BY <1>6, <2>1, <3>1, <3>2 DEF Start, TypeOK, StartInv, MainPC, worldVars
  <2>2. CASE UNCHANGED prom /\ main' = "exit"
    BY <1>6, <2>2 DEF Start, TypeOK, StartInv, MainPC, worldVars
  <2> QED
    BY <1>6, <2>1, <2>2 DEF Start
<1> QED
  BY <1>1, <1>2, <1>3, <1>4, <1>5, <1>6 DEF Main

(* A restart finds nothing of the previous run but the target file.        *)
LEMMA StartWorld ==
  ASSUME IInv, World
  PROVE  IInv'
<1> USE DEF IInv
<1>1. CASE Restart
  <2>1. ToSet(conf'.range) = {0} /\ conf'.S = 0 /\ conf'.E = 0
    BY <1>1 DEF Restart, NoConf, ToSet
  <2>2. /\ runs \in Nat /\ runs' = runs + 1 /\ runs' \in 1..MaxRuns
        /\ Len(prom) \in Nat /\ Len(prom') < runs' /\ Len(prom') <= runs'
    BY <1>1, StartupAssumption DEF Restart, TypeOK
  <2>3. /\ serf' \in [calls : 0..(MaxSerfRetry + 1), members : {0, 1},
                      err : BOOLEAN]
        /\ DOMAIN conf' = DOMAIN NoConf
    BY <1>1 DEF Restart, NoSerf, NoConf, MaxSerfRetry
  <2>4. {conf'.S, conf'.E} \cup ToSet(conf'.range) \subseteq 0..(PortCount - 1)
    BY <2>1, StartupAssumption
  <2>5. /\ tags' \in BOOLEAN /\ serving' \in BOOLEAN /\ file' \in GossipFile
        /\ prom' \in Seq({HttpPort}) /\ others' \in 0..MaxOther
        /\ udp' \in {"off", "up", "ready"}
    BY <1>1 DEF Restart, TypeOK
  <2>6. errs' \in Seq({"nil", "error"}) /\ Len(errs') <= 1
    BY <1>1 DEF Restart
  <2>7. port' \in {"free", "self", "other"}
    BY <1>1 DEF Restart, TypeOK
  <2>8. TypeOK'
    BY <1>1, <2>2, <2>3, <2>4, <2>5, <2>6, <2>7 DEF Restart, TypeOK, MainPC
  <2>9. StartInv'
    BY <1>1, <2>2 DEF Restart, StartInv
  <2> QED
    BY <2>8, <2>9
<1>2. CASE OtherBinds
  <2>1. others' \in 0..MaxOther
    BY <1>2, StartupAssumption DEF OtherBinds, TypeOK
  <2> QED
    BY <1>2, <2>1 DEF OtherBinds, TypeOK, StartInv, MainPC, mainVars
<1>3. CASE OtherLeaves
  BY <1>3 DEF OtherLeaves, TypeOK, StartInv, MainPC, mainVars, worldVars
<1> QED
  BY <1>1, <1>2, <1>3 DEF World

(* Every step keeps the invariant.                                         *)
LEMMA StartNext == IInv /\ [Next]_vars => IInv'
<1> SUFFICES ASSUME IInv, [Next]_vars PROVE IInv'
  OBVIOUS
<1>1. CASE StartUDPListner
  BY <1>1 DEF IInv, StartUDPListner, TypeOK, StartInv, MainPC, worldVars
<1>2. CASE UNCHANGED vars
  BY <1>2 DEF IInv, vars, TypeOK, StartInv, MainPC
<1> QED
  BY <1>1, <1>2, StartHttp, StartMain, StartWorld DEF Next

(* The invariant holds in every state of every behaviour.                  *)
THEOREM StartInvariant == Spec => []IInv
  BY StartInit, StartNext, PTL DEF Spec


-----------------------------------------------------------------------------
(* The port range.                                                         *)

(* The length of a range.                                                  *)
LEMMA RangeLength ==
  ASSUME NEW s \in 0..(PortCount - 1), NEW e \in 0..(PortCount - 1)
  PROVE  /\ s <= e /\ e - s + 1 < PortCount => uint16(e - s + 1) = e - s + 1
         /\ s <= e /\ e - s + 1 = PortCount => uint16(e - s + 1) = 0
         /\ s = e + 1 => uint16(e - s + 1) = 0
         /\ s > e + 1 => uint16(e - s + 1) = e - s + 1 + PortCount
<1>1. PortCount \in Nat /\ PortCount > 0 /\ s \in Int /\ e \in Int
  BY StartupAssumption
<1> DEFINE n == e - s + 1
<1>2. n \in Int
  BY <1>1
<1>3. /\ n \in 0..(PortCount - 1) => uint16(n) = n
      /\ n \in PortCount..(2 * PortCount - 1) => uint16(n) = n - PortCount
      /\ n < 0 /\ n >= -PortCount => uint16(n) = n + PortCount
  BY <1>2, Uint16Small
<1>4. s <= e /\ n < PortCount => n \in 0..(PortCount - 1)
  BY <1>1
<1>5. s <= e /\ n = PortCount => n \in PortCount..(2 * PortCount - 1)
  BY <1>1
<1>6. s = e + 1 => n \in 0..(PortCount - 1) /\ n = 0
  BY <1>1
<1>7. s > e + 1 => n < 0 /\ n >= -PortCount
  BY <1>1
<1>8. n = PortCount => n - PortCount = 0
  BY <1>1
<1> QED
  BY <1>3, <1>4, <1>5, <1>6, <1>7, <1>8

(* The port at a place of a range.                                         *)
LEMMA RangePort ==
  ASSUME NEW s \in 0..(PortCount - 1), NEW i \in 1..PortCount
  PROVE  uint16(s + i - 1) = IF s + i - 1 < PortCount THEN s + i - 1
                             ELSE s + i - 1 - PortCount
<1>1. PortCount \in Nat /\ PortCount > 0 /\ s \in Int /\ i \in Int
  BY StartupAssumption
<1> DEFINE n == s + i - 1
<1>2. n \in Int
  BY <1>1
<1>3. /\ n \in 0..(PortCount - 1) => uint16(n) = n
      /\ n \in PortCount..(2 * PortCount - 1) => uint16(n) = n - PortCount
  BY <1>2, Uint16Small
<1>4. n < PortCount => n \in 0..(PortCount - 1)
  BY <1>1
<1>5. ~(n < PortCount) => n \in PortCount..(2 * PortCount - 1)
  BY <1>1
<1>6. n - PortCount = s + i - 1 - PortCount
  BY <1>1
<1>7. CASE n < PortCount
  BY <1>3, <1>4, <1>7
<1>8. CASE ~(n < PortCount)
  BY <1>3, <1>5, <1>6, <1>8
<1> QED
  BY <1>7, <1>8

(* The ports from s to e, going on from port 0 when e is less than s.      *)
Wanted(s, e) ==
  IF s <= e THEN s..e ELSE {p \in 0..(PortCount - 1) : p >= s \/ p <= e}

(* makeRange yields the ports wanted, each once, or none of all ports.     *)
LEMMA MakeRangeRight ==
  ASSUME NEW s \in 0..(PortCount - 1), NEW e \in 0..(PortCount - 1)
  PROVE  /\ ToSet(makeRange(s, e)) =
              IF Wanted(s, e) = 0..(PortCount - 1) THEN {} ELSE Wanted(s, e)
         /\ \A i, j \in DOMAIN makeRange(s, e) :
              makeRange(s, e)[i] = makeRange(s, e)[j] => i = j
<1> DEFINE n == uint16(e - s + 1)
           at(i) == uint16(s + i - 1)
           ports == 0..(PortCount - 1)
<1>1. PortCount \in Nat /\ PortCount > 0 /\ s \in Int /\ e \in Int
  BY StartupAssumption
<1>2. n \in 0..(PortCount - 1)
  BY <1>1, Remainder
<1>3. makeRange(s, e) = [i \in 1..n |-> at(i)]
  BY DEF makeRange
<1>4. \A i \in 1..n : at(i) = IF s + i - 1 < PortCount THEN s + i - 1
                              ELSE s + i - 1 - PortCount
  BY <1>1, <1>2, RangePort
<1>5. /\ s <= e /\ e - s + 1 < PortCount => n = e - s + 1
      /\ s <= e /\ e - s + 1 = PortCount => n = 0
      /\ s = e + 1 => n = 0
      /\ s > e + 1 => n = e - s + 1 + PortCount
  BY RangeLength
<1> HIDE DEF n, at
<1>6. DOMAIN makeRange(s, e) = 1..n /\ \A i \in 1..n : makeRange(s, e)[i] = at(i)
  BY <1>3
<1>7. ToSet(makeRange(s, e)) = {at(i) : i \in 1..n}
  BY <1>6 DEF ToSet
<1>8. \A i, j \in 1..n : at(i) = at(j) => i = j
  BY <1>1, <1>2, <1>4
<1>9. {at(i) : i \in 1..n} = IF Wanted(s, e) = ports THEN {} ELSE Wanted(s, e)
  <2>1. CASE n = 0
    <3>1. s <= e => s = 0 /\ e = PortCount - 1
      BY <1>1, <1>5, <2>1
    <3>2. ~(s <= e) => s = e + 1
      BY <1>1, <1>5, <2>1
    <3>3. Wanted(s, e) = ports
      <4>1. CASE s <= e
        BY <3>1, <4>1 DEF Wanted
      <4>2. CASE ~(s <= e)
        <5>1. \A p \in ports : p >= s \/ p <= e
          BY <1>1, <3>2, <4>2
        <5> QED
          BY <4>2, <5>1 DEF Wanted
      <4> QED
        BY <4>1, <4>2
    <3>4. 1..n = {}
      BY <2>1
    <3> QED
      BY <3>3, <3>4
  <2>2. CASE n # 0 /\ s <= e
    <3>1. n = e - s + 1 /\ (s # 0 \/ e # PortCount - 1)
      BY <1>1, <1>5, <2>2
    <3>2. Wanted(s, e) = s..e
      BY <2>2 DEF Wanted
    <3>3. s..e # ports
      BY <1>1, <2>2, <3>1
    <3>4. \A i \in 1..n : at(i) = s + i - 1 /\ at(i) \in s..e
      BY <1>1, <1>4, <3>1
    <3>5. \A p \in s..e : p - s + 1 \in 1..n /\ at(p - s + 1) = p
      BY <1>1, <1>4, <3>1
    <3> QED
      BY <3>2, <3>3, <3>4, <3>5
  <2>3. CASE n # 0 /\ ~(s <= e)
    <3>1. s > e + 1 /\ n = e - s + 1 + PortCount
      BY <1>1, <1>5, <2>3
    <3>2. Wanted(s, e) = {p \in ports : p >= s \/ p <= e}
      BY <2>3 DEF Wanted
    <3>3. e + 1 \in ports /\ e + 1 \notin Wanted(s, e)
      BY <1>1, <3>1, <3>2
    <3>4. \A i \in 1..n : at(i) \in Wanted(s, e)
      BY <1>1, <1>4, <3>1, <3>2
    <3>5. ASSUME NEW p \in Wanted(s, e)
          PROVE  \E i \in 1..n : at(i) = p
      <4>1. p \in Int /\ p >= 0 /\ p < PortCount /\ (p >= s \/ p <= e)
        BY <1>1, <3>2
      <4>2. CASE p >= s
        <5>1. p - s + 1 \in 1..n /\ at(p - s + 1) = p
          BY <1>1, <1>4, <3>1, <4>1, <4>2
        <5> QED
          BY <5>1
      <4>3. CASE p <= e
        <5>1. p - s + 1 + PortCount \in 1..n /\ at(p - s + 1 + PortCount) = p
          BY <1>1, <1>4, <3>1, <4>1, <4>3
        <5> QED
          BY <5>1
      <4> QED
        BY <4>1, <4>2, <4>3
    <3> QED
      BY <3>3, <3>4, <3>5
  <2> QED
    BY <2>1, <2>2, <2>3
<1> QED
  BY <1>6, <1>7, <1>8, <1>9

-----------------------------------------------------------------------------
(* The list of addresses.                                                  *)

(* The lists removeDuplicateStr goes through, one address at a time.       *)
LEMMA DuplicatesFold ==
  ASSUME NEW S, NEW list \in Seq(S)
  PROVE  \E k \in [0..Len(list) -> Seq(S)] :
           /\ k[0] = <<>> /\ k[Len(list)] = removeDuplicateStr(list)
           /\ \A i \in 1..Len(list) :
                k[i] = IF list[i] \in ToSet(k[i - 1]) THEN k[i - 1]
                       ELSE Append(k[i - 1], list[i])
  <1> DEFINE n == Len(list)
             D == DOMAIN list
             V == Seq(S)
             Kept(f, s) == IF list[Max(s)] \in ToSet(f[s \ {Max(s)}])
                           THEN f[s \ {Max(s)}]
                           ELSE Append(f[s \ {Max(s)}], list[Max(s)])
             Eq(f) == f = [s \in SUBSET D |->
                             IF s = {} THEN <<>> ELSE Kept(f, s)]
             it == CHOOSE f : Eq(f)
  <1>0. n \in Nat /\ D = 1..n /\ \A i \in D : list[i] \in S
    OBVIOUS
  <1>1. removeDuplicateStr(list) = it[D]
    BY DEF removeDuplicateStr, FoldLeft, MapThenFoldSet
  <1>2. \A s \in SUBSET D : s # {} => Max(s) \in s
    BY <1>0, GreatestBounded
  <1>3. \E f : Eq(f)
    <2> DEFINE c == [s \in SUBSET D |-> Max(s)]
               G == [s \in SUBSET D |-> [v \in V |->
                      IF list[Max(s)] \in ToSet(v) THEN v
                      ELSE Append(v, list[Max(s)])]]
    <2>1. IsFiniteSet(D)
      BY <1>0, FS_Interval
    <2>2. ChoosesFrom(c, D)
      BY <1>2 DEF ChoosesFrom
    <2>3. StepsIn(G, D, V)
      <3> SUFFICES ASSUME NEW s \in SUBSET D, NEW v \in V, s # {}
                   PROVE  G[s][v] \in V
        BY DEF StepsIn
      <3>1. list[Max(s)] \in S
        BY <1>0, <1>2
      <3>2. G[s][v] = IF list[Max(s)] \in ToSet(v) THEN v
                      ELSE Append(v, list[Max(s)])
        OBVIOUS
      <3>3. Append(v, list[Max(s)]) \in V
        BY <3>1
      <3> HIDE DEF G, V
      <3> QED
        BY <3>2, <3>3
    <2>4. <<>> \in V
      OBVIOUS
    <2>5. PICK g \in [SUBSET D -> V] : FoldOf(g, D, <<>>, c, G)
      <3> HIDE DEF D, V, c, G
      <3> QED
        BY <2>1, <2>2, <2>3, <2>4, FoldExists
    <2>6. ASSUME NEW s \in SUBSET D, s # {} PROVE g[s] = Kept(g, s)
      <3>1. g[s] = G[s][g[s \ {c[s]}]] /\ c[s] = Max(s)
        BY <2>5, <2>6 DEF FoldOf
      <3>2. g[s \ {Max(s)}] \in V
        OBVIOUS
      <3> QED
        BY <3>1, <3>2
    <2>7. {} \in SUBSET D /\ g[{}] = <<>>
      BY <2>5 DEF FoldOf
    <2>8. g = [s \in SUBSET D |-> IF s = {} THEN <<>> ELSE Kept(g, s)]
      <3> HIDE DEF Kept, D, V
      <3> QED
        BY <2>6, <2>7
    <2> QED
      BY <2>8
  <1>4. Eq(it)
    <2> HIDE DEF Eq
    <2> QED
      BY <1>3
  <1>5. it[{}] = <<>> /\ \A s \in SUBSET D : s # {} => it[s] = Kept(it, s)
    <2> HIDE DEF Kept, it, D
    <2> QED
      BY <1>4
  <1> HIDE DEF it
  <1> DEFINE k == [i \in 0..n |-> it[1..i]]
  <1>6. k[0] = <<>> /\ k[n] = it[D]
    <2>1. 1..0 = {} /\ 0 \in 0..n /\ n \in 0..n
      BY <1>0
    <2> QED
      BY <1>0, <1>5, <2>1
  <1>7. ASSUME NEW i \in 1..n
        PROVE  k[i] = IF list[i] \in ToSet(k[i - 1]) THEN k[i - 1]
                      ELSE Append(k[i - 1], list[i])
    <2>1. i \in Nat /\ i # 0 /\ i \in 0..n /\ i - 1 \in 0..n /\ 1..i \in SUBSET D
      BY <1>0
    <2>2. 1..i # {} /\ Max(1..i) = i /\ (1..i) \ {i} = 1..(i - 1)
      BY <2>1, LastOfPrefix
    <2>3. it[1..i] = Kept(it, 1..i)
      BY <1>5, <2>1, <2>2
    <2>4. k[i] = it[1..i] /\ k[i - 1] = it[1..(i - 1)]
      BY <2>1
    <2> HIDE DEF k
    <2> QED
      BY <2>2, <2>3, <2>4
  <1> HIDE DEF k
  <1>8. \A i \in 0..n : k[i] \in V
    <2> DEFINE T == {i \in Nat : i <= n => k[i] \in V}
    <2>1. 0 \in T
      <3>1. <<>> \in V
        OBVIOUS
      <3> HIDE DEF V
      <3> QED
        BY <1>6, <3>1
    <2>2. ASSUME NEW i \in T PROVE i + 1 \in T
      <3> SUFFICES ASSUME i + 1 <= n PROVE k[i + 1] \in V
        OBVIOUS
      <3>1. i + 1 \in 1..n /\ (i + 1) - 1 = i /\ k[i] \in V
        BY <1>0
      <3>2. list[i + 1] \in S
        BY <1>0, <3>1
      <3>3. Append(k[i], list[i + 1]) \in V
        BY <3>1, <3>2
      <3>4. k[i + 1] = IF list[i + 1] \in ToSet(k[i]) THEN k[i]
                       ELSE Append(k[i], list[i + 1])
        BY <1>7, <3>1
      <3> HIDE DEF V
      <3> QED
        BY <3>1, <3>3, <3>4
    <2>3. T \in SUBSET Nat
      OBVIOUS
    <2> HIDE DEF T
    <2>4. T = Nat
      BY <2>1, <2>2, <2>3, NatInduct
    <2> QED
      BY <1>0, <2>4 DEF T
  <1>9. k \in [0..n -> V]
    BY <1>8 DEF k
  <1> QED
    BY <1>1, <1>6, <1>7, <1>9

(* Where an address first stands in a list.                                *)
First(list, a) ==
  CHOOSE i \in DOMAIN list :
    list[i] = a /\ \A j \in 1..(i - 1) : list[j] # a

(* An address of the list has a first place, no later than any other.      *)
LEMMA FirstIsLeast ==
  ASSUME NEW S, NEW list \in Seq(S), NEW i \in DOMAIN list
  PROVE  LET f == First(list, list[i])
         IN /\ f \in 1..i /\ list[f] = list[i]
            /\ \A j \in 1..(f - 1) : list[j] # list[i]
  <1> DEFINE T == {j \in DOMAIN list : list[j] = list[i]}
             f == First(list, list[i])
  <1>1. DOMAIN list = 1..Len(list) /\ Len(list) \in Nat
    OBVIOUS
  <1>2. T \in SUBSET Nat /\ i \in T
    BY <1>1
  <1>3. PICK m \in T : \A j \in T : m <= j
    BY <1>2, LeastNat
  <1>4. m \in DOMAIN list /\ list[m] = list[i]
    OBVIOUS
  <1>5. \A j \in 1..(m - 1) : list[j] # list[i]
    <2> SUFFICES ASSUME NEW j \in 1..(m - 1), list[j] = list[i] PROVE FALSE
      OBVIOUS
    <2>1. j \in DOMAIN list /\ ~(m <= j)
      BY <1>1, <1>4
    <2> QED
      BY <1>3, <2>1
  <1>6. /\ f \in DOMAIN list /\ list[f] = list[i]
        /\ \A j \in 1..(f - 1) : list[j] # list[i]
    BY <1>4, <1>5 DEF First
  <1>7. f <= i
    <2> SUFFICES ASSUME ~(f <= i) PROVE FALSE
      OBVIOUS
    <2>1. i \in 1..(f - 1)
      BY <1>1, <1>6
    <2> QED
      BY <1>6, <2>1
  <1> HIDE DEF f
  <1>8. f \in 1..i
    BY <1>1, <1>6, <1>7
  <1> QED
    BY <1>6, <1>8 DEF f

(* The elements of a list with one more at its end.                        *)
LEMMA Appended ==
  ASSUME NEW S, NEW l \in Seq(S), NEW a \in S, NEW r, r = Append(l, a)
  PROVE  /\ Len(l) \in Nat /\ DOMAIN l = 1..Len(l) /\ DOMAIN r = 1..(Len(l) + 1)
         /\ \A p \in 1..Len(l) : r[p] = l[p]
         /\ r[Len(l) + 1] = a
  <1>1. Len(l) \in Nat /\ DOMAIN l = 1..Len(l)
    OBVIOUS
  <1>2. r \in Seq(S) /\ Len(r) = Len(l) + 1
    BY AppendProperties
  <1>3. DOMAIN r = 1..(Len(l) + 1)
    BY <1>2
  <1> QED
    BY <1>1, <1>3, AppendProperties

(* removeDuplicateStr keeps every address, and orders them by their first  *)
(* places in the list: so each once.                                       *)
LEMMA DuplicatesRemoved ==
  ASSUME NEW S, NEW list \in Seq(S)
  PROVE  LET l == removeDuplicateStr(list)
         IN /\ l \in Seq(S) /\ ToSet(l) = ToSet(list)
            /\ \A i, j \in DOMAIN l :
                 i < j => First(list, l[i]) < First(list, l[j])
  <1> DEFINE n == Len(list)
             Sorted(l) == \A i, j \in DOMAIN l :
                            i < j => First(list, l[i]) < First(list, l[j])
             Upto(i) == {list[j] : j \in 1..i}
  <1>1. n \in Nat /\ DOMAIN list = 1..n
    OBVIOUS
  <1>2. PICK k \in [0..n -> Seq(S)] :
          /\ k[0] = <<>> /\ k[n] = removeDuplicateStr(list)
          /\ \A i \in 1..n :
               k[i] = IF list[i] \in ToSet(k[i - 1]) THEN k[i - 1]
                      ELSE Append(k[i - 1], list[i])
    BY DuplicatesFold
  <1> DEFINE T == {i \in Nat : i <= n => ToSet(k[i]) = Upto(i) /\ Sorted(k[i])}
  <1>3. 0 \in T
    <2>1. ToSet(<<>>) = {} /\ 1..0 = {} /\ DOMAIN <<>> = {}
      BY DEF ToSet
    <2> QED
      BY <1>2, <2>1
  <1>4. ASSUME NEW i \in T PROVE i + 1 \in T
    <2> SUFFICES ASSUME i + 1 <= n
                 PROVE  ToSet(k[i + 1]) = Upto(i + 1) /\ Sorted(k[i + 1])
      OBVIOUS
    <2> DEFINE l == k[i]
               a == list[i + 1]
    <2>1. /\ i + 1 \in 1..n /\ (i + 1) - 1 = i /\ i \in 0..n
          /\ ToSet(l) = Upto(i) /\ Sorted(l)
      BY <1>1
    <2>2. Upto(i + 1) = Upto(i) \cup {a}
      <3>1. 1..(i + 1) = (1..i) \cup {i + 1}
        OBVIOUS
      <3> QED
        BY <3>1
    <2>3. k[i + 1] = IF a \in ToSet(l) THEN l ELSE Append(l, a)
      BY <1>2, <2>1
    <2>4. CASE a \in ToSet(l)
      BY <2>1, <2>2, <2>3, <2>4
    <2>5. CASE a \notin ToSet(l)
      <3>a. l \in Seq(S)
        BY <1>2, <2>1
      <3>b. a \in S
        BY <1>1, <2>1
      <3> DEFINE m == Len(l)
                 r == k[i + 1]
      <3>0. r = Append(l, a)
        BY <2>3, <2>5
      <3> HIDE DEF l, a, r
      <3>1. /\ m \in Nat /\ DOMAIN l = 1..m /\ DOMAIN r = 1..(m + 1)
            /\ \A p \in 1..m : r[p] = l[p]
            /\ r[m + 1] = a
        BY ONLY <3>a, <3>b, <3>0, Appended DEF m
      <3>2. ToSet(r) = ToSet(l) \cup {a}
        <4>1. 1..(m + 1) = (1..m) \cup {m + 1}
          BY <3>1
        <4> HIDE DEF m, r
        <4>2. ToSet(r) = {r[p] : p \in 1..m} \cup {r[m + 1]}
          BY <3>1, <4>1 DEF ToSet
        <4>3. {r[p] : p \in 1..m} = {l[p] : p \in 1..m}
          BY <3>1
        <4> QED
          BY <3>1, <4>2, <4>3 DEF ToSet
      <3>3. First(list, a) = i + 1
        <4>1. /\ First(list, a) \in 1..(i + 1)
              /\ list[First(list, a)] = a
          BY <1>1, <2>1, FirstIsLeast DEF a
        <4>2. First(list, a) \notin 1..i
          BY <2>1, <2>5, <4>1
        <4> QED
          BY <2>1, <4>1, <4>2
      <3>4. ASSUME NEW p \in 1..m
            PROVE  First(list, l[p]) < i + 1
        <4>1. l[p] \in Upto(i)
          BY <2>1, <3>1 DEF ToSet
        <4>2. PICK j \in 1..i : l[p] = list[j]
          BY <4>1
        <4>3. First(list, l[p]) \in 1..j
          BY <1>1, <2>1, <4>2, FirstIsLeast
        <4> QED
          BY <4>3
      <3>5. Sorted(r)
        <4> SUFFICES ASSUME NEW p \in 1..(m + 1), NEW q \in 1..(m + 1), p < q
                     PROVE  First(list, r[p]) < First(list, r[q])
          BY <3>1
        <4>0. m \in Nat
          BY <3>1
        <4>a. p \in 1..m
          <5> HIDE DEF m
          <5> QED
            BY <4>0
        <4>1. r[p] = l[p]
          BY <3>1, <4>a
        <4>2. CASE q = m + 1
          BY <3>1, <3>3, <3>4, <4>a, <4>1, <4>2
        <4>3. CASE q # m + 1
          <5>1. q \in 1..m
            <6> HIDE DEF m
            <6> QED
              BY <4>0, <4>3
          <5>2. r[q] = l[q]
            BY <3>1, <5>1
          <5> QED
            BY <2>1, <3>1, <4>a, <4>1, <5>1, <5>2
        <4> QED
          BY <4>2, <4>3
      <3> QED
        BY <2>1, <2>2, <3>2, <3>5 DEF r
    <2> QED
      BY <2>4, <2>5
  <1>5. T \in SUBSET Nat
    OBVIOUS
  <1> HIDE DEF T
  <1>6. n \in T
    BY <1>1, <1>3, <1>4, <1>5, NatInduct
  <1>7. ToSet(k[n]) = Upto(n) /\ Sorted(k[n])
    BY <1>1, <1>6 DEF T
  <1>8. Upto(n) = ToSet(list)
    BY <1>1 DEF ToSet
  <1> QED
    BY <1>2, <1>7, <1>8

-----------------------------------------------------------------------------
(* What follows for a run.                                                 *)

(* Every variable keeps its type over any number of restarts: errs never   *)
(* holds more than its capacity, Serf is called at most MaxSerfRetry + 1   *)
(* times, and no start writes the target file twice.                       *)
THEOREM TypeCorrect == Spec => []TypeOK
  BY StartInvariant, PTL DEF IInv

(* An error of ServeHttp other than a port in use stops main, whichever of *)
(* the two receivers of errs takes it.                                     *)
THEOREM ListenErrorIsFatal == Spec => []ListenErrorStops
<1>1. IInv => ListenErrorStops
  BY DEF IInv, StartInv, ListenErrorStops
<1> QED
  BY <1>1, StartInvariant, PTL

(* Tags are set only after a call of Serf that succeeded: the retries of   *)
(* StartSerfAgent never let main go on to the client API after a failure.  *)
THEOREM TagsSetAfterSerf == Spec => []TagsNeedSerf
<1>1. IInv => TagsNeedSerf
  BY DEF IInv, StartInv, TagsNeedSerf
<1> QED
  BY <1>1, StartInvariant, PTL

(* PortRange is what the two numbers of the gossip file ask for, for any   *)
(* numbers and any width of the port numbers.                              *)
THEOREM PortRangeCorrect == Spec => []PortRangeRight
<1>1. IInv => PortRangeRight
  <2> SUFFICES ASSUME IInv, main = "serf" PROVE PortRangeRight
    BY DEF PortRangeRight
  <2>1. /\ conf.S \in 0..(PortCount - 1) /\ conf.E \in 0..(PortCount - 1)
        /\ conf.range = makeRange(conf.S, conf.E)
    BY DEF IInv, TypeOK, StartInv
  <2> DEFINE r == makeRange(conf.S, conf.E)
  <2>2. /\ ToSet(r) = IF Wanted(conf.S, conf.E) = 0..(PortCount - 1) THEN {}
                      ELSE Wanted(conf.S, conf.E)
        /\ \A i, j \in DOMAIN r : r[i] = r[j] => i = j
    BY <2>1, MakeRangeRight
  <2> HIDE DEF r
  <2>3. conf.range = r
    BY <2>1 DEF r
  <2> QED
    BY <2>2, <2>3 DEF PortRangeRight, Wanted
<1> QED
  BY <1>1, StartInvariant, PTL

(* The node list handed to Serf: one entry, parsed, for each different     *)
(* text of the gossip file's line, in the order of their first places,     *)
(* however long the line is and whatever its texts parse to.               *)
THEOREM NodeList == Spec => []NodeListInOrder
<1>1. IInv => NodeListInOrder
  <2> DEFINE texts  == file.addrs
             l      == removeDuplicateStr(texts)
             firsts == {i \in DOMAIN texts :
                          \A j \in 1..(i - 1) : texts[j] # texts[i]}
             at     == [i \in DOMAIN conf.addrs |-> First(texts, l[i])]
  <2> SUFFICES ASSUME IInv, main = "serf"
               PROVE  /\ at \in [DOMAIN conf.addrs -> firsts]
                      /\ firsts \subseteq Range(at)
                      /\ \A i, j \in DOMAIN at : i < j => at[i] < at[j]
                      /\ \A i \in DOMAIN at :
                           conf.addrs[i] = ParseIP[texts[at[i]]]
    BY DEF NodeListInOrder
  <2>1. texts \in Seq(DOMAIN ParseIP)
    <3>1. file \in GossipFile \ {NoFile}
      BY DEF IInv, StartInv, TypeOK
    <3> QED
      BY <3>1, StartupAssumption
  <2>2. /\ ToSet(l) = ToSet(texts) /\ l \in Seq(DOMAIN ParseIP)
        /\ \A i, j \in DOMAIN l :
             i < j => First(texts, l[i]) < First(texts, l[j])
    BY <2>1, DuplicatesRemoved
  <2>3. /\ DOMAIN conf.addrs = DOMAIN l
        /\ \A i \in DOMAIN l : conf.addrs[i] = ParseIP[l[i]]
    BY DEF IInv, StartInv, addrList
  <2> HIDE DEF l
  <2>4. ASSUME NEW i \in DOMAIN l
        PROVE  First(texts, l[i]) \in firsts /\ texts[First(texts, l[i])] = l[i]
    <3>1. PICK j \in DOMAIN texts : texts[j] = l[i]
      BY <2>2 DEF ToSet
    <3>2. /\ First(texts, l[i]) \in 1..j /\ texts[First(texts, l[i])] = l[i]
          /\ \A m \in 1..(First(texts, l[i]) - 1) : texts[m] # l[i]
      BY <2>1, <3>1, FirstIsLeast
    <3>3. First(texts, l[i]) \in DOMAIN texts
      BY <2>1, <3>1, <3>2
    <3> QED
      BY <3>2, <3>3
  <2>5. ASSUME NEW f \in firsts
        PROVE  f \in Range(at)
    <3>1. PICK i \in DOMAIN l : l[i] = texts[f]
      BY <2>2 DEF ToSet
    <3>2. /\ First(texts, l[i]) \in 1..f
          /\ texts[First(texts, l[i])] = texts[f]
      BY <2>1, <3>1, FirstIsLeast
    <3>3. First(texts, l[i]) = f
      BY <2>1, <3>2
    <3> QED
      BY <2>3, <3>1, <3>3 DEF Range
  <2> QED
    BY <2>2, <2>3, <2>4, <2>5
<1> QED
  BY <1>1, StartInvariant, PTL

(* Once main is past the liveness probe, the port is this process's own,   *)
(* if no other process has ever taken it.                                  *)
PortInv ==
  others = 0 =>
    /\ port # "other"
    /\ main \in {"gossip", "serf", "client", "start", "monitor"}
         => port = "self"

(* Only another process on the port lets main go on without the port: the  *)
(* retries, the restarts and the channel do not.  ServesOwnPort, which the *)
(* source claims without the condition, is false (run own_port).           *)
THEOREM OwnPortUnlessTaken == Spec => [](others = 0 => ServesOwnPort)
<1>1. Init => PortInv
  BY DEF Init, PortInv
<1>2. IInv /\ PortInv /\ [Next]_vars => PortInv'
  <2> SUFFICES ASSUME IInv, PortInv, [Next]_vars PROVE PortInv'
    OBVIOUS
  <2>1. CASE HttpStarter
    <3>1. CASE ServeHttp
      BY <3>1 DEF ServeHttp, PortInv, mainVars, worldVars
    <3>2. CASE Serve
      BY <3>2 DEF Serve, PortInv, mainVars, worldVars
    <3>3. CASE Send
      BY <3>3 DEF Send, ReceiveErr, PortInv, mainVars, worldVars
    <3>4. CASE Take
      BY <3>4 DEF Take, PortInv, mainVars, worldVars
    <3> QED
      BY <2>1, <3>1, <3>2, <3>3, <3>4 DEF HttpStarter
  <2>2. CASE Main
    <3>1. CASE Receive
      BY <3>1 DEF Receive, ReceiveErr, PortInv, mainVars, worldVars
    <3>2. CASE CheckHTTPLiveness
      BY <3>2 DEF CheckHTTPLiveness, Answers, PortInv, mainVars, worldVars
    <3>3. CASE LoadConfigInfo
      BY <3>3 DEF LoadConfigInfo, PortInv, mainVars, worldVars
    <3>4. CASE StartSerfAgent
      BY <3>4 DEF StartSerfAgent, PortInv, mainVars, worldVars
    <3>5. CASE StartClientAPI
      BY <3>5 DEF StartClientAPI, PortInv, mainVars, worldVars
    <3>6. CASE Start
      BY <3>6 DEF Start, PortInv, mainVars, worldVars
    <3> QED
      BY <2>2, <3>1, <3>2, <3>3, <3>4, <3>5, <3>6 DEF Main
  <2>3. CASE StartUDPListner
    BY <2>3 DEF StartUDPListner, PortInv, mainVars, worldVars
  <2>4. CASE World
    <3>1. CASE Restart
      BY <3>1 DEF Restart, PortInv, TypeOK, IInv
    <3>2. CASE OtherBinds
      <4>1. others \in Nat /\ others' = others + 1
        BY <3>2, StartupAssumption DEF OtherBinds, IInv, TypeOK
      <4> QED
        BY <4>1 DEF PortInv
    <3>3. CASE OtherLeaves
      BY <3>3 DEF OtherLeaves, PortInv, mainVars, worldVars
    <3> QED
      BY <2>4, <3>1, <3>2, <3>3 DEF World
  <2>5. CASE UNCHANGED vars
    BY <2>5 DEF vars, PortInv
  <2> QED
    BY <2>1, <2>2, <2>3, <2>4, <2>5 DEF Next
<1>3. PortInv => (others = 0 => ServesOwnPort)
  BY DEF PortInv, ServesOwnPort
<1> QED
  BY <1>1, <1>2, <1>3, StartInvariant, PTL DEF Spec
=============================================================================
