------------------------------ MODULE Metrics -------------------------------
(***************************************************************************)
(* What an application object keeps of an answer (SetCtlIfOut), what it    *)
(* needs to report itself (LoadSystemInfo, Parse), and how the fields of a *)
(* reported struct become Prometheus samples (pkg/monitor/applications,    *)
(* pkg/prometheusHandler).  No state: Comms uses these definitions.        *)
(***************************************************************************)
EXTENDS Integers, Sequences, FiniteSets, SequencesExt

(* The parts of a CtlIfOut that a report dereferences or indexes: SysInfo, *)
(* NISDRootEntry, NiorqMgr, Nclient, RaftRootEntry, and Pmdb's own         *)
(* RaftRootEntry, which is not the one in its EPInfo.  The others are only *)
(* ranged over.                                                            *)
Section == {"sys", "root", "niorq", "nclient", "raft", "ownRaft"}

(* A slice is stored length first: in between, a reader finds a length     *)
(* without an array ("torn").  A pointer is stored at once.                *)
Slice == {"root", "niorq", "raft", "ownRaft"}

Presence == {"nil", "torn", "set"}

NoContent == [s \in Section |-> "nil"]

(* What a complete answer to the info command of an application carries.   *)
Carries(a) ==
  CASE a = "NISD"    -> {"sys", "root", "niorq"}
    [] a = "NCLIENT" -> {"sys", "nclient", "niorq"}
    [] a = "PMDB"    -> {"sys"}

(* Mutants: SysInfo first; SysInfo forgotten.                              *)
NisdSysFirst == <<"sys", "root", "niorq">>

NisdNoSys == <<"niorq", "root">>

(* SetCtlIfOut: the sections an application takes over, in that order.     *)
NisdSetCtlIfOut == <<"niorq", "root", "sys">>

NclientSetCtlIfOut == <<"nclient", "sys", "niorq">>

PmdbSetCtlIfOut == <<"raft">>

SetCtlIfOut(a) ==
  CASE a = "NISD"         -> NisdSetCtlIfOut
    [] a = "NCLIENT"      -> NclientSetCtlIfOut
    [] a = "PMDB"         -> PmdbSetCtlIfOut
    [] a = "unrecognized" -> <<>>

(* LoadSystemInfo of an object with content o: labels, none (the endpoint  *)
(* is then skipped), or a nil dereference.                                 *)
NisdLoadSystemInfo(o) == IF o["sys"] = "set" THEN "labels" ELSE "skip"

DerefSysInfo(o) == IF o["sys"] = "set" THEN "labels" ELSE "panic"

LoadSystemInfo(a, o) ==
  CASE a = "NISD"              -> NisdLoadSystemInfo(o)
    [] a \in {"PMDB", "NCLIENT"} -> DerefSysInfo(o)
    [] a = "unrecognized"      -> "skip"

(* Parse: what it dereferences, in that order.  A NISD without root entry  *)
(* writes an empty report.                                                 *)
NisdParse(o) ==
  IF o["root"] = "nil" THEN <<>> ELSE <<"root", "niorq", "root", "sys">>

NclientParse == <<"nclient", "niorq", "sys">>

PmdbParse == <<"ownRaft", "sys">>

Parse(a, o) ==
  CASE a = "NISD"         -> NisdParse(o)
    [] a = "NCLIENT"      -> NclientParse
    [] a = "PMDB"         -> PmdbParse
    [] a = "unrecognized" -> <<>>

-----------------------------------------------------------------------------
(* The Prometheus samples of a struct whose fields have a value and the    *)
(* tags type and metric.  The bound of a bucket is its field's json tag.   *)

(* Mutant: the loop over the buckets ends one field early.                 *)
parseHistogramShort(h) ==
  [b \in {b \in DOMAIN h : h[b] # 0 /\ \E c \in DOMAIN h : c > b} |-> h[b]]

(* The buckets that are not empty.                                         *)
parseHistogram(h) == [b \in {b \in DOMAIN h : h[b] # 0} |-> h[b]]

totalObservation(h) ==
  LET m == parseHistogram(h)
  IN FoldFunction(LAMBDA a, b : a + b, 0, m)

Sample(n, ge, l, v) == [name |-> n, ge |-> ge, labels |-> l, value |-> v]

NoBound == 0

(* The elements of a sequence go up.                                       *)
Ascends(s) == \A i, j \in DOMAIN s : i < j => s[i] < s[j]

(* sort.Ints of the bounds in a map.                                       *)
Ascending(S) == CHOOSE s \in [1..Cardinality(S) -> S] : Ascends(s)

(* One sample per bucket, by increasing bound, then the total, which       *)
(* carries no labels.                                                      *)
makePromHistogram(m, l, h) ==
  LET buckets == parseHistogram(h)
      bounds  == Ascending(DOMAIN buckets)
  IN Append([i \in DOMAIN bounds |->
               Sample(<<m, "bucket">>, bounds[i], l, buckets[bounds[i]])],
            Sample(<<m, "count">>, NoBound, {}, totalObservation(h)))

(* A field with another type tag, or none, is left out.                    *)
samples(f, l) ==
  CASE f.type = "histogram" -> makePromHistogram(f.metric, l, f.value)
    [] f.type \in {"counter", "gauge", "untype"} ->
         <<Sample(<<f.metric>>, NoBound, l, f.value)>>
    [] OTHER -> <<>>

GenericPromDataParser(fields, l) ==
  FlattenSeq([i \in DOMAIN fields |-> samples(fields[i], l)])

(* A report loses nothing of a struct, read back from the samples alone:   *)
(* for every histogram h with bounds B and counts up to n, next to a plain *)
(* field and an untagged one, no sample is there twice; each bucket that   *)
(* is not empty has one, in the order of the bounds; the count is the sum  *)
(* of all buckets; the plain field is one labelled sample; the untagged    *)
(* one is left out.                                                        *)
LosslessOn(B, n) ==
  LET l == {"uuid"}
      fields(h, v) == <<[type |-> "gauge", metric |-> "g", value |-> v],
                        [type |-> "histogram", metric |-> "h", value |-> h],
                        [type |-> "", metric |-> "u", value |-> v]>>
  IN \A h \in [B -> 0..n], v \in 0..n :
       LET out     == GenericPromDataParser(fields(h, v), l)
           buckets == {i \in DOMAIN out : out[i].name = <<"h", "bucket">>}
           read(b) == {out[i].value : i \in {j \in buckets : out[j].ge = b}}
       IN /\ IsInjective(out)
          /\ \A i, j \in buckets : i < j => out[i].ge < out[j].ge
          /\ \A b \in B : read(b) = IF h[b] = 0 THEN {} ELSE {h[b]}
          /\ \A i \in buckets : out[i].labels = l
          /\ {out[i] : i \in DOMAIN out \ buckets} =
               {Sample(<<"g">>, NoBound, l, v),
                Sample(<<"h", "count">>, NoBound, {},
                       FoldFunction(LAMBDA a, b : a + b, 0, h))}
=============================================================================
