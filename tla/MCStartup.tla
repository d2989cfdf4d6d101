----------------------------- MODULE MCStartup ------------------------------
(***************************************************************************)
(* Instances of Startup for TLC: the gossip files.                         *)
(***************************************************************************)
EXTENDS Startup

File(addrs, numbers) == [addrs |-> addrs, numbers |-> numbers]

(* "a" and "A" are one IP written in two ways; "x" is no address.          *)
SomeIPs == [t \in {"a", "A", "b", "x"} |->
              CASE t \in {"a", "A"} -> "ip1" [] t = "b" -> "ip2" [] OTHER -> "nil"]

(* No file; lines of up to three texts, with repetitions; every pair of    *)
(* numbers, below and beyond the ports there are; one number.              *)
SomeFiles ==
  LET numbers == (-1)..PortCount
  IN {NoFile, File(<<"a">>, <<1>>)}
     \cup {File(l, <<1, 2>>) : l \in UNION {[1..n -> DOMAIN SomeIPs] : n \in 1..3}}
     \cup {File(<<"a">>, <<s, e>>) : s, e \in numbers}

OneFile == {NoFile, File(<<"a", "b">>, <<1, 2>>)}
=============================================================================
