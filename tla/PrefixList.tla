---------------------------- MODULE PrefixList ----------------------------
(***************************************************************************)
(* The FRR prefix list that says of which provider networks BGP may        *)
(* announce addresses (ReconcileFRRPrefixList of routing.go): one entry    *)
(* per network, under a sequence number.  ...Cut: a vtysh call fails, which *)
(* is returned, or the process is killed between two calls.  HostCycle     *)
(* calls them.                                                             *)
(***************************************************************************)
EXTENDS Integers, FiniteSets, Functions

VARIABLE prefixes   \* sequence number of each network that has an entry

Listed  == DOMAIN prefixes
Numbers == Range(prefixes)

PrefixTypeOK(Net) == Listed \subseteq Net /\ prefixes \in [Listed -> Nat]

PrefixInit == prefixes = <<>>

\* Entries are added five apart, above every number listed; in which order the
\* networks come is open.
Mut_NumbersRestart(missing) ==
  {f \in [missing -> {5 * i : i \in 1 .. Cardinality(missing)}] : IsInjective(f)}
NewNumbers(missing) ==
  UNION { {f \in [missing -> {max + 5 * i : i \in 1 .. Cardinality(missing)}] :
             IsInjective(f)} :
          max \in {m \in Numbers \cup {0} : \A s \in Numbers : s <= m} }

With(new) ==
  [n \in Listed \cup DOMAIN new |-> IF n \in Listed THEN prefixes[n] ELSE new[n]]

\* All missing entries, then the stale ones go.
ReconcileFRRPrefixList(want) ==
  \E new \in NewNumbers(want \ Listed) : prefixes' = Restrict(With(new), want)

ReconcileFRRPrefixListCut(want) ==
  \/ \E some \in SUBSET (want \ Listed) : \E new \in NewNumbers(some) :
       prefixes' = With(new)
  \/ \E new \in NewNumbers(want \ Listed), stale \in SUBSET (Listed \ want) :
       prefixes' = Restrict(With(new), want \cup stale)

\* FRR comes back without what was not saved.
PrefixLost(net) == net \in Listed /\ prefixes' = Restrict(prefixes, Listed \ {net})
=============================================================================
