---------------------------- MODULE PortForward ----------------------------
(***************************************************************************)
(* Port forwarding from the VIPs to their backends: the addresses, the     *)
(* nftables table with its guard of the veth pair, and the policy routing  *)
(* of both directions (nftables.go, nftables_linux.go).  ...Cut: a step    *)
(* fails, which is returned, or the process is killed between two steps;   *)
(* ...Fails: a step of the teardown fails.  HostCycle calls them.          *)
(***************************************************************************)
EXTENDS FiniteSets

CONSTANTS VIP, NoTable

VARIABLES
  vips,   \* managed VIPs present on port_forward_dev
  nft,    \* the nftables table, or NoTable
  dnat    \* what there is of the policy routing

forwardVars == <<vips, nft, dnat>>

\* ip rule for each direction, and the default route of the reply table, which
\* leads across the veth pair.
DNATRouting == {"forward rule", "reply rule", "reply route"}
DNATStages  == {{}, {"forward rule"}, {"forward rule", "reply rule"}, DNATRouting}

ForwardTypeOK(Net, Address) ==
  /\ vips \subseteq VIP
  /\ nft \in [accept : SUBSET Net, hairpin : SUBSET Net, router : SUBSET Address] \cup {NoTable}
  /\ dnat \subseteq DNATRouting

ForwardInit == vips = {} /\ nft = NoTable /\ dnat = {}

\* buildNftRuleset, of which only what depends on the state of OVN is kept: the
\* sources forward_veth_guard accepts, and those the two selective masquerades
\* apply to.
buildNftRuleset(hairpinMasquerade, routerMasquerade, networks, snatIPs) ==
  [accept  |-> networks,
   hairpin |-> IF hairpinMasquerade THEN networks ELSE {},
   router  |-> IF routerMasquerade THEN snatIPs ELSE {}]

-----------------------------------------------------------------------------
(***************************************************************************)
(* SetupPortForward and ReconcilePortForward: the addresses, the table in  *)
(* one transaction, the rules and the route.  Without the veth pair the    *)
(* setup fails before the rules and the reconcile before the route.        *)
(***************************************************************************)
ApplyPortForward(table, routing) ==
  vips' = VIP /\ nft' = table /\ dnat' = dnat \cup routing

ApplyPortForwardCut(table) ==
  \/ \E s \in SUBSET VIP : vips' = vips \cup s /\ UNCHANGED <<nft, dnat>>
  \/ \E r \in DNATStages : ApplyPortForward(table, r \ {"reply route"})

\* TeardownPortForward: every step is tried.
TeardownPortForward == vips' = {} /\ nft' = NoTable /\ dnat' = {}

TeardownPortForwardCut ==
  /\ nft' = NoTable
  /\ \/ \E r \in DNATStages : dnat' = dnat \ r /\ UNCHANGED vips
     \/ \E s \in SUBSET vips : vips' = s /\ dnat' = {}

TeardownPortForwardFails ==
  /\ nft' \in {nft, NoTable}
  /\ \E r \in SUBSET dnat, s \in SUBSET vips : dnat' = r /\ vips' = s

-----------------------------------------------------------------------------
(* Other hands: a firewall reload flushes the ruleset. *)
TableLost == nft # NoTable /\ nft' = NoTable /\ UNCHANGED <<vips, dnat>>
=============================================================================
