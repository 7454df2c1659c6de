--------------------------- MODULE ShortestRoutes ---------------------------
(***************************************************************************)
(* The routes of model/ofswitch13-dijkstra-controller.cc: the constructor  *)
(* reads the topology and runs ComputeRoute for every pair of switches.    *)
(*                                                                         *)
(* A switch is its place in m_switch_list, and the port that m_portinfo    *)
(* names between two switches is the neighbour it leads to.  Reading the   *)
(* file is the choice of one of the Topologies.  The edges that are        *)
(* "reserved" are never asked for and are left out.                        *)
(***************************************************************************)
EXTENDS Naturals, FiniteSets, Sequences, SequencesExt

CONSTANTS
  V,              \* number of switches
  Topologies,     \* m_nettopo: matrices of weights, 0 for no link
  INT_MAX         \* larger than any sum of weights

Vertices == 1..V        \* the places in m_switch_list

ASSUME VAssumption == V \in Nat \ {0}
\* The weights of a topology are so small that no sum of V of them reaches INT_MAX.
ASSUME TopologiesAssumption ==
  /\ INT_MAX \in Nat
  /\ \A t \in Topologies :
       \E most \in 0..INT_MAX : /\ V * most < INT_MAX
                                /\ t \in [Vertices -> [Vertices -> 0..most]]
                                /\ \A a, b \in Vertices : t[a][b] = t[b][a]

VARIABLES
  m_nettopo,      \* the topology that was read
  m_routes,       \* the routes known so far, by source and destination
  src, dst,       \* the pair ComputeRoute works for
  dist, prev,     \* distance from src, and the switch before on the way; 0 is -1
  sptSet,         \* switches whose distance is final
  res, u          \* the route as it is read back from u; u is 0 before

route_vars == <<m_nettopo, m_routes, src, dst, dist, prev, sptSet, res, u>>

DistFrom(a) == [v \in Vertices |-> IF v = a THEN 0 ELSE INT_MAX]
NoPrev == [v \in Vertices |-> 0]

Begin(a, b) ==
  /\ src' = a /\ dst' = b
  /\ dist' = DistFrom(a)
  /\ prev' = NoPrev
  /\ sptSet' = {}
  /\ res' = <<>>
  /\ u' = 0

Computing == src <= V

\* The loop over count: V - 1 rounds at most, none after the one that took dst.
Searching == Computing /\ u = 0 /\ src # dst /\ dst \notin sptSet /\ Cardinality(sptSet) < V - 1

\* minDistance draws one of the nearest switches that are not final.
Nearest == {v \in Vertices \ sptSet : \A w \in Vertices \ sptSet : dist[v] <= dist[w]}

\* The switches that v, now final, is a better way to.
Closer(v) == {w \in Vertices \ sptSet : /\ v # w /\ m_nettopo[v][w] # 0
                                        /\ dist[v] # INT_MAX
                                        /\ dist[v] + m_nettopo[v][w] < dist[w]}

Settle(v) ==
  /\ Searching
  /\ v \in Nearest
  /\ sptSet' = sptSet \cup {v}
  /\ LET closer == IF v = dst THEN {} ELSE Closer(v) IN
       /\ dist' = [w \in Vertices |-> IF w \in closer THEN dist[v] + m_nettopo[v][w] ELSE dist[w]]
       /\ prev' = [w \in Vertices |-> IF w \in closer THEN v ELSE prev[w]]
  /\ UNCHANGED <<m_nettopo, m_routes, src, dst, res, u>>

\* One round of the loop that reads the route back along prev.
Trace ==
  /\ Computing /\ ~Searching /\ src # dst
  /\ LET at == IF u = 0 THEN dst ELSE u IN
       /\ prev[at] # 0
       /\ res' = <<at>> \o res
       /\ u' = prev[at]
  /\ UNCHANGED <<m_nettopo, m_routes, src, dst, dist, prev, sptSet>>

\* Mutant: the way back is not reversed.
StoreUnreversed(route) == [m_routes EXCEPT ![src][dst] = route, ![dst][src] = route]

Store(route) == [m_routes EXCEPT ![src][dst] = route, ![dst][src] = Reverse(route)]

\* The constructor keeps the route and its reverse and goes on with the next pair.
Keep ==
  /\ Computing /\ ~Searching
  /\ src # dst => prev[IF u = 0 THEN dst ELSE u] = 0
  /\ m_routes' = Store(IF src = dst THEN <<src>>
                       ELSE IF res = <<>> THEN res ELSE <<src>> \o res)
  /\ IF dst < V THEN Begin(src, dst + 1) ELSE Begin(src + 1, src + 1)
  /\ UNCHANGED m_nettopo

RouteInit ==
  /\ m_nettopo \in Topologies
  /\ m_routes = [a \in Vertices |-> [b \in Vertices |-> <<>>]]
  /\ src = 1 /\ dst = 1
  /\ dist = DistFrom(1)
  /\ prev = NoPrev
  /\ sptSet = {}
  /\ res = <<>>
  /\ u = 0

RouteNext == (\E v \in Vertices : Settle(v)) \/ Trace \/ Keep

RouteSpec == RouteInit /\ [][RouteNext]_route_vars

-----------------------------------------------------------------------------
(* What a shortest route is, without an algorithm *)

\* The sum of the weights of the topology t along a route.
Cost(t, route) ==
  LET sum[k \in 1..Len(route)] == IF k = 1 THEN 0 ELSE sum[k - 1] + t[route[k - 1]][route[k]]
  IN  sum[Len(route)]

IsWay(t, route, a, b) ==
  /\ route # <<>> /\ Head(route) = a /\ Last(route) = b
  /\ \A k \in 1..(Len(route) - 1) : t[route[k]][route[k + 1]] # 0

\* All the ways without a switch twice.
Ways(t, a, b) == {route \in UNION {[1..n -> Vertices] : n \in Vertices} :
                    IsInjective(route) /\ IsWay(t, route, a, b)}

IsShortest(t, route, a, b) ==
  LET ways == Ways(t, a, b) IN
  IF ways = {} THEN route = <<>>
  ELSE route \in ways /\ \A way \in ways : Cost(t, route) <= Cost(t, way)

AllShortest == \A a, b \in Vertices : IsShortest(m_nettopo, m_routes[a][b], a, b)

\* When the constructor is done, m_routes holds a way of the lowest cost between
\* any two switches, in both directions, and none only where there is none:
\* whatever ties minDistance broke.
RoutesAreShortest == [][Computing /\ ~Computing' => AllShortest']_route_vars
=============================================================================
