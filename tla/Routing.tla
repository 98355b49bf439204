------------------------------ MODULE Routing ------------------------------
(***************************************************************************)
(* FindPath (qln/routing.go): the path with the best price through the     *)
(* channels that a node has heard of.  A vertex is a node, the coin with   *)
(* which it pays on, and whether it is the end of the payment.             *)
(*                                                                         *)
(* Rates are powers of ten.  A link of g.links is [from, to, coin, cap];   *)
(* g.rates[<<n, c, d>>] is the exponent at which node n takes coin c and   *)
(* pays on in coin d, a negative one for a reciprocal rate; g.fee is       *)
(* defined on the coins that are registered.                               *)
(***************************************************************************)
EXTENDS Integers, Sequences, FiniteSets

MinOutput == 2

LowestOf(S) == CHOOSE x \in S : \A y \in S : x <= y

LinksOf(g, n) == {l \in g.links : l.from = n}
CoinsOf(g, n) == {l.coin : l \in LinksOf(g, n)}

(* -math.Log(price), in units of the last place of log(10), for which      *)
(* LogTen stands.  In float64 the logarithm of 1/10 is one unit, that of   *)
(* 1/100 two units short of the negated one of 10 and of 100: there and    *)
(* back again sums to less than nothing.                                   *)
LogTen == 1000
MinusLog(e) == IF e >= 0 THEN - e * LogTen ELSE - e * (LogTen - 1)

Edge(l, v, e) ==
    [u |-> <<l.from, l.coin, FALSE>>, v |-> v, rate |-> e, w |-> MinusLog(e), cap |-> l.cap]

(* From a channel to everything its far end can trade for, and to the far  *)
(* end as the receiver.                                                    *)
Edges(g) ==
    UNION {{Edge(l, <<l.to, d, FALSE>>, g.rates[<<l.to, l.coin, d>>]) :
                d \in {c \in CoinsOf(g, l.to) : <<l.to, l.coin, c>> \in DOMAIN g.rates}}
           \cup {Edge(l, <<l.to, l.coin, TRUE>>, 0)} : l \in g.links}
Vertices(es) == {e.u : e \in es} \cup {e.v : e \in es}

(* Bellman-Ford from a vertex joined to all others by edges of weight 0.   *)
Relaxed(es, d) ==
    [v \in DOMAIN d |-> LowestOf({d[v]} \cup {d[e.u] + e.w : e \in {x \in es : x.v = v}})]
RECURSIVE RelaxTimes(_, _, _)
RelaxTimes(es, d, n) ==
    LET next == Relaxed(es, d)
    IN IF n = 0 \/ next = d THEN d ELSE RelaxTimes(es, next, n - 1)
Distances(es) == RelaxTimes(es, [v \in Vertices(es) |-> 0], Cardinality(Vertices(es)))

NegativeCycle(es) == LET d == Distances(es) IN \E e \in es : d[e.u] + e.w < d[e.v]

Reweighted(es) == LET d == Distances(es) IN {[e EXCEPT !.w = @ + d[e.u] - d[e.v]] : e \in es}

(* Dijkstra over the new weights.  A heap entry keeps the amount that      *)
(* arrived when it was pushed, dist the best distance found since.         *)
Entry(v, dist, amt) == [node |-> v, dist |-> dist, amt |-> amt]
StartSearch(es, me, amount) ==
    [es |-> Reweighted(es), dist |-> [v \in {me} |-> 0], pred |-> <<>>,
     heap |-> {Entry(me, 0, amount)}]

NextAmt(amt, rate) == IF rate >= 0 THEN amt * 10 ^ rate ELSE amt \div 10 ^ (- rate)
(* Mutant: whatever room the channel has.                                  *)
Usable_AnyCapacity(g, s, x) ==
    {e \in s.es : /\ e.u = x.node
                  /\ x.node[2] \in DOMAIN g.fee
                  /\ x.amt >= MinOutput + g.fee[x.node[2]]
                  /\ e.v \in DOMAIN s.dist => s.dist[x.node] + e.w < s.dist[e.v]}

Usable(g, s, x) ==
    {e \in s.es : /\ e.u = x.node
                  /\ x.node[2] \in DOMAIN g.fee
                  /\ x.amt >= MinOutput + g.fee[x.node[2]]
                  /\ x.amt <= e.cap
                  /\ e.v \in DOMAIN s.dist => s.dist[x.node] + e.w < s.dist[e.v]}

Nearest(s) == {x \in s.heap : \A y \in s.heap : x.dist <= y.dist}
PopNode(g, s, x) ==
    LET new == Usable(g, s, x)
        to(v) == CHOOSE e \in new : e.v = v
        reached == {e.v : e \in new}
        far(v) == s.dist[x.node] + to(v).w
    IN [s EXCEPT !.dist = [v \in DOMAIN @ \cup reached |-> IF v \in reached THEN far(v) ELSE @[v]],
                 !.pred = [v \in DOMAIN @ \cup reached |-> IF v \in reached THEN x.node ELSE @[v]],
                 !.heap = (@ \ {x}) \cup {Entry(v, far(v), NextAmt(x.amt, to(v).rate)) : v \in reached}]

RECURSIVE RouteTo(_, _)
RouteTo(s, v) == IF v \in DOMAIN s.pred THEN Append(RouteTo(s, s.pred[v]), v) ELSE <<v>>

-----------------------------------------------------------------------------
(* What to expect of it: every way through the channels.                   *)
RECURSIVE Ways(_, _, _)
Ways(es, path, target) ==
    IF path[Len(path)] = target THEN {path}
    ELSE UNION {Ways(es, Append(path, e.v), target) :
                  e \in {x \in es : x.u = path[Len(path)] /\ x.v \notin {path[i] : i \in 1 .. Len(path)}}}

EdgeOf(es, u, v) == CHOOSE e \in es : e.u = u /\ e.v = v
(* The price of a path, as an exponent: what the rates of its edges come to. *)
RECURSIVE Price(_, _)
Price(es, path) ==
    IF Len(path) = 1 THEN 0 ELSE EdgeOf(es, path[1], path[2]).rate + Price(es, Tail(path))

(* What each way round that ends where it began gains.                     *)
Rounds(es) == UNION {{e.rate + Price(es, p) : p \in Ways(es, <<e.v>>, e.u)} : e \in es}

(* The amount that is sent into path reaches its end.                      *)
RECURSIVE Carries(_, _, _, _)
Carries(g, es, path, amt) ==
    Len(path) = 1 \/ LET e == EdgeOf(es, path[1], path[2])
                     IN /\ e.u[2] \in DOMAIN g.fee /\ amt >= MinOutput + g.fee[e.u[2]] /\ amt <= e.cap
                        /\ Carries(g, es, Tail(path), NextAmt(amt, e.rate))

=============================================================================
