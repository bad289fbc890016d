---------------------------- MODULE TreeLemmas -------------------------------
(***************************************************************************)
(* What a dependency tree looks like: the way up from a token reaches whatever  *)
(* the arcs lead to, and the arcs of a projective tree do not cross.  And what a  *)
(* shift and an arc do to a stack of tokens, to the tokens below each token of    *)
(* it, and to the gold arcs still to be drawn.                                *)
(***************************************************************************)
EXTENDS DependencyTrees, DataLemmas

(* The way up in a dependency analysis, step by step. *)
IsClimb(up, head, n, t) ==
  /\ up[0] = {t}
  /\ \A k \in 1 .. n : up[k] = up[k - 1] \cup {head[u] : u \in up[k - 1] \ {-1}}

(* Upward is the last set of a climb. *)
LEMMA Climbs ==
  ASSUME NEW n \in Nat, NEW head \in Analyses(n), NEW t \in -1 .. n - 1
  PROVE  \E up \in [0 .. n -> SUBSET (-1 .. n - 1)] :
           IsClimb(up, head, n, t) /\ up[n] = Upward(head, n, t)
<1> DEFINE W == -1 .. n - 1
           V == SUBSET W
           Heads(s) == {head[u] : u \in s \ {-1}}
           F == [p \in V \X (1 .. n) |-> p[1] \cup Heads(p[1])]
           Loop(f) == [k \in 0 .. n |-> IF k = 0 THEN {t} ELSE f[k - 1] \cup Heads(f[k - 1])]
<1>1. \A s \in V : s \cup Heads(s) \in V
  <2>1. \A u \in W \ {-1} : head[u] \in W
    BY DEF Analyses
  <2> HIDE DEF W
  <2> QED
    BY <2>1, Zenon
<1>2. F \in [V \X (1 .. n) -> V]
  BY <1>1
<1>3. {t} \in V
  OBVIOUS
<1>4. \A s \in V, k \in 1 .. n : F[<<s, k>>] = s \cup Heads(s)
  BY Zenon
<1>5. PICK g \in [0 .. n -> V] : IsLoop(g, {t}, n, F)
  <2> HIDE DEF F, V
  <2> QED
    BY <1>2, <1>3, LoopExists, Zenon
<1>6. /\ g[0] = {t}
      /\ \A k \in 1 .. n : g[k - 1] \in V /\ g[k] = g[k - 1] \cup Heads(g[k - 1])
  <2>1. \A k \in 1 .. n : g[k - 1] \in V
    OBVIOUS
  <2> HIDE DEF F, V, Heads
  <2> QED
    BY <1>4, <1>5, <2>1, Zenon DEF IsLoop
<1>7. g = Loop(g)
  <2> HIDE DEF Heads, V
  <2>1. \A k \in 0 .. n : g[k] = Loop(g)[k]
    BY <1>6
  <2> QED
    BY <2>1
<1> DEFINE up == CHOOSE f : f = Loop(f)
<1>8. up = Loop(up)
  <2> HIDE DEF Loop
  <2> QED
    BY <1>7, Zenon
<1>9. up[0] = {t} /\ \A k \in 1 .. n : up[k] = up[k - 1] \cup Heads(up[k - 1])
  <2>1. \A f : \A k \in 0 .. n :
          Loop(f)[k] = IF k = 0 THEN {t} ELSE f[k - 1] \cup Heads(f[k - 1])
    OBVIOUS
  <2> HIDE DEF up, Heads, Loop
  <2>2. \A k \in 0 .. n : up[k] = IF k = 0 THEN {t} ELSE up[k - 1] \cup Heads(up[k - 1])
    BY <1>8, <2>1, Zenon
  <2>3. 0 \in 0 .. n /\ \A k \in 1 .. n : k \in 0 .. n /\ k # 0
    OBVIOUS
  <2> QED
    BY <2>2, <2>3, Zenon
<1>10. up[n] = Upward(head, n, t)
  BY DEF Upward
<1>11. \A k \in 0 .. n : up[k] = g[k]
  <2> DEFINE T == {k \in Nat : k <= n => up[k] = g[k]}
  <2> HIDE DEF up, Heads
  <2>1. 0 \in T
    BY <1>6, <1>9, Zenon
  <2>2. ASSUME NEW k \in Nat, k \in T
        PROVE  k + 1 \in T
    <3>1. CASE k + 1 <= n
      <4>1. k + 1 \in 1 .. n /\ (k + 1) - 1 = k
        BY <3>1
      <4>2. up[k] = g[k]
        BY <2>2, <3>1
      <4>3. up[k + 1] = up[k] \cup Heads(up[k]) /\ g[k + 1] = g[k] \cup Heads(g[k])
        BY <4>1, <1>6, <1>9
      <4>4. up[k + 1] = g[k + 1]
        BY <4>2, <4>3, Zenon
      <4> QED
        BY <4>4
    <3> QED
      BY <3>1
  <2>3. \A k \in Nat : k \in T
    <3> HIDE DEF T
    <3> QED
      BY <2>1, <2>2, SetInduction
  <2> QED
    BY <2>3
<1>12. g[n] = Upward(head, n, t)
  <2> HIDE DEF up
  <2> QED
    BY <1>10, <1>11
<1> QED
  BY <1>6, <1>12 DEF IsClimb
(* A climb never loses what it has reached. *)
LEMMA ClimbGrows ==
  ASSUME NEW n \in Nat, NEW head, NEW t, NEW up, IsClimb(up, head, n, t)
  PROVE  \A k \in 1 .. n : up[k - 1] \subseteq up[k]
BY DEF IsClimb

(* Whoever climbs inside a set that leads to x, each token ranked below its    *)
(* head, gets to x: n ranks do for n steps.                                   *)
LEMMA ClimbReaches ==
  ASSUME NEW n \in Nat, NEW head \in Analyses(n), NEW x \in -1 .. n - 1,
         NEW D \in SUBSET (-1 .. n - 1), NEW rank \in [0 .. n - 1 -> 1 .. n],
         \A v \in D : v # x =>
           /\ v # -1 /\ head[v] \in D
           /\ head[v] # x => rank[v] < rank[head[v]],
         NEW t \in D
  PROVE  x \in Upward(head, n, t)
<1>1. PICK up \in [0 .. n -> SUBSET (-1 .. n - 1)] :
        IsClimb(up, head, n, t) /\ up[n] = Upward(head, n, t)
  BY Climbs, Zenon
<1> DEFINE Near(k) == x \in up[k] \/ \E v \in up[k] : v \in D /\ v # x /\ rank[v] >= k + 1
           T == {k \in Nat : k <= n => Near(k)}
<1>2. 0 \in T
  <2>1. t # x => t \in 0 .. n - 1
    OBVIOUS
  <2>2. t # x => rank[t] >= 0 + 1
    BY <2>1
  <2>3. Near(0)
    BY <1>1, <2>2 DEF IsClimb
  <2> QED
    BY <2>3
<1>3. ASSUME NEW k \in Nat, k \in T
      PROVE  k + 1 \in T
  <2> SUFFICES ASSUME k + 1 <= n
               PROVE  Near(k + 1)
    OBVIOUS
  <2>1. k + 1 \in 1 .. n /\ (k + 1) - 1 = k
    OBVIOUS
  <2>2. up[k + 1] = up[k] \cup {head[u] : u \in up[k] \ {-1}}
    BY <1>1, <2>1 DEF IsClimb
  <2>3. CASE x \in up[k]
    BY <2>2, <2>3
  <2>4. ASSUME NEW v \in up[k], v \in D, v # x, rank[v] >= k + 1
        PROVE  Near(k + 1)
    <3>1. v \in 0 .. n - 1 /\ head[v] \in D /\ head[v] \in up[k + 1]
      BY <2>2, <2>4, SMTT(60)
    <3>2. CASE head[v] = x
      BY <3>1, <3>2
    <3>3. CASE head[v] # x
      <4>1. head[v] \in 0 .. n - 1 /\ rank[v] < rank[head[v]]
        BY <2>4, <3>1, <3>3, SMTT(60)
      <4>2. rank[head[v]] >= (k + 1) + 1
        BY <2>4, <3>1, <4>1, SMTT(60)
      <4> QED
        BY <3>1, <3>3, <4>2, Zenon
    <3> QED
      BY <3>2, <3>3
  <2> QED
    BY <1>3, <2>3, <2>4
<1>4. n \in T
  <2> HIDE DEF T
  <2> QED
    BY <1>2, <1>3, SetInduction, Zenon
<1>5. ASSUME NEW v \in D, v # x
      PROVE  ~(rank[v] >= n + 1)
  <2>1. v \in 0 .. n - 1
    BY <1>5
  <2> QED
    BY <2>1
<1> QED
  BY <1>1, <1>4, <1>5

(* A climb from a token is the token and a climb from its head. *)
LEMMA ClimbOfHead ==
  ASSUME NEW n \in Nat, NEW head, NEW t, t # -1, NEW f, NEW g,
         IsClimb(f, head, n, t), IsClimb(g, head, n, head[t])
  PROVE  \A k \in 1 .. n : f[k] = {t} \cup g[k - 1]
<1> DEFINE T == {k \in Nat : k + 1 <= n => f[k + 1] = {t} \cup g[k] /\ head[t] \in g[k]}
<1>1. 0 \in T
  <2>1. f[0] = {t} /\ g[0] = {head[t]}
    BY DEF IsClimb
  <2>2. ASSUME 1 <= n
        PROVE  f[1] = f[0] \cup {head[u] : u \in f[0] \ {-1}}
    <3>1. 1 \in 1 .. n /\ 1 - 1 = 0
      BY <2>2
    <3> QED
      BY <3>1 DEF IsClimb
  <2> QED
    BY <2>1, <2>2
<1>2. ASSUME NEW k \in Nat, k \in T
      PROVE  k + 1 \in T
  <2> SUFFICES ASSUME (k + 1) + 1 <= n
               PROVE  f[(k + 1) + 1] = {t} \cup g[k + 1] /\ head[t] \in g[k + 1]
    OBVIOUS
  <2>1. /\ k + 1 \in 1 .. n /\ (k + 1) - 1 = k
        /\ (k + 1) + 1 \in 1 .. n /\ ((k + 1) + 1) - 1 = k + 1
    OBVIOUS
  <2>2. f[k + 1] = {t} \cup g[k] /\ head[t] \in g[k]
    BY <1>2, <2>1
  <2>3. /\ f[(k + 1) + 1] = f[k + 1] \cup {head[u] : u \in f[k + 1] \ {-1}}
        /\ g[k + 1] = g[k] \cup {head[u] : u \in g[k] \ {-1}}
    BY <2>1 DEF IsClimb
  <2> QED
    BY <2>2, <2>3
<1>3. \A k \in Nat : k \in T
  <2> HIDE DEF T
  <2> QED
    BY <1>1, <1>2, SetInduction
<1> SUFFICES ASSUME NEW k \in 1 .. n
             PROVE  f[k] = {t} \cup g[k - 1]
  OBVIOUS
<1>4. k - 1 \in Nat /\ (k - 1) + 1 = k /\ k <= n
  OBVIOUS
<1> QED
  BY <1>3, <1>4
(* Who is above a token is the token itself or is above its head. *)
LEMMA AboveHead ==
  ASSUME NEW n \in Nat, NEW head \in Analyses(n), NEW t \in 0 .. n - 1,
         NEW x \in Upward(head, n, t), x # t
  PROVE  x \in Upward(head, n, head[t])
<1>1. t \in -1 .. n - 1 /\ t # -1 /\ head[t] \in -1 .. n - 1 /\ n \in 1 .. n
  BY DEF Analyses
<1>2. PICK f \in [0 .. n -> SUBSET (-1 .. n - 1)] :
        IsClimb(f, head, n, t) /\ f[n] = Upward(head, n, t)
  BY <1>1, Climbs, Zenon
<1>3. PICK g \in [0 .. n -> SUBSET (-1 .. n - 1)] :
        IsClimb(g, head, n, head[t]) /\ g[n] = Upward(head, n, head[t])
  BY <1>1, Climbs, Zenon
<1>4. f[n] = {t} \cup g[n - 1]
  <2>1. \A x1, x2 : IsClimb(x1, head, n, t) /\ IsClimb(x2, head, n, head[t]) =>
                       \A k \in 1 .. n : x1[k] = {t} \cup x2[k - 1]
    BY <1>1, ClimbOfHead
  <2> QED
    BY <1>1, <1>2, <1>3, <2>1, Zenon
<1>5. g[n - 1] \subseteq g[n]
  BY <1>1, <1>3, ClimbGrows, Zenon
<1> QED
  BY <1>2, <1>3, <1>4, <1>5

(* In a tree every token is deeper than its head. *)
IsDepth(depth, head, n) == \A t \in 0 .. n - 1 : depth[head[t]] < depth[t]
LEMMA TreeDepth ==
  ASSUME NEW n \in Nat, NEW head \in Analyses(n), IsTree(head, n)
  PROVE  \E depth \in [-1 .. n - 1 -> 0 .. n] : IsDepth(depth, head, n)
<1> DEFINE W == -1 .. n - 1
           Climb(t) == CHOOSE f \in [0 .. n -> SUBSET W] :
                         IsClimb(f, head, n, t) /\ f[n] = Upward(head, n, t)
           Steps(t) == {k \in 0 .. n : -1 \in Climb(t)[k]}
           Least(t) == CHOOSE k \in Steps(t) : \A m \in Steps(t) : k <= m
           depth == [t \in W |-> Least(t)]
<1>1. ASSUME NEW t \in W
      PROVE  /\ Climb(t) \in [0 .. n -> SUBSET W]
             /\ IsClimb(Climb(t), head, n, t) /\ Climb(t)[n] = Upward(head, n, t)
  <2> HIDE DEF W
  <2>1. \E f \in [0 .. n -> SUBSET W] :
          IsClimb(f, head, n, t) /\ f[n] = Upward(head, n, t)
    BY Climbs, Zenon DEF W
  <2> QED
    BY <2>1, Zenon
<1> HIDE DEF Climb
<1>2. \A t \in W : Steps(t) \subseteq Nat /\ Steps(t) # {}
  <2> TAKE t \in W
  <2>1. CASE t = -1
    <3>1. -1 \in Climb(t)[0]
      BY <1>1, <2>1 DEF IsClimb
    <3> QED
      BY <3>1
  <2>2. CASE t \in 0 .. n - 1
    <3>1. -1 \in Climb(t)[n]
      BY <1>1, <2>2 DEF IsTree
    <3> QED
      BY <3>1
  <2> QED
    BY <2>1, <2>2
<1>3. ASSUME NEW t \in W
      PROVE  Least(t) \in Steps(t) /\ \A m \in Steps(t) : Least(t) <= m
  <2>1. Steps(t) \subseteq Nat /\ Steps(t) # {}
    BY <1>2
  <2> HIDE DEF Steps
  <2>2. \E k \in Steps(t) : \A m \in Steps(t) : k <= m
    BY <2>1, LeastElement, Zenon
  <2> QED
    BY <2>2, Zenon
<1> HIDE DEF Least
<1>4. depth \in [W -> 0 .. n] /\ \A t \in W : depth[t] = Least(t)
  BY <1>3
<1>5. ASSUME NEW t \in 0 .. n - 1
      PROVE  depth[head[t]] < depth[t]
  <2>1. t \in W /\ head[t] \in W /\ t # -1
    BY DEF Analyses
  <2>2. Least(t) \in 0 .. n /\ -1 \in Climb(t)[Least(t)] /\ Least(head[t]) \in 0 .. n
    BY <1>3, <2>1
  <2>3. Least(t) # 0
    BY <1>1, <2>1, <2>2 DEF IsClimb
  <2>4. Least(t) \in 1 .. n /\ Least(t) - 1 \in 0 .. n
    BY <2>2, <2>3
  <2>5. Climb(t)[Least(t)] = {t} \cup Climb(head[t])[Least(t) - 1]
    <3>1. IsClimb(Climb(t), head, n, t) /\ IsClimb(Climb(head[t]), head, n, head[t])
      BY <1>1, <2>1
    <3>2. \A f, g : IsClimb(f, head, n, t) /\ IsClimb(g, head, n, head[t]) =>
                     \A k \in 1 .. n : f[k] = {t} \cup g[k - 1]
      BY <2>1, ClimbOfHead
    <3> QED
      BY <2>4, <3>1, <3>2, Zenon
  <2>6. Least(t) - 1 \in Steps(head[t])
    BY <2>1, <2>2, <2>4, <2>5
  <2>7. Least(head[t]) <= Least(t) - 1
    BY <1>3, <2>1, <2>6
  <2>8. Least(head[t]) < Least(t)
    BY <2>2, <2>7
  <2> QED
    BY <1>4, <2>1, <2>8, Zenon
<1> HIDE DEF depth
<1> QED
  BY <1>4, <1>5, SMTT(60) DEF IsDepth

(* Who is above a token is the token itself or less deep. *)
LEMMA AboveIsHigher ==
  ASSUME NEW n \in Nat, NEW head \in Analyses(n), NEW t \in -1 .. n - 1,
         NEW depth \in [-1 .. n - 1 -> 0 .. n], IsDepth(depth, head, n),
         NEW x \in Upward(head, n, t)
  PROVE  x \in -1 .. n - 1 /\ (x = t \/ depth[x] < depth[t])
<1> DEFINE W == -1 .. n - 1
<1>1. PICK up \in [0 .. n -> SUBSET W] :
        IsClimb(up, head, n, t) /\ up[n] = Upward(head, n, t)
  BY Climbs, Zenon
<1> DEFINE T == {k \in Nat : k <= n => \A v \in up[k] : v = t \/ depth[v] < depth[t]}
<1>2. 0 \in T
  BY <1>1 DEF IsClimb
<1>3. ASSUME NEW k \in Nat, k \in T
      PROVE  k + 1 \in T
  <2> SUFFICES ASSUME k + 1 <= n, NEW v \in up[k + 1]
               PROVE  v = t \/ depth[v] < depth[t]
    OBVIOUS
  <2>1. k + 1 \in 1 .. n /\ (k + 1) - 1 = k /\ k \in 0 .. n
    OBVIOUS
  <2>2. up[k + 1] = up[k] \cup {head[u] : u \in up[k] \ {-1}}
    BY <1>1, <2>1, SMTT(60) DEF IsClimb
  <2>3. CASE v \in up[k]
    BY <1>3, <2>3
  <2>4. ASSUME NEW u \in up[k] \ {-1}, v = head[u]
        PROVE  depth[v] < depth[t]
    <3>1. u \in 0 .. n - 1 /\ u \in W /\ v \in W
      BY <1>1, <2>1, <2>4 DEF Analyses
    <3>2. depth[v] < depth[u] /\ (u = t \/ depth[u] < depth[t])
      BY <1>3, <2>4, <3>1, SMTT(60) DEF IsDepth
    <3> QED
      BY <3>1, <3>2, SMTT(60)
  <2> QED
    BY <2>2, <2>3, <2>4, SMTT(60)
<1>4. n \in T
  <2> HIDE DEF T
  <2> QED
    BY <1>2, <1>3, SetInduction, Zenon
<1> QED
  BY <1>1, <1>4
(* In a tree nobody is above someone who is above them. *)
LEMMA AboveIsOrder ==
  ASSUME NEW n \in Nat, NEW head \in Analyses(n), IsTree(head, n),
         NEW t \in -1 .. n - 1, NEW u \in -1 .. n - 1,
         t \in Upward(head, n, u), u \in Upward(head, n, t)
  PROVE  t = u
<1>1. PICK depth \in [-1 .. n - 1 -> 0 .. n] : IsDepth(depth, head, n)
  BY TreeDepth, Zenon
<1>2. (t = u \/ depth[t] < depth[u]) /\ (u = t \/ depth[u] < depth[t])
  BY <1>1, AboveIsHigher, Zenon
<1>3. depth[t] \in Int /\ depth[u] \in Int
  BY <1>1
<1> QED
  BY <1>2, <1>3

(* What a projective tree looks like without following its arcs: no token is   *)
(* its head's head, the arcs do not cross, and the head of a head is never     *)
(* under the arc.                                                            *)
Arc(head, t, u) == (t # -1 /\ head[t] = u) \/ (u # -1 /\ head[u] = t)
Between(u, t, v) == (t < u /\ u < v) \/ (v < u /\ u < t)
IsPlanar(head, n) ==
  /\ \A t \in 0 .. n - 1 : head[t] # t /\ (head[t] # -1 => head[head[t]] # t)
  /\ \A a, b, c, d \in -1 .. n - 1 :
       a < b /\ b < c /\ c < d => ~(Arc(head, a, c) /\ Arc(head, b, d))
  /\ \A t, u \in 0 .. n - 1 :
       head[t] # -1 /\ Between(u, t, head[t]) => head[head[t]] # u
LEMMA ProjectiveIsPlanar ==
  ASSUME NEW n \in Nat, NEW head \in ProjectiveTrees(n)
  PROVE  IsPlanar(head, n)
<1>1. head \in Analyses(n) /\ IsTree(head, n) /\ IsProjective(head, n)
  BY DEF ProjectiveTrees, Trees
<1> DEFINE W == -1 .. n - 1
           Up(t) == Upward(head, n, t)
<1>2. \A t \in 0 .. n - 1 : t \in W /\ head[t] \in W /\ t # -1
  BY <1>1 DEF Analyses
<1>3. PICK depth \in [W -> 0 .. n] : IsDepth(depth, head, n)
  BY <1>1, TreeDepth, Zenon
<1>4. \A t, u \in 0 .. n - 1 : Between(u, t, head[t]) => head[t] \in Up(u)
  BY <1>1 DEF IsProjective, Between
<1>5. \A t, u \in W : t \in Up(u) /\ u \in Up(t) => t = u
  BY <1>1, AboveIsOrder, Zenon
<1>6. \A t \in 0 .. n - 1 : \A x \in Up(t) : x # t => x \in Up(head[t])
  BY <1>1, AboveHead, Zenon
<1> HIDE DEF Up
<1>7. ASSUME NEW t \in 0 .. n - 1
      PROVE  head[t] # t /\ (head[t] # -1 => head[head[t]] # t)
  <2>1. depth[head[t]] < depth[t] /\ depth[t] \in Int /\ depth[head[t]] \in Int
    BY <1>2, <1>3 DEF IsDepth
  <2>2. head[t] # -1 => head[t] \in 0 .. n - 1
    BY <1>2
  <2>3. head[t] # -1 => depth[head[head[t]]] < depth[head[t]]
    BY <1>3, <2>2, SMTT(60) DEF IsDepth
  <2> QED
    BY <2>1, <2>3, SMTT(60)
<1>8. ASSUME NEW a \in W, NEW b \in W, NEW c \in W, NEW d \in W, a < b, b < c, c < d,
             Arc(head, a, c), Arc(head, b, d)
      PROVE  FALSE
  <2>1. b \in 0 .. n - 1 /\ c \in 0 .. n - 1 /\ d \in 0 .. n - 1 /\ a # b /\ b # c /\ c # d /\ a # d
    BY <1>8
  <2>2. ASSUME a # -1
        PROVE  a \in 0 .. n - 1
    BY <2>2
  <2>3. /\ Between(b, a, c) /\ Between(b, c, a) /\ Between(c, b, d) /\ Between(c, d, b)
    BY <1>8 DEF Between
  <2>4. CASE head[c] = a /\ head[d] = b
    <3>1. a \in Up(b) /\ b \in Up(c)
      BY <1>4, <2>1, <2>3, <2>4, SMTT(60)
    <3>2. b \in Up(a)
      BY <1>6, <2>1, <2>4, <3>1, SMTT(60)
    <3> QED
      BY <1>5, <2>1, <3>1, <3>2
  <2>5. CASE head[c] = a /\ head[b] = d
    <3>1. a \in Up(b) /\ d \in Up(c)
      BY <1>4, <2>1, <2>3, <2>5
    <3>2. a \in Up(d) /\ d \in Up(a)
      BY <1>6, <2>1, <2>5, <3>1, SMTT(60)
    <3> QED
      BY <1>5, <2>1, <3>2
  <2>6. CASE a # -1 /\ head[a] = c /\ head[d] = b
    <3>1. c \in Up(b) /\ b \in Up(c)
      BY <1>4, <2>1, <2>2, <2>3, <2>6
    <3> QED
      BY <1>5, <2>1, <3>1
  <2>7. CASE a # -1 /\ head[a] = c /\ head[b] = d
    <3>1. c \in Up(b) /\ d \in Up(c)
      BY <1>4, <2>1, <2>2, <2>3, <2>7, SMTT(60)
    <3>2. c \in Up(d)
      BY <1>6, <2>1, <2>7, <3>1
    <3> QED
      BY <1>5, <2>1, <3>1, <3>2
  <2> QED
    BY <1>8, <2>1, <2>4, <2>5, <2>6, <2>7 DEF Arc
<1>9. ASSUME NEW t \in 0 .. n - 1, NEW u \in 0 .. n - 1,
             head[t] # -1, Between(u, t, head[t]), head[head[t]] = u
      PROVE  FALSE
  <2>1. head[t] \in 0 .. n - 1 /\ head[t] \in W /\ u \in W /\ head[t] # u
    BY <1>2, <1>9, SMTT(60) DEF Between
  <2>2. head[t] \in Up(u)
    BY <1>4, <1>9
  <2>3. depth[head[t]] < depth[u]
    BY <1>1, <1>3, <2>1, <2>2, AboveIsHigher, Zenon DEF Up
  <2>4. depth[u] < depth[head[t]]
    BY <1>3, <1>9, <2>1, Zenon DEF IsDepth
  <2> QED
    BY <1>3, <2>1, <2>3, <2>4
<1> QED
  BY <1>7, <1>8, <1>9 DEF IsPlanar
-----------------------------------------------------------------------------
(* The stack, and what a shift and an arc make of it. *)
IsStack(stack, next, n) ==
  /\ stack \in Seq(-1 .. n - 1)
  /\ Len(stack) \in 1 .. next + 1
  /\ stack[1] = -1
  /\ \A i, j \in 1 .. Len(stack) : i < j => stack[i] < stack[j]
  /\ \A i \in 1 .. Len(stack) : stack[i] < next

Grown(old, new, top) ==
  /\ Len(new) = Len(old) + 1
  /\ \A i \in 1 .. Len(old) : new[i] = old[i]
  /\ new[Len(old) + 1] = top

Shrunk(old, new, top) ==
  /\ Len(new) = Len(old) - 1
  /\ \A i \in 1 .. Len(old) - 2 : new[i] = old[i]
  /\ new[Len(old) - 1] = top

(* The tokens of a stack, without the fact that it is a sequence. *)
IsOrdered(stack, L, next) ==
  /\ L \in 1 .. next + 1
  /\ stack[1] = -1
  /\ \A i, j \in 1 .. L : i < j => stack[i] < stack[j]
  /\ \A i \in 1 .. L : stack[i] < next /\ stack[i] \in Int
LEMMA StackIsOrdered ==
  ASSUME NEW n \in Nat, NEW next \in Nat, NEW stack
  PROVE  IsStack(stack, next, n)
           <=> stack \in Seq(-1 .. n - 1) /\ IsOrdered(stack, Len(stack), next)
<1>1. stack \in Seq(-1 .. n - 1) => \A i \in 1 .. Len(stack) : stack[i] \in Int
  BY ElementOfSeq
<1> QED
  BY <1>1, Zenon DEF IsStack, IsOrdered

(* A shift keeps a stack a stack. *)
LEMMA GrownIsOrdered ==
  ASSUME NEW next \in Nat, NEW old, NEW L, IsOrdered(old, L, next), NEW new,
         \A i \in 1 .. L : new[i] = old[i], new[L + 1] = next
  PROVE  IsOrdered(new, L + 1, next + 1)
<1>1. L \in Nat /\ L >= 1 /\ L <= next + 1
  BY DEF IsOrdered
<1>2. \A i \in 1 .. L + 1 : i \in 1 .. L \/ i = L + 1
  BY <1>1
<1>3. ASSUME NEW i \in 1 .. L + 1
      PROVE  new[i] < next + 1 /\ new[i] \in Int
  BY <1>2 DEF IsOrdered
<1>4. ASSUME NEW i \in 1 .. L + 1, NEW j \in 1 .. L + 1, i < j
      PROVE  new[i] < new[j]
  <2>1. i \in 1 .. L
    BY <1>1, <1>4
  <2> QED
    BY <1>2, <1>4, <2>1 DEF IsOrdered
<1>5. new[1] = -1
  BY <1>1 DEF IsOrdered
<1> QED
  BY <1>1, <1>3, <1>4, <1>5 DEF IsOrdered

LEMMA GrownIsStack ==
  ASSUME NEW n \in Nat, NEW next \in 0 .. n - 1, NEW old, IsStack(old, next, n),
         NEW new, new \in Seq(-1 .. n - 1), Grown(old, new, next)
  PROVE  IsStack(new, next + 1, n)
<1>1. next \in Nat /\ next + 1 \in Nat
  OBVIOUS
<1>2. IsOrdered(old, Len(old), next)
  BY <1>1, StackIsOrdered
<1>3. IsOrdered(new, Len(old) + 1, next + 1)
  BY <1>1, <1>2, GrownIsOrdered, Zenon DEF Grown
<1> QED
  BY <1>1, <1>3, StackIsOrdered, Zenon DEF Grown

(* And so does an arc, whichever of the two topmost tokens it leaves. *)
OneOfTwo(old, L, top) ==
  \/ L >= 2 /\ top = old[L - 1]
  \/ L >= 3 /\ top = old[L]
LEMMA ShrunkIsOrdered ==
  ASSUME NEW next \in Nat, NEW old, NEW L, IsOrdered(old, L, next), NEW new, NEW top,
         \A i \in 1 .. L - 2 : new[i] = old[i], new[L - 1] = top,
         OneOfTwo(old, L, top)
  PROVE  IsOrdered(new, L - 1, next)
<1>1. L \in Nat /\ L >= 2 /\ L <= next + 1
  BY DEF IsOrdered, OneOfTwo
<1>2. \A i \in 1 .. L - 1 : i \in 1 .. L - 2 \/ i = L - 1
  BY <1>1
<1>3. PICK k \in {L - 1, L} : top = old[k] /\ k \in 1 .. L
  BY <1>1 DEF OneOfTwo
<1>4. ASSUME NEW i \in 1 .. L - 1
      PROVE  new[i] < next /\ new[i] \in Int
  BY <1>1, <1>2, <1>3 DEF IsOrdered
<1>5. ASSUME NEW i \in 1 .. L - 1, NEW j \in 1 .. L - 1, i < j
      PROVE  new[i] < new[j]
  <2>1. i \in 1 .. L - 2 /\ i < k
    BY <1>1, <1>3, <1>5
  <2> QED
    BY <1>1, <1>2, <1>3, <1>5, <2>1 DEF IsOrdered
<1>6. new[1] = -1
  BY <1>1 DEF IsOrdered, OneOfTwo
<1> QED
  BY <1>1, <1>4, <1>5, <1>6 DEF IsOrdered

LEMMA ShrunkIsStack ==
  ASSUME NEW n \in Nat, NEW next \in 0 .. n, NEW old, IsStack(old, next, n),
         NEW new, new \in Seq(-1 .. n - 1), NEW top, Shrunk(old, new, top),
         OneOfTwo(old, Len(old), top)
  PROVE  IsStack(new, next, n)
<1>1. next \in Nat
  OBVIOUS
<1>2. IsOrdered(old, Len(old), next)
  BY <1>1, StackIsOrdered
<1>3. IsOrdered(new, Len(old) - 1, next)
  BY <1>1, <1>2, ShrunkIsOrdered, Zenon DEF Shrunk
<1> QED
  BY <1>1, <1>3, StackIsOrdered, Zenon DEF Shrunk

(* Pop drops the last element and keeps the others. *)
LEMMA Dropped ==
  ASSUME NEW S, NEW s \in Seq(S), NEW k \in 0 .. Len(s)
  PROVE  /\ SubSeq(s, 1, k) \in Seq(S) /\ Len(SubSeq(s, 1, k)) = k
         /\ \A i \in 1 .. k : SubSeq(s, 1, k)[i] = s[i]
<1>1. Len(s) \in Nat /\ \A i \in 1 .. k : s[i] \in S
  BY LenProperties, ElementOfSeq
<1> QED
  BY <1>1, SubSeqProperties

-----------------------------------------------------------------------------
(* The reduced tokens: shifted and no longer on the stack. *)
Gone(t, stack, L, next) == t < next /\ \A i \in 1 .. L : stack[i] # t

(* A shift reduces nobody. *)
LEMMA GrownGone ==
  ASSUME NEW next \in Nat, NEW old, NEW L \in Nat, NEW new,
         \A i \in 1 .. L : new[i] = old[i], new[L + 1] = next, NEW t \in Int
  PROVE  Gone(t, new, L + 1, next + 1) <=> Gone(t, old, L, next)
<1>1. \A i \in 1 .. L + 1 : i \in 1 .. L \/ i = L + 1
  OBVIOUS
<1>2. \A i \in 1 .. L : i \in 1 .. L + 1
  OBVIOUS
<1>3. L + 1 \in 1 .. L + 1
  OBVIOUS
<1> QED
  BY <1>1, <1>2, <1>3 DEF Gone

(* An arc reduces its dependent. *)
IsArcOf(old, L, child, top) ==
  \/ L >= 2 /\ top = old[L - 1] /\ child = old[L]
  \/ L >= 3 /\ top = old[L] /\ child = old[L - 1]
IsShrunk(old, L, new, top) == (\A i \in 1 .. L - 2 : new[i] = old[i]) /\ new[L - 1] = top
LEMMA ShrunkGone ==
  ASSUME NEW next \in Nat, NEW old, NEW L \in Nat, IsOrdered(old, L, next), NEW new,
         NEW top, NEW child, IsArcOf(old, L, child, top),
         IsShrunk(old, L, new, top), NEW t \in Int
  PROVE  Gone(t, new, L - 1, next) <=> Gone(t, old, L, next) \/ t = child
<1>0. (\A i \in 1 .. L - 2 : new[i] = old[i]) /\ new[L - 1] = top
  BY DEF IsShrunk
<1>1. L >= 2
  BY DEF IsArcOf
<1>2. /\ \A i \in 1 .. L : i \in 1 .. L - 2 \/ i = L - 1 \/ i = L
      /\ \A i \in 1 .. L - 1 : i \in 1 .. L - 2 \/ i = L - 1
      /\ \A i \in 1 .. L - 2 : i \in 1 .. L /\ i \in 1 .. L - 1 /\ i < L - 1 /\ i < L
      /\ L - 1 \in 1 .. L /\ L \in 1 .. L /\ L - 1 < L /\ L - 1 \in 1 .. L - 1
  BY <1>1
<1>3. {top, child} = {old[L - 1], old[L]}
  BY DEF IsArcOf
<1>4. child < next /\ \A i \in 1 .. L - 1 : new[i] # child
  <2>1. child # top
    BY <1>2 DEF IsOrdered, IsArcOf
  <2>2. child < next /\ child \in Int
    BY <1>2 DEF IsOrdered, IsArcOf
  <2>3. \A i \in 1 .. L - 2 : old[i] # child
    BY <1>2 DEF IsOrdered, IsArcOf
  <2> QED
    BY <1>0, <1>2, <2>1, <2>2, <2>3
<1>5. ASSUME Gone(t, new, L - 1, next), t # child
      PROVE  Gone(t, old, L, next)
  <2>1. t # top /\ \A i \in 1 .. L - 2 : old[i] # t
    BY <1>0, <1>2, <1>5 DEF Gone
  <2>2. old[L - 1] # t /\ old[L] # t
    BY <1>3, <1>5, <2>1
  <2> QED
    BY <1>2, <1>5, <2>1, <2>2 DEF Gone
<1>6. ASSUME Gone(t, old, L, next)
      PROVE  Gone(t, new, L - 1, next)
  BY <1>0, <1>2, <1>3, <1>6 DEF Gone
<1>7. ASSUME t = child
      PROVE  Gone(t, new, L - 1, next)
  BY <1>4, <1>7 DEF Gone
<1> QED
  BY <1>5, <1>6, <1>7

-----------------------------------------------------------------------------
(* The analysis under construction.  dom[x] holds x and what is known to be     *)
(* below x, and rank numbers the arcs in the order in which they were drawn.   *)
(* Whatever lies between two neighbours on the stack is below one of them,     *)
(* what lies behind the topmost token is below it, and what lies under an arc  *)
(* is below its head.                                                        *)
DomFits(head, gone, n, dom) ==
  /\ dom \in [-1 .. n - 1 -> SUBSET (-1 .. n - 1)]
  /\ \A x \in -1 .. n - 1 : x \in dom[x]
  /\ \A x \in -1 .. n - 1 : \A u \in dom[x] : u # x => u \in gone /\ head[u] \in dom[x]
RankFits(head, gone, arcs, n, rank) ==
  /\ rank \in [0 .. n - 1 -> 1 .. n]
  /\ \A u \in gone : rank[u] <= arcs /\ (head[u] \in gone => rank[u] < rank[head[u]])
BlocksFit(stack, L, next, n, dom) ==
  /\ \A i \in 1 .. L - 1, u \in 0 .. n - 1 :
       stack[i] < u /\ u < stack[i + 1] => u \in dom[stack[i]] \/ u \in dom[stack[i + 1]]
  /\ \A u \in 0 .. n - 1 : stack[L] < u /\ u < next => u \in dom[stack[L]]
ArcsFit(head, gone, n, dom) ==
  \A t \in gone, u \in 0 .. n - 1 : Between(u, t, head[t]) => u \in dom[head[t]]

(* The dependent of a new arc takes what is below it to its head. *)
LEMMA ArcDom ==
  ASSUME NEW n \in Nat, NEW head \in [0 .. n - 1 -> -1 .. n - 1],
         NEW gone \in SUBSET (0 .. n - 1), NEW dom,
         DomFits(head, gone, n, dom),
         NEW c \in 0 .. n - 1, NEW p \in -1 .. n - 1, c # p, c \notin gone, p \notin gone,
         NEW head2, head2 = [head EXCEPT ![c] = p], NEW gone2, gone2 = gone \cup {c},
         NEW dom2, dom2 = [dom EXCEPT ![p] = dom[p] \cup dom[c]]
  PROVE  DomFits(head2, gone2, n, dom2)
<1> DEFINE W == -1 .. n - 1
<1>1. /\ dom \in [W -> SUBSET W] /\ \A x \in W : x \in dom[x]
      /\ \A x \in W : \A u \in dom[x] : u # x => u \in gone /\ head[u] \in dom[x]
  BY DEF DomFits
<1>2. c \in W /\ dom[c] \in SUBSET W /\ dom[p] \in SUBSET W
  BY <1>1
<1>3. /\ dom2 \in [W -> SUBSET W] /\ dom2[p] = dom[p] \cup dom[c]
      /\ \A x \in W : x # p => dom2[x] = dom[x]
  BY <1>1, <1>2
<1>4. head2[c] = p /\ \A u \in 0 .. n - 1 : u # c => head2[u] = head[u]
  OBVIOUS
<1>5. \A x \in W : dom[x] \subseteq dom2[x]
  BY <1>3
<1>6. \A x \in W : x \in dom2[x]
  BY <1>1, <1>5
<1>7. \A u \in dom[c] : u = c \/ (u \in gone /\ head[u] \in dom[c])
  BY <1>1, <1>2
<1>8. \A u \in gone : u \in 0 .. n - 1 /\ u # c
  OBVIOUS
<1>9. ASSUME NEW x \in W, NEW u \in dom2[x], u # x
      PROVE  u \in gone2 /\ head2[u] \in dom2[x]
  <2>1. CASE u \in dom[x]
    <3>1. u \in gone /\ head[u] \in dom[x]
      BY <1>1, <1>9, <2>1
    <3>2. head2[u] = head[u]
      BY <1>4, <1>8, <3>1
    <3> QED
      BY <1>5, <3>1, <3>2
  <2>2. CASE u \notin dom[x]
    <3>1. x = p /\ u \in dom[c]
      BY <1>3, <1>9, <2>2
    <3>2. CASE u = c
      BY <1>4, <1>6, <3>1, <3>2
    <3>3. CASE u # c
      <4>1. u \in gone /\ head[u] \in dom[c]
        BY <1>7, <3>1, <3>3
      <4>2. head2[u] = head[u]
        BY <1>4, <1>8, <4>1
      <4> QED
        BY <1>3, <3>1, <4>1, <4>2
    <3> QED
      BY <3>2, <3>3
  <2> QED
    BY <2>1, <2>2
<1> QED
  BY <1>3, <1>6, <1>9 DEF DomFits

(* A new arc has the highest rank. *)
LEMMA ArcRank ==
  ASSUME NEW n \in Nat, NEW head \in [0 .. n - 1 -> -1 .. n - 1],
         NEW gone \in SUBSET (0 .. n - 1), NEW arcs \in Nat, arcs < n, NEW rank,
         RankFits(head, gone, arcs, n, rank),
         NEW c \in 0 .. n - 1, NEW p \in -1 .. n - 1, c # p, c \notin gone, p \notin gone,
         NEW head2, head2 = [head EXCEPT ![c] = p], NEW gone2, gone2 = gone \cup {c},
         NEW rank2, rank2 = [rank EXCEPT ![c] = arcs + 1]
  PROVE  RankFits(head2, gone2, arcs + 1, n, rank2)
<1>1. /\ rank \in [0 .. n - 1 -> 1 .. n]
      /\ \A u \in gone : rank[u] <= arcs /\ (head[u] \in gone => rank[u] < rank[head[u]])
  BY SMTT(60) DEF RankFits
<1>2. /\ rank2 \in [0 .. n - 1 -> 1 .. n] /\ rank2[c] = arcs + 1
      /\ \A u \in 0 .. n - 1 : u # c => rank2[u] = rank[u]
  <2>1. arcs + 1 \in 1 .. n
    OBVIOUS
  <2> QED
    BY <1>1, <2>1, Zenon
<1>3. head2[c] = p /\ \A u \in 0 .. n - 1 : u # c => head2[u] = head[u]
  OBVIOUS
<1>4. \A u \in gone : u \in 0 .. n - 1 /\ u # c /\ rank[u] \in Int
  BY <1>1
<1>5. ASSUME NEW u \in gone2
      PROVE  /\ rank2[u] <= arcs + 1
             /\ head2[u] \in gone2 => rank2[u] < rank2[head2[u]]
  <2>1. CASE u = c
    BY <1>2, <1>3, <2>1
  <2>2. CASE u # c
    <3>1. u \in gone /\ u \in 0 .. n - 1 /\ rank2[u] = rank[u] /\ head2[u] = head[u]
      BY <1>2, <1>3, <1>4, <2>2
    <3>2. rank[u] <= arcs /\ rank[u] \in Int
      BY <1>1, <1>4, <3>1
    <3>3. rank2[u] <= arcs + 1
      BY <3>1, <3>2, SMTT(60)
    <3>4. ASSUME head[u] = c
          PROVE  rank2[u] < rank2[head2[u]]
      <4>1. rank2[head2[u]] = arcs + 1
        BY <1>2, <3>1, <3>4
      <4> QED
        BY <3>1, <3>2, <4>1, SMTT(60)
    <3>5. ASSUME head[u] \in gone
          PROVE  rank2[u] < rank2[head2[u]]
      <4>1. rank2[head2[u]] = rank[head[u]]
        <5>1. head[u] \in 0 .. n - 1 /\ head[u] # c
          BY <1>4, <3>5, SMTT(60)
        <5> QED
          BY <1>2, <3>1, <5>1
      <4>2. rank[u] < rank[head[u]]
        BY <1>1, <3>1, <3>5, Zenon
      <4> QED
        BY <3>1, <4>1, <4>2
    <3> QED
      BY <3>1, <3>3, <3>4, <3>5
  <2> QED
    BY <2>1, <2>2
<1> QED
  BY <1>2, <1>5, SMTT(60) DEF RankFits
(* The tokens around a new arc: those under it are below one of its ends, those  *)
(* up to the next one on the stack are below that one or come to be below the    *)
(* head, and so are those behind the top.                                     *)
Covered(c, p, n, dom) == \A u \in 0 .. n - 1 : Between(u, c, p) => u \in dom[p]
LEMMA ArcBlocks ==
  ASSUME NEW n \in Nat, NEW next \in 0 .. n, NEW old, NEW L \in Nat, IsOrdered(old, L, next),
         \A i \in 1 .. L : old[i] \in -1 .. n - 1,
         NEW new, NEW c \in 0 .. n - 1, NEW p \in -1 .. n - 1,
         IsArcOf(old, L, c, p), IsShrunk(old, L, new, p),
         NEW dom, BlocksFit(old, L, next, n, dom), c \in dom[c],
         NEW dom2, \A x \in -1 .. n - 1 : dom[x] \subseteq dom2[x], dom[c] \subseteq dom2[p]
  PROVE  /\ BlocksFit(new, L - 1, next, n, dom2)
         /\ Covered(c, p, n, dom2)
<1>1. L >= 2 /\ L - 1 \in 1 .. L - 1 /\ L - 1 \in 1 .. L /\ L \in 1 .. L /\ (L - 1) + 1 = L
  BY DEF IsArcOf
<1>2. /\ \A i \in 1 .. L - 1, u \in 0 .. n - 1 :
           old[i] < u /\ u < old[i + 1] => u \in dom[old[i]] \/ u \in dom[old[i + 1]]
      /\ \A u \in 0 .. n - 1 : old[L] < u /\ u < next => u \in dom[old[L]]
  BY DEF BlocksFit
<1>3. (\A i \in 1 .. L - 2 : new[i] = old[i]) /\ new[L - 1] = p
  BY DEF IsShrunk
<1>4. /\ old[L - 1] < old[L] /\ old[L - 1] \in Int /\ old[L] \in Int
      /\ \A u \in 0 .. n - 1 : old[L - 1] < u /\ u < old[L] => u \in dom[old[L - 1]] \/ u \in dom[old[L]]
  BY <1>1, <1>2 DEF IsOrdered
<1>5. \/ p = old[L - 1] /\ c = old[L]
      \/ L >= 3 /\ p = old[L] /\ c = old[L - 1]
  BY DEF IsArcOf
<1>6. dom[p] \subseteq dom2[p] /\ dom[c] \subseteq dom2[p]
  OBVIOUS
<1>7. ASSUME NEW u \in 0 .. n - 1, Between(u, c, p)
      PROVE  u \in dom2[p]
  <2>1. old[L - 1] < u /\ u < old[L]
    BY <1>4, <1>5, <1>7 DEF Between
  <2>2. u \in dom[old[L - 1]] \/ u \in dom[old[L]]
    BY <1>4, <2>1
  <2> QED
    BY <1>5, <1>6, <2>2
<1>8. ASSUME NEW u \in 0 .. n - 1, p < u, u < next
      PROVE  u \in dom2[p]
  <2>1. CASE p = old[L]
    BY <1>2, <1>6, <1>8, <2>1
  <2>2. CASE p = old[L - 1] /\ c = old[L]
    <3>1. CASE u < c
      BY <1>7, <1>8, <3>1 DEF Between
    <3>2. CASE u = c
      BY <1>6, <3>2
    <3>3. CASE c < u
      BY <1>2, <1>6, <1>8, <2>2, <3>3, SMTT(60)
    <3> QED
      BY <3>1, <3>2, <3>3
  <2> QED
    BY <1>5, <2>1, <2>2
<1>9. ASSUME NEW i \in 1 .. (L - 1) - 1, NEW u \in 0 .. n - 1, new[i] < u, u < new[i + 1]
      PROVE  u \in dom2[new[i]] \/ u \in dom2[new[i + 1]]
  <2>1. i \in 1 .. L - 2 /\ i \in 1 .. L - 1 /\ i \in 1 .. L /\ i + 1 \in 1 .. L /\ new[i] = old[i]
    BY <1>1, <1>3
  <2>2. dom[old[i]] \subseteq dom2[old[i]] /\ dom[old[i + 1]] \subseteq dom2[old[i + 1]]
    BY <2>1
  <2>3. CASE new[i + 1] = old[i + 1]
    BY <1>2, <1>9, <2>1, <2>2, <2>3, SMTT(60)
  <2>4. CASE new[i + 1] # old[i + 1]
    <3>1. i + 1 = L - 1
      BY <1>1, <1>3, <2>1, <2>4
    <3>2. new[i + 1] = p /\ p # old[L - 1]
      BY <1>3, <2>4, <3>1
    <3>3. p = old[L] /\ c = old[L - 1] /\ c = old[i + 1]
      BY <1>5, <3>1, <3>2, SMTT(60)
    <3>4. CASE u < c
      <4>1. u \in dom[old[i]] \/ u \in dom[c]
        BY <1>2, <1>9, <2>1, <3>3, <3>4, SMTT(60)
      <4> QED
        BY <1>6, <2>1, <2>2, <3>2, <4>1, SMTT(60)
    <3>5. CASE u = c
      BY <1>6, <3>2, <3>5
    <3>6. CASE c < u
      BY <1>7, <1>9, <3>2, <3>6, SMTT(60) DEF Between
    <3> QED
      BY <3>4, <3>5, <3>6
  <2> QED
    BY <2>3, <2>4
<1>10. BlocksFit(new, L - 1, next, n, dom2)
  BY <1>3, <1>8, <1>9 DEF BlocksFit
<1> QED
  BY <1>7, <1>10 DEF Covered

(* What lies under an arc stays below its head. *)
LEMMA ArcArcs ==
  ASSUME NEW n \in Nat, NEW head \in [0 .. n - 1 -> -1 .. n - 1],
         NEW gone \in SUBSET (0 .. n - 1), NEW dom, ArcsFit(head, gone, n, dom),
         NEW c \in 0 .. n - 1, NEW p \in -1 .. n - 1, c \notin gone,
         NEW dom2, \A x \in -1 .. n - 1 : dom[x] \subseteq dom2[x],
         Covered(c, p, n, dom2)
  PROVE  ArcsFit([head EXCEPT ![c] = p], gone \cup {c}, n, dom2)
<1> DEFINE head2 == [head EXCEPT ![c] = p]
<1>1. head2[c] = p /\ \A u \in 0 .. n - 1 : u # c => head2[u] = head[u]
  OBVIOUS
<1> HIDE DEF head2
<1>2. ASSUME NEW t \in gone, NEW u \in 0 .. n - 1, Between(u, t, head2[t])
      PROVE  u \in dom2[head2[t]]
  <2>1. head2[t] = head[t] /\ head[t] \in -1 .. n - 1
    BY <1>1
  <2>2. u \in dom[head[t]]
    BY <1>2, <2>1 DEF ArcsFit
  <2> QED
    BY <2>1, <2>2
<1>3. ArcsFit(head2, gone \cup {c}, n, dom2)
  BY <1>1, <1>2, Zenon DEF ArcsFit, Covered
<1> QED
  BY <1>3 DEF head2
(* A shift puts its token behind everything shifted so far. *)
LEMMA ShiftBlocks ==
  ASSUME NEW n \in Nat, NEW next \in Nat, NEW old, NEW L \in Nat, IsOrdered(old, L, next),
         NEW new, \A i \in 1 .. L : new[i] = old[i], new[L + 1] = next,
         NEW dom, BlocksFit(old, L, next, n, dom)
  PROVE  BlocksFit(new, L + 1, next + 1, n, dom)
<1>1. L >= 1 /\ L \in 1 .. L
  BY DEF IsOrdered
<1>2. ASSUME NEW i \in 1 .. (L + 1) - 1, NEW u \in 0 .. n - 1, new[i] < u, u < new[i + 1]
      PROVE  u \in dom[new[i]] \/ u \in dom[new[i + 1]]
  <2>1. i \in 1 .. L /\ new[i] = old[i]
    OBVIOUS
  <2>2. CASE i = L
    <3>1. old[L] < u /\ u < next
      BY <1>1, <1>2, <2>1, <2>2
    <3> QED
      BY <2>1, <2>2, <3>1 DEF BlocksFit
  <2>3. CASE i # L
    <3>1. i \in 1 .. L - 1 /\ i + 1 \in 1 .. L
      BY <2>1, <2>3
    <3>2. new[i + 1] = old[i + 1]
      BY <3>1
    <3> QED
      BY <1>2, <2>1, <3>1, <3>2 DEF BlocksFit
  <2> QED
    BY <2>2, <2>3
<1>3. \A u \in 0 .. n - 1 : ~(new[L + 1] < u /\ u < next + 1)
  OBVIOUS
<1> QED
  BY <1>2, <1>3 DEF BlocksFit

-----------------------------------------------------------------------------
(* The oracle on a projective sentence.  A reduced token has no dependents      *)
(* left, a token below the top of the stack is not the head of a token below    *)
(* it, and it still has its own head or a dependent to its right.              *)
Childless(h, x, next, n) == \A v \in next .. n - 1 : h[v] # x
OnTrack(h, s, L, next, n) ==
  /\ \A v \in 0 .. n - 1 : h[v] # -1 /\ Gone(h[v], s, L, next) => Gone(v, s, L, next)
  /\ \A i, j \in 2 .. L - 1 : j < i => h[s[j]] # s[i]
  /\ \A i \in 2 .. L - 1 : \E x \in 0 .. n - 1 :
       s[i] < x /\ ~Gone(x, s, L, next) /\ Arc(h, s[i], x)
Situation(h, s, L, next, n) ==
  /\ n \in Nat /\ L \in Nat /\ next \in 0 .. n /\ IsOrdered(s, L, next)
  /\ h \in Analyses(n) /\ IsPlanar(h, n) /\ OnTrack(h, s, L, next, n)
OracleShifts(h, s, L, next, n) ==
  L >= 2 => /\ ~(h[s[L]] = s[L - 1] /\ Childless(h, s[L], next, n))
            /\ L >= 3 => h[s[L - 1]] # s[L]

(* Where the tokens of the stack are. *)
Placed(h, s, L, next, n) ==
  /\ n \in Nat /\ L \in Nat /\ L >= 1 /\ next \in 0 .. n
  /\ h \in [0 .. n - 1 -> -1 .. n - 1] /\ s[1] = -1
  /\ \A i, j \in 1 .. L : i < j => s[i] < s[j]
  /\ \A i \in 1 .. L : s[i] \in -1 .. n - 1 /\ s[i] < next
LEMMA StackPlaced ==
  ASSUME NEW h, NEW s, NEW L, NEW next, NEW n, Situation(h, s, L, next, n)
  PROVE  Placed(h, s, L, next, n)
<1>1. /\ n \in Nat /\ L \in Nat /\ next \in 0 .. n /\ L >= 1 /\ s[1] = -1
      /\ \A i, j \in 1 .. L : i < j => s[i] < s[j]
      /\ \A i \in 1 .. L : s[i] < next /\ s[i] \in Int
      /\ h \in [0 .. n - 1 -> -1 .. n - 1]
  BY DEF Situation, IsOrdered, Analyses
<1>2. ASSUME NEW i \in 1 .. L
      PROVE  s[i] \in -1 .. n - 1
  <2>1. 1 \in 1 .. L /\ (i = 1 \/ 1 < i)
    BY <1>1
  <2>2. s[i] = -1 \/ s[i] > -1
    BY <1>1, <2>1
  <2> QED
    BY <1>1, <2>2
<1> QED
  BY <1>1, <1>2 DEF Placed

(* Who is not reduced is in the input or on the stack. *)
LEMMA NotGone ==
  ASSUME NEW h, NEW s, NEW L, NEW next, NEW n, Situation(h, s, L, next, n)
  PROVE  /\ \A i \in 2 .. L : s[i] \in 0 .. n - 1 /\ s[i] < next /\ ~Gone(s[i], s, L, next)
         /\ \A i, j \in 1 .. L : i < j => s[i] < s[j]
         /\ \A x \in 0 .. n - 1 :
              ~Gone(x, s, L, next) => x \in next .. n - 1 \/ \E k \in 2 .. L : x = s[k]
<1>1. /\ n \in Nat /\ L \in Nat /\ next \in 0 .. n /\ L >= 1 /\ s[1] = -1
      /\ \A i, j \in 1 .. L : i < j => s[i] < s[j]
      /\ \A i \in 1 .. L : s[i] < next /\ s[i] \in Int
  BY DEF Situation, IsOrdered
<1>2. ASSUME NEW i \in 2 .. L
      PROVE  s[i] \in 0 .. n - 1 /\ s[i] < next /\ ~Gone(s[i], s, L, next)
  <2>1. i \in 1 .. L /\ 1 \in 1 .. L /\ 1 < i
    BY <1>1
  <2>2. s[i] > -1 /\ s[i] \in Int /\ s[i] < next
    BY <1>1, <2>1
  <2> QED
    BY <1>1, <2>1, <2>2 DEF Gone
<1>3. ASSUME NEW x \in 0 .. n - 1, ~Gone(x, s, L, next), ~(x \in next .. n - 1)
      PROVE  \E k \in 2 .. L : x = s[k]
  <2>1. PICK k \in 1 .. L : s[k] = x
    BY <1>1, <1>3 DEF Gone
  <2>2. k # 1
    BY <1>1, <2>1
  <2> QED
    BY <1>1, <2>1, <2>2
<1> QED
  BY <1>1, <1>2, <1>3

(* When the oracle shifts, the second token waits for the input unless it is    *)
(* the head of the first.                                                   *)
LEMMA SecondWaits ==
  ASSUME NEW h, NEW s, NEW L, NEW next, NEW n, Situation(h, s, L, next, n),
         L >= 3, h[s[L - 1]] # s[L], h[s[L]] # s[L - 1]
  PROVE  \E x \in next .. n - 1 : Arc(h, s[L - 1], x)
<1>1. L \in Nat /\ L - 1 \in 2 .. L - 1 /\ L - 1 \in 1 .. L
  BY DEF Situation
<1>2. PICK x \in 0 .. n - 1 : s[L - 1] < x /\ ~Gone(x, s, L, next) /\ Arc(h, s[L - 1], x)
  BY <1>1, Zenon DEF Situation, OnTrack
<1>3. ASSUME NEW k \in 2 .. L, x = s[k]
      PROVE  FALSE
  <2>1. k \in 1 .. L
    BY <1>1
  <2>2. k > L - 1
    <3>1. ASSUME k < L - 1
          PROVE  s[k] < s[L - 1]
      BY <1>1, <2>1, <3>1, NotGone, Zenon
    <3>2. s[k] \in Int /\ s[L - 1] \in Int
      BY <1>1, <2>1 DEF Situation, IsOrdered
    <3> QED
      BY <1>1, <1>2, <1>3, <3>1, <3>2
  <2>3. k = L
    BY <1>1, <2>2
  <2> QED
    BY <1>2, <1>3, <2>3 DEF Arc
<1>4. x \in next .. n - 1 \/ \E k \in 2 .. L : x = s[k]
  BY <1>2, NotGone
<1> QED
  BY <1>2, <1>3, <1>4, Zenon
(* So the first token waits for the input: its head or a dependent is there. *)
LEMMA FirstWaits ==
  ASSUME NEW h, NEW s, NEW L, NEW next, NEW n, Situation(h, s, L, next, n),
         L >= 2, OracleShifts(h, s, L, next, n)
  PROVE  \E x \in next .. n - 1 : Arc(h, s[L], x)
<1>1. /\ n \in Nat /\ L \in Nat /\ L \in 2 .. L /\ L \in 1 .. L /\ next \in 0 .. n
      /\ h \in [0 .. n - 1 -> -1 .. n - 1] /\ s[1] = -1
      /\ \A i, j \in 1 .. L : i < j => s[i] < s[j]
      /\ \A i \in 1 .. L : s[i] \in -1 .. n - 1 /\ s[i] < next
  BY StackPlaced DEF Placed
<1> DEFINE c == s[L]
           y == h[c]
<1>2. c \in 0 .. n - 1 /\ ~Gone(c, s, L, next) /\ y \in -1 .. n - 1
  BY <1>1, NotGone
<1>3. y \in next .. n - 1 \/ \E k \in 1 .. L : y = s[k]
  <2>1. CASE y = -1
    BY <1>1, <2>1
  <2>2. CASE y # -1
    <3>1. ~Gone(y, s, L, next)
      BY <1>2, <2>2, Zenon DEF Situation, OnTrack
    <3>2. y \in 0 .. n - 1
      BY <1>2, <2>2
    <3>3. y \in next .. n - 1 \/ \E k \in 2 .. L : y = s[k]
      BY <3>1, <3>2, NotGone
    <3> QED
      BY <1>1, <3>3
  <2> QED
    BY <2>1, <2>2
<1>4. CASE y \in next .. n - 1
  BY <1>2, <1>4 DEF Arc
<1>5. ASSUME NEW k \in 1 .. L, y = s[k]
      PROVE  \E x \in next .. n - 1 : Arc(h, s[L], x)
  <2>1. k # L
    BY <1>2, <1>5 DEF Situation, IsPlanar
  <2>2. CASE k = L - 1
    <3>1. PICK v \in next .. n - 1 : h[v] = c
      BY <1>5, <2>2 DEF OracleShifts, Childless
    <3> QED
      BY <1>1, <3>1 DEF Arc
  <2>3. CASE k # L - 1
    <3>1. L >= 3 /\ L - 1 \in 1 .. L /\ k < L - 1 /\ k < L /\ L - 1 < L
      BY <1>1, <2>1, <2>3
    <3>2. h[s[L - 1]] # s[L] /\ s[k] < s[L - 1] /\ s[L - 1] < s[L]
      BY <1>1, <3>1 DEF OracleShifts
    <3>3. h[s[L]] # s[L - 1]
      BY <1>1, <1>5, <3>1, <3>2
    <3>4. PICK x \in next .. n - 1 : Arc(h, s[L - 1], x)
      BY <3>1, <3>2, <3>3, SecondWaits, Zenon
    <3>5. Arc(h, s[k], s[L])
      BY <1>2, <1>5 DEF Arc
    <3>6. x \in -1 .. n - 1 /\ s[L] < x
      BY <1>1, <3>4, SMTT(60)
    <3> QED
      BY <1>1, <3>1, <3>2, <3>4, <3>5, <3>6, Zenon DEF Situation, IsPlanar
  <2> QED
    BY <2>2, <2>3
<1> QED
  BY <1>3, <1>4, <1>5

(* A shift of the oracle leaves the parse on track. *)
LEMMA ShiftOnTrack ==
  ASSUME NEW h, NEW s, NEW L, NEW next, NEW n, Situation(h, s, L, next, n),
         OracleShifts(h, s, L, next, n), NEW new,
         \A i \in 1 .. L : new[i] = s[i], new[L + 1] = next
  PROVE  OnTrack(h, new, L + 1, next + 1, n)
<1>1. /\ n \in Nat /\ L \in Nat /\ L >= 1 /\ next \in 0 .. n
      /\ h \in [0 .. n - 1 -> -1 .. n - 1] /\ s[1] = -1
      /\ \A i, j \in 1 .. L : i < j => s[i] < s[j]
      /\ \A i \in 1 .. L : s[i] \in -1 .. n - 1 /\ s[i] < next
  BY StackPlaced, Zenon DEF Placed
<1>2. \A t \in Int : Gone(t, new, L + 1, next + 1) <=> Gone(t, s, L, next)
  <2>1. next \in Nat
    BY <1>1
  <2> QED
    BY <1>1, <2>1, GrownGone, Zenon
<1>3. ASSUME NEW v \in 0 .. n - 1, h[v] # -1, Gone(h[v], new, L + 1, next + 1)
      PROVE  Gone(v, new, L + 1, next + 1)
  BY <1>1, <1>2, <1>3, SMTT(60) DEF Situation, OnTrack
<1>4. ASSUME NEW i \in 2 .. (L + 1) - 1, NEW j \in 2 .. (L + 1) - 1, j < i
      PROVE  h[new[j]] # new[i]
  <2>1. i \in 2 .. L /\ j \in 2 .. L - 1 /\ new[i] = s[i] /\ new[j] = s[j]
    BY <1>1, <1>4
  <2>2. CASE i # L
    <3>1. i \in 2 .. L - 1
      BY <1>1, <2>1, <2>2
    <3> QED
      BY <1>4, <2>1, <3>1, Zenon DEF Situation, OnTrack
  <2>3. ASSUME i = L, h[s[j]] = s[L]
        PROVE  FALSE
    <3>1. L >= 3 /\ L - 1 \in 1 .. L /\ j \in 1 .. L /\ L \in 1 .. L /\ L - 1 < L /\ L - 1 \in 2 .. L
      BY <1>1, <2>1, <2>3, SMTT(60)
    <3>2. j # L - 1
      BY <2>3, <3>1 DEF OracleShifts
    <3>3. j < L - 1
      BY <1>1, <2>1, <3>2
    <3>4. s[j] < s[L - 1] /\ s[L - 1] < s[L] /\ s[j] \in 0 .. n - 1 /\ s[L - 1] \in 0 .. n - 1
      <4>1. s[j] < s[L - 1] /\ s[L - 1] < s[L]
        BY <1>1, <3>1, <3>3, Zenon
      <4>2. j \in 2 .. L
        BY <1>1, <2>1
      <4> QED
        BY <3>1, <4>1, <4>2, NotGone, Zenon
    <3>5. CASE h[s[L]] = s[L - 1]
      <4>1. Between(s[L - 1], s[j], h[s[j]]) /\ h[s[j]] # -1
        BY <2>3, <3>4 DEF Between
      <4> QED
        BY <2>3, <3>4, <3>5, <4>1, SMTT(60) DEF Situation, IsPlanar
    <3>6. CASE h[s[L]] # s[L - 1]
      <4>1. h[s[L - 1]] # s[L]
        BY <3>1 DEF OracleShifts
      <4>2. PICK x \in next .. n - 1 : Arc(h, s[L - 1], x)
        BY <3>1, <3>6, <4>1, SecondWaits, Zenon
      <4>3. s[L] < next /\ s[L] \in -1 .. n - 1 /\ s[j] # -1
        BY <1>1, <3>1, <3>4, SMTT(60)
      <4>4. x \in -1 .. n - 1 /\ s[L] < x
        BY <1>1, <4>2, <4>3
      <4>5. Arc(h, s[j], s[L])
        BY <2>3, <4>3, Zenon DEF Arc
      <4>6. s[j] \in -1 .. n - 1 /\ s[L - 1] \in -1 .. n - 1
        BY <1>1, <3>1
      <4> QED
        BY <3>4, <4>2, <4>3, <4>4, <4>5, <4>6, Zenon DEF Situation, IsPlanar
    <3> QED
      BY <3>5, <3>6
  <2> QED
    BY <2>1, <2>2, <2>3
<1>5. ASSUME NEW i \in 2 .. (L + 1) - 1
      PROVE  \E x \in 0 .. n - 1 :
               new[i] < x /\ ~Gone(x, new, L + 1, next + 1) /\ Arc(h, new[i], x)
  <2>1. i \in 2 .. L /\ new[i] = s[i]
    BY <1>1, <1>5
  <2>2. CASE i = L
    <3>1. PICK x \in next .. n - 1 : Arc(h, s[L], x)
      BY <2>1, <2>2, <1>1, FirstWaits
    <3>2. x \in 0 .. n - 1 /\ s[L] < x /\ ~Gone(x, s, L, next)
      BY <1>1, <2>1, <2>2, <3>1, SMTT(60) DEF Gone
    <3> QED
      BY <1>2, <2>1, <2>2, <3>1, <3>2, SMTT(60)
  <2>3. CASE i # L
    <3>1. i \in 2 .. L - 1
      BY <1>1, <2>1, <2>3
    <3>2. PICK x \in 0 .. n - 1 : s[i] < x /\ ~Gone(x, s, L, next) /\ Arc(h, s[i], x)
      BY <3>1, Zenon DEF Situation, OnTrack
    <3> QED
      BY <1>2, <2>1, <3>2
  <2> QED
    BY <2>2, <2>3
<1> QED
  BY <1>3, <1>4, <1>5 DEF OnTrack
(* The dependent of an arc of the oracle has no dependents left. *)
LEMMA ArcChildless ==
  ASSUME NEW h, NEW s, NEW L, NEW next, NEW n, Situation(h, s, L, next, n),
         NEW c \in 0 .. n - 1, NEW p \in -1 .. n - 1, IsArcOf(s, L, c, p), h[c] = p,
         c = s[L] => Childless(h, c, next, n),
         NEW v \in 0 .. n - 1, h[v] = c
  PROVE  Gone(v, s, L, next)
<1> SUFFICES ASSUME ~Gone(v, s, L, next)
             PROVE  FALSE
  OBVIOUS
<1>1. /\ n \in Nat /\ L \in Nat /\ L >= 1 /\ next \in 0 .. n
      /\ \A i, j \in 1 .. L : i < j => s[i] < s[j]
      /\ \A i \in 1 .. L : s[i] \in -1 .. n - 1 /\ s[i] < next
  BY StackPlaced, Zenon DEF Placed
<1>2. L >= 2 /\ L - 1 \in 1 .. L /\ L \in 1 .. L /\ L - 1 < L
  BY <1>1 DEF IsArcOf
<1>3. s[L - 1] < s[L] /\ s[L] < next /\ s[L] \in -1 .. n - 1 /\ s[L - 1] \in -1 .. n - 1
  BY <1>1, <1>2, Zenon
<1>4. v # c /\ v # p /\ c # -1
  BY DEF Situation, IsPlanar
<1>5. v \in next .. n - 1 \/ \E k \in 2 .. L : v = s[k]
  BY NotGone
<1>6. CASE v \in next .. n - 1
  <2>1. c # s[L]
    BY <1>6 DEF Childless
  <2>2. c = s[L - 1] /\ p = s[L]
    BY <2>1 DEF IsArcOf
  <2>3. Between(p, v, h[v]) /\ p \in 0 .. n - 1 /\ h[v] # -1
    BY <1>1, <1>3, <1>4, <1>6, <2>2, SMTT(60) DEF Between
  <2> QED
    BY <2>3 DEF Situation, IsPlanar
<1>7. ASSUME NEW k \in 2 .. L, v = s[k]
      PROVE  FALSE
  <2>1. k # L /\ k # L - 1
    BY <1>4, <1>7 DEF IsArcOf
  <2>2. k \in 1 .. L /\ k \in 2 .. L - 1 /\ L - 1 \in 2 .. L - 1 /\ k < L - 1 /\ L - 1 \in 2 .. L
    BY <1>1, <2>1
  <2>3. CASE c = s[L - 1]
    BY <1>7, <2>2, <2>3, Zenon DEF Situation, OnTrack
  <2>4. CASE c = s[L] /\ p = s[L - 1]
    <3>1. s[k] < s[L - 1]
      BY <1>1, <1>2, <2>2, Zenon
    <3>2. p \in 0 .. n - 1
      BY <2>2, <2>4, NotGone
    <3>3. Between(p, v, h[v])
      BY <1>3, <1>7, <2>4, <3>1, SMTT(60) DEF Between
    <3> QED
      BY <1>4, <3>2, <3>3 DEF Situation, IsPlanar
  <2> QED
    BY <2>3, <2>4 DEF IsArcOf
<1> QED
  BY <1>5, <1>6, <1>7

(* An arc of the oracle leaves the parse on track. *)
LEMMA ArcOnTrack ==
  ASSUME NEW h, NEW s, NEW L, NEW next, NEW n, Situation(h, s, L, next, n),
         NEW c \in 0 .. n - 1, NEW p \in -1 .. n - 1, IsArcOf(s, L, c, p), h[c] = p,
         c = s[L] => Childless(h, c, next, n), NEW new, IsShrunk(s, L, new, p)
  PROVE  OnTrack(h, new, L - 1, next, n)
<1>1. /\ n \in Nat /\ L \in Nat /\ L >= 1 /\ next \in 0 .. n
      /\ h \in [0 .. n - 1 -> -1 .. n - 1]
      /\ \A i, j \in 1 .. L : i < j => s[i] < s[j]
      /\ \A i \in 1 .. L : s[i] \in -1 .. n - 1 /\ s[i] < next
  BY StackPlaced, Zenon DEF Placed
<1>2. \A t \in Int : Gone(t, new, L - 1, next) <=> Gone(t, s, L, next) \/ t = c
  <2>1. next \in Nat /\ IsOrdered(s, L, next)
    BY <1>1 DEF Situation
  <2> QED
    BY <1>1, <2>1, ShrunkGone, Zenon
<1>3. \A v \in 0 .. n - 1 : h[v] = c => Gone(v, s, L, next)
  BY ArcChildless, Zenon
<1>4. /\ \A i \in 2 .. (L - 1) - 1 : /\ i \in 1 .. L - 2 /\ i \in 1 .. L /\ i \in 2 .. L - 1
                                    /\ i < L - 1 /\ i < L /\ i \in 2 .. L
      /\ L >= 2 => L - 1 \in 1 .. L /\ L \in 1 .. L
      /\ L >= 2
  BY <1>1 DEF IsArcOf
<1>5. \A i \in 2 .. (L - 1) - 1 : new[i] = s[i]
  BY <1>4, Zenon DEF IsShrunk
<1>6. ASSUME NEW v \in 0 .. n - 1, h[v] # -1, Gone(h[v], new, L - 1, next)
      PROVE  Gone(v, new, L - 1, next)
  BY <1>1, <1>2, <1>3, <1>6 DEF Situation, OnTrack
<1>7. ASSUME NEW i \in 2 .. (L - 1) - 1, NEW j \in 2 .. (L - 1) - 1, j < i
      PROVE  h[new[j]] # new[i]
  BY <1>4, <1>5, <1>7, Zenon DEF Situation, OnTrack
<1>8. ASSUME NEW i \in 2 .. (L - 1) - 1
      PROVE  \E x \in 0 .. n - 1 :
               new[i] < x /\ ~Gone(x, new, L - 1, next) /\ Arc(h, new[i], x)
  <2>1. i \in 2 .. L - 1 /\ i \in 2 .. L /\ new[i] = s[i]
    BY <1>4, <1>5
  <2>2. PICK x \in 0 .. n - 1 : s[i] < x /\ ~Gone(x, s, L, next) /\ Arc(h, s[i], x)
    BY <2>1, Zenon DEF Situation, OnTrack
  <2>3. s[i] \in 0 .. n - 1 /\ ~Gone(s[i], s, L, next)
    BY <2>1, NotGone, Zenon
  <2>4. s[i] # p
    <3>1. s[i] < s[L - 1] /\ s[i] < s[L] /\ s[i] \in Int
      BY <1>1, <1>4
    <3> QED
      BY <1>1, <1>4, <3>1, SMTT(60) DEF IsArcOf
  <2>5. x # c
    <3>1. ASSUME x = c
          PROVE  FALSE
      <4>1. h[s[i]] = c \/ h[c] = s[i]
        BY <2>2, <3>1, Zenon DEF Arc
      <4> QED
        BY <1>3, <2>3, <2>4, <4>1
    <3> QED
      BY <3>1
  <2> QED
    BY <1>2, <2>1, <2>2, <2>5
<1> QED
  BY <1>6, <1>7, <1>8 DEF OnTrack
-----------------------------------------------------------------------------
(* The scan of DoneChildrenRightOf.  Where it jumps from a token to its head,   *)
(* a dependent of x that it jumped over would have an arc that crosses.         *)
LEMMA ScanSteps ==
  ASSUME NEW n \in Nat, NEW next \in 0 .. n, NEW h \in Analyses(n), IsPlanar(h, n),
         NEW x \in -1 .. n - 1, x < next, NEW i \in next .. n
  PROVE  /\ i = n => Childless(h, x, i, n)
         /\ i # n => /\ i \in 0 .. n - 1
                     /\ h[i] = x => ~Childless(h, x, i, n)
                     /\ h[i] # x /\ h[i] > i =>
                          /\ h[i] \in next .. n
                          /\ Childless(h, x, i, n) <=> Childless(h, x, h[i], n)
                     /\ h[i] # x /\ ~(h[i] > i) =>
                          /\ i + 1 \in next .. n
                          /\ Childless(h, x, i, n) <=> Childless(h, x, i + 1, n)
<1>1. i = n => Childless(h, x, i, n)
  BY DEF Childless
<1> SUFFICES ASSUME i # n
             PROVE  /\ i \in 0 .. n - 1
                    /\ h[i] = x => ~Childless(h, x, i, n)
                    /\ h[i] # x /\ h[i] > i =>
                         /\ h[i] \in next .. n
                         /\ Childless(h, x, i, n) <=> Childless(h, x, h[i], n)
                    /\ h[i] # x /\ ~(h[i] > i) =>
                         /\ i + 1 \in next .. n
                         /\ Childless(h, x, i, n) <=> Childless(h, x, i + 1, n)
  BY <1>1
<1>2. i \in 0 .. n - 1 /\ i \in i .. n - 1 /\ i + 1 \in next .. n /\ h[i] \in -1 .. n - 1
  BY DEF Analyses
<1>3. h[i] = x => ~Childless(h, x, i, n)
  BY <1>2 DEF Childless
<1>4. ASSUME h[i] # x
      PROVE  Childless(h, x, i, n) <=> Childless(h, x, i + 1, n)
  <2>1. \A v \in i .. n - 1 : v = i \/ v \in i + 1 .. n - 1
    BY <1>2
  <2>2. \A v \in i + 1 .. n - 1 : v \in i .. n - 1
    BY <1>2
  <2> QED
    BY <1>4, <2>1, <2>2, Zenon DEF Childless
<1>5. ASSUME h[i] # x, h[i] > i
      PROVE  /\ h[i] \in next .. n
             /\ Childless(h, x, i, n) <=> Childless(h, x, h[i], n)
  <2>1. h[i] \in next .. n /\ \A v \in h[i] .. n - 1 : v \in i .. n - 1
    BY <1>2, <1>5
  <2>2. ASSUME NEW v \in i .. n - 1, h[v] = x, ~(v \in h[i] .. n - 1)
        PROVE  FALSE
    <3>1. v # i
      BY <1>5, <2>2
    <3>2. v \in -1 .. n - 1 /\ v # -1 /\ i # -1 /\ i \in -1 .. n - 1 /\ x < i /\ i < v /\ v < h[i]
      BY <1>2, <2>2, <3>1
    <3>3. Arc(h, x, v) /\ Arc(h, i, h[i])
      BY <2>2, <3>2 DEF Arc
    <3> QED
      BY <1>2, <3>2, <3>3 DEF IsPlanar
  <2> QED
    BY <2>1, <2>2, Zenon DEF Childless
<1> QED
  BY <1>2, <1>3, <1>4, <1>5
=============================================================================
