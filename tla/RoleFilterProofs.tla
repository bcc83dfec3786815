-------------------------- MODULE RoleFilterProofs --------------------------
(***************************************************************************)
(* What the filters of RoleFilters return, whatever they are given: which  *)
(* systemd units their lists hold, and that they are lists.  A filter      *)
(* joins what it appends for each item, FlattenSeq, which is a recursive   *)
(* function.  What such a function is at n is shown by its least           *)
(* counterexample, since < is well-founded on the natural numbers.         *)
(***************************************************************************)
EXTENDS RoleFilters, WellFoundedInduction, TLAPS

Less == {x \in Nat \X Nat : x[1] < x[2]}

\* Every set of natural numbers has a least element.
LEMMA LeastNumber ==
  ASSUME NEW T \in SUBSET Nat, T # {}
  PROVE  \E n \in T : \A m \in T : n <= m
<1>1. IsWellFoundedOn(Less, Nat)
  BY NatLessThanWellFounded DEF OpToRel, Less
<1>2. PICK n \in T : \A m \in T : <<m, n>> \notin Less
  BY <1>1, WFMin
<1>3. ASSUME NEW m \in T PROVE n <= m
  <2>1. m \in Nat /\ n \in Nat /\ ~(m < n)
    BY <1>2 DEF Less
  <2> QED
    BY <2>1
<1> QED
  BY <1>3

\* Induction from 1 to n, over a set.
LEMMA Inductive ==
  ASSUME NEW n \in Nat, NEW T, 1 \in T, \A i \in T : i < n => i + 1 \in T
  PROVE  1..n \subseteq T
<1> DEFINE U == (1..n) \ T
<1> SUFFICES ASSUME U # {} PROVE FALSE
  OBVIOUS
<1>0. U \in SUBSET Nat
  OBVIOUS
<1>1. PICK i \in U : \A m \in U : i <= m
  <2> HIDE DEF U
  <2> QED
    BY <1>0, LeastNumber
<1>2. i \in 1..n /\ i \notin T /\ i # 1 /\ i - 1 \in 1..n
  BY <1>1
<1>3. i - 1 \in T
  <2>1. ~(i <= i - 1)
    BY <1>2
  <2> QED
    BY <1>1, <1>2, <2>1
<1>4. i - 1 < n /\ (i - 1) + 1 = i
  BY <1>2
<1> QED
  BY <1>2, <1>3, <1>4

-----------------------------------------------------------------------------
(* Joining sequences *)

\* Joined first to last: the function that FlattenSeq computes, up to n.
Joins(f, s, n) == f = [i \in 1..n |-> IF i = 1 THEN s[i] ELSE f[i - 1] \o s[i]]

LEMMA JoinsExists ==
  ASSUME NEW s, NEW n \in Nat, n > 0
  PROVE  \E f : Joins(f, s, n)
<1> DEFINE T == {m \in 1..n : \E f : Joins(f, s, m)}
<1>1. 1 \in T
  <2>1. Joins([i \in 1..1 |-> s[1]], s, 1)
    BY DEF Joins
  <2> QED
    BY <2>1
<1>2. ASSUME NEW i \in T, i < n
      PROVE  i + 1 \in T
  <2>1. PICK f : Joins(f, s, i)
    BY <1>2
  <2>2. i \in Nat /\ i >= 1 /\ i + 1 \in 1..n
    BY <1>2
  <2> HIDE DEF T
  <2> DEFINE g == [j \in 1..(i + 1) |-> IF j = i + 1 THEN f[i] \o s[i + 1] ELSE f[j]]
  <2>3. ASSUME NEW j \in 1..(i + 1)
        PROVE  g[j] = IF j = 1 THEN s[j] ELSE g[j - 1] \o s[j]
    <3>1. CASE j = i + 1
      <4>1. j - 1 \in 1..(i + 1) /\ j - 1 # i + 1 /\ j - 1 = i /\ j # 1
        BY <2>2, <3>1
      <4>2. g[j - 1] = f[j - 1] /\ g[j] = f[i] \o s[i + 1]
        BY <4>1, <3>1
      <4> QED
        BY <4>1, <4>2, <3>1
    <3>2. CASE j # i + 1
      <4>1. j \in 1..i /\ g[j] = f[j]
        BY <2>2, <3>2
      <4>2. f[j] = IF j = 1 THEN s[j] ELSE f[j - 1] \o s[j]
        BY <4>1, <2>1 DEF Joins
      <4>3. j # 1 => g[j - 1] = f[j - 1]
        BY <4>1, <2>2
      <4> QED
        BY <4>1, <4>2, <4>3
    <3> QED
      BY <3>1, <3>2
  <2>4. g = [j \in 1..(i + 1) |-> g[j]]
    OBVIOUS
  <2> HIDE DEF g
  <2>5. Joins(g, s, i + 1)
    BY <2>3, <2>4 DEF Joins
  <2> QED
    BY <2>2, <2>5 DEF T
<1>3. n \in T
  <2> HIDE DEF T
  <2>1. 1..n \subseteq T
    BY <1>1, <1>2, Inductive
  <2> QED
    BY <2>1
<1> QED
  BY <1>3

LEMMA JoinedSet ==
  ASSUME NEW S, NEW a \in Seq(S), NEW b \in Seq(S)
  PROVE  ToSet(a \o b) = ToSet(a) \cup ToSet(b)
<1> DEFINE c == a \o b
<1>1. \A j \in 1..Len(a) : c[j] = a[j]
  OBVIOUS
<1>2. \A j \in 1..Len(b) : c[Len(a) + j] = b[j] /\ Len(a) + j \in 1..Len(c)
  OBVIOUS
<1>3. \A j \in 1..Len(c) : j \in 1..Len(a) \/ (j - Len(a) \in 1..Len(b) /\ c[j] = b[j - Len(a)])
  OBVIOUS
<1>4. /\ DOMAIN a = 1..Len(a) /\ DOMAIN b = 1..Len(b) /\ DOMAIN c = 1..Len(c)
      /\ Len(a) \in Nat /\ Len(b) \in Nat /\ \A j \in 1..Len(a) : j \in 1..Len(c)
  OBVIOUS
<1> HIDE DEF c
<1>5. ToSet(c) \subseteq ToSet(a) \cup ToSet(b)
  BY <1>1, <1>3, <1>4 DEF ToSet
<1>6. ToSet(a) \subseteq ToSet(c)
  BY <1>1, <1>4 DEF ToSet
<1>7. ToSet(b) \subseteq ToSet(c)
  BY <1>2, <1>4 DEF ToSet
<1> QED
  BY <1>5, <1>6, <1>7 DEF c

\* Joining n sequences makes a sequence of all that is in them, and of nothing else.
LEMMA Flattened ==
  ASSUME NEW S, NEW n \in Nat, NEW s \in [1..n -> Seq(S)]
  PROVE  /\ FlattenSeq(s) \in Seq(S)
         /\ ToSet(FlattenSeq(s)) = UNION {ToSet(s[k]) : k \in 1..n}
<1>1. Len(s) = n /\ \A k \in 1..n : s[k] \in Seq(S)
  <2>1. s \in Seq(Seq(S))
    OBVIOUS
  <2>2. Len(s) \in Nat /\ DOMAIN s = 1..Len(s) /\ DOMAIN s = 1..n
    BY <2>1
  <2> QED
    BY <2>2
<1>2. CASE n = 0
  <2>1. FlattenSeq(s) = s /\ s = <<>>
    BY <1>1, <1>2 DEF FlattenSeq
  <2> QED
    BY <2>1, <1>2 DEF ToSet
<1>3. CASE n # 0
  <2> DEFINE f == CHOOSE f : Joins(f, s, n)
             T == {i \in 1..n : /\ f[i] \in Seq(S)
                                /\ ToSet(f[i]) = UNION {ToSet(s[k]) : k \in 1..i}}
  <2>1. FlattenSeq(s) = f[n]
    BY <1>1, <1>3, Zenon DEF FlattenSeq, Joins
  <2>2. Joins(f, s, n)
    <3>1. \E g : Joins(g, s, n)
      <4>1. n > 0
        BY <1>3
      <4> HIDE DEF f, T
      <4> QED
        BY <4>1, JoinsExists
    <3> QED
      BY <3>1
  <2> HIDE DEF f
  <2>3. 1 \in T
    <3>1. f[1] = s[1] /\ 1 \in 1..n
      BY <1>3, <2>2 DEF Joins
    <3>2. {ToSet(s[k]) : k \in 1..1} = {ToSet(s[1])}
      OBVIOUS
    <3> QED
      BY <3>1, <3>2, <1>1
  <2>4. ASSUME NEW i \in T, i < n
        PROVE  i + 1 \in T
    <3>1. i \in 1..n
      BY <2>4
    <3>2. i + 1 \in 1..n /\ i + 1 # 1 /\ (i + 1) - 1 = i /\ 1..(i + 1) = (1..i) \cup {i + 1}
      BY <3>1, <2>4
    <3>3. f[i + 1] = f[i] \o s[i + 1]
      BY <3>2, <2>2 DEF Joins
    <3>4. f[i] \in Seq(S) /\ s[i + 1] \in Seq(S)
      BY <2>4, <3>2, <1>1
    <3>5. ToSet(f[i + 1]) = ToSet(f[i]) \cup ToSet(s[i + 1])
      BY <3>3, <3>4, JoinedSet
    <3>6. UNION {ToSet(s[k]) : k \in 1..(i + 1)}
          = (UNION {ToSet(s[k]) : k \in 1..i}) \cup ToSet(s[i + 1])
      BY <3>2
    <3>7. f[i + 1] \in Seq(S)
      BY <3>3, <3>4
    <3> QED
      BY <2>4, <3>2, <3>5, <3>6, <3>7
  <2>5. n \in T
    <3> HIDE DEF T
    <3>1. 1..n \subseteq T
      BY <1>3, <2>3, <2>4, Inductive
    <3> QED
      BY <3>1, <1>3
  <2> QED
    BY <2>1, <2>5
<1> QED
  BY <1>2, <1>3
\* s holds g for the items P of n items, and nothing for the others.
Appends(s, n, P, g, S) ==
  /\ n \in Nat /\ P \in SUBSET (1..n) /\ s \in [1..n -> Seq(S)]
  /\ \A k \in 1..n : s[k] = IF k \in P THEN g[k] ELSE <<>>

LEMMA AppendedFor ==
  ASSUME NEW s, NEW n, NEW P, NEW g, NEW S, Appends(s, n, P, g, S)
  PROVE  /\ FlattenSeq(s) \in Seq(S)
         /\ \A x : x \in ToSet(FlattenSeq(s)) <=> \E k \in P : x \in ToSet(g[k])
<1>1. FlattenSeq(s) \in Seq(S) /\ ToSet(FlattenSeq(s)) = UNION {ToSet(s[k]) : k \in 1..n}
  BY Flattened DEF Appends
<1>2. ToSet(<<>>) = {}
  BY DEF ToSet
<1> QED
  BY <1>1, <1>2 DEF Appends

-----------------------------------------------------------------------------
(* The filters *)

IsSequence(s) == Len(s) \in Nat /\ DOMAIN s = 1..Len(s)

LEMMA AddressesKept ==
  ASSUME NEW dns, IsSequence(dns)
  PROVE  ToSet(AddressesIn(dns)) = ToSet(dns) \ {None, Empty}
<1> DEFINE n == Len(dns)
           P == {k \in 1..n : Given(dns[k])}
           g == [k \in 1..n |-> <<dns[k]>>]
<1>1. n \in Nat /\ DOMAIN dns = 1..n
  BY DEF IsSequence
<1>2. AddressesIn(dns) = FlattenSeq([k \in 1..n |-> IF k \in P THEN g[k] ELSE <<>>])
  <2>1. [k \in DOMAIN dns |-> IF Given(dns[k]) THEN <<dns[k]>> ELSE <<>>]
        = [k \in 1..n |-> IF k \in P THEN g[k] ELSE <<>>]
    BY <1>1
  <2> QED
    BY <2>1 DEF AddressesIn
<1>3. \A k \in P : g[k] \in Seq(ToSet(dns)) /\ g[k] = <<dns[k]>>
  BY <1>1 DEF ToSet
<1>4. \A x : ToSet(<<x>>) = {x}
  BY DEF ToSet
<1> HIDE DEF n, g
<1>5. \A x : x \in ToSet(AddressesIn(dns)) <=> \E k \in P : x \in ToSet(g[k])
  <2> DEFINE s == [k \in 1..n |-> IF k \in P THEN g[k] ELSE <<>>]
  <2>1. \A k \in 1..n : s[k] \in Seq(ToSet(dns))
    BY <1>3
  <2>2. Appends(s, n, P, g, ToSet(dns))
    <3>1. P \in SUBSET (1..n)
      OBVIOUS
    <3>2. \A k \in 1..n : s[k] = IF k \in P THEN g[k] ELSE <<>>
      OBVIOUS
    <3>3. s \in [1..n -> Seq(ToSet(dns))]
      BY <2>1
    <3> HIDE DEF P, s
    <3> QED
      BY <1>1, <3>1, <3>2, <3>3 DEF Appends
  <2>3. AddressesIn(dns) = FlattenSeq(s)
    BY <1>2
  <2> HIDE DEF s, P
  <2> QED
    BY <2>2, <2>3, AppendedFor
<1>6. \A x : x \in ToSet(AddressesIn(dns)) <=> \E k \in P : x = dns[k]
  <2>1. \A k \in P : ToSet(g[k]) = {dns[k]}
    BY <1>3, <1>4
  <2> HIDE DEF P
  <2> QED
    BY <1>5, <2>1
<1>7. \A x : (\E k \in P : x = dns[k]) <=> x \in ToSet(dns) \ {None, Empty}
  BY <1>1 DEF ToSet, Given
<1> QED
  BY <1>6, <1>7

PartsOf(d) == {<<d, p>> : p \in {"service", "socket", "ro", "admin", "tcp", "tls"}}

LEMMA DaemonUnits ==
  ASSUME NEW d
  PROVE  /\ modular_socket_units(d) \in Seq(PartsOf(d)) /\ AllUnits(d) \in Seq(PartsOf(d))
         /\ ToSet(modular_socket_units(d)) \cup {<<d, "service">>} \subseteq ToSet(AllUnits(d))

<1> DEFINE S == PartsOf(d)
           a == <<<<d, "service">>>>
           b == <<<<d, "socket">>>>
           c == IF d \in {"lock", "log"} THEN <<>> ELSE <<<<d, "ro">>>>
           e == <<<<d, "admin">>>>
           f == IF d # "proxy" THEN <<>> ELSE <<<<"proxy", "tcp">>, <<"proxy", "tls">>>>
<1>1. \A p \in {"service", "socket", "ro", "admin", "tcp", "tls"} : <<d, p>> \in S
  BY DEF PartsOf
<1>2. modular_socket_units(d) = b \o c \o e /\ AllUnits(d) = a \o (b \o c \o e) \o f
  BY DEF modular_socket_units, AllUnits
<1>3. a \in Seq(S) /\ b \in Seq(S) /\ c \in Seq(S) /\ e \in Seq(S) /\ f \in Seq(S)
  <2> HIDE DEF S
  <2> QED
    BY <1>1
<1>4. \A x : ToSet(<<x>>) = {x}
  BY DEF ToSet
<1>5. <<d, "service">> \in ToSet(a)
  BY <1>4
<1> HIDE DEF a, b, c, e, f, S
<1>6. b \o c \in Seq(S) /\ b \o c \o e \in Seq(S) /\ a \o (b \o c \o e) \in Seq(S)
      /\ a \o (b \o c \o e) \o f \in Seq(S)
  BY <1>3
<1> DEFINE x == b \o c \o e
           y == a \o x
<1>7. ToSet(y) = ToSet(a) \cup ToSet(x) /\ ToSet(y \o f) = ToSet(y) \cup ToSet(f)
  <2>1. x \in Seq(S) /\ y \in Seq(S)
    BY <1>6
  <2> HIDE DEF x
  <2>2. ToSet(y) = ToSet(a) \cup ToSet(x)
    BY <1>3, <2>1, JoinedSet
  <2> HIDE DEF y
  <2> QED
    BY <1>3, <2>1, <2>2, JoinedSet
<1> QED
  BY <1>2, <1>5, <1>6, <1>7 DEF S
\* s holds units of their daemons for the services P, and nothing for the others.
UnitsFor(s, services, P, g) ==
  /\ IsSequence(services) /\ P \in SUBSET DOMAIN services
  /\ s = [k \in DOMAIN services |-> IF k \in P THEN g[k] ELSE <<>>]
  /\ \A k \in P : g[k] \in Seq(PartsOf(services[k].daemon))

LEMMA UnitsListed ==
  ASSUME NEW s, NEW services, NEW P, NEW g, UnitsFor(s, services, P, g)
  PROVE  /\ IsSequence(FlattenSeq(s))
         /\ \A u : u \in ToSet(FlattenSeq(s)) <=> \E k \in P : u \in ToSet(g[k])
<1> DEFINE n == Len(services)
           S == UNION {PartsOf(services[k].daemon) : k \in P}
<1>1. n \in Nat /\ DOMAIN services = 1..n
  BY DEF IsSequence, UnitsFor
<1>2. \A k \in P : g[k] \in Seq(S)
  BY DEF UnitsFor
<1>3. P \in SUBSET (1..n) /\ s = [k \in 1..n |-> IF k \in P THEN g[k] ELSE <<>>]
  BY <1>1 DEF UnitsFor
<1> HIDE DEF S, n
<1>4. \A k \in 1..n : s[k] = IF k \in P THEN g[k] ELSE <<>>
  BY <1>3
<1>5. s \in [1..n -> Seq(S)]
  <2>1. <<>> \in Seq(S)
    OBVIOUS
  <2>2. \A k \in 1..n : s[k] \in Seq(S)
    BY <1>2, <1>4, <2>1
  <2>3. s = [k \in 1..n |-> s[k]]
    BY <1>3
  <2> QED
    BY <2>2, <2>3
<1>6. Appends(s, n, P, g, S)
  BY <1>1, <1>3, <1>4, <1>5 DEF Appends
<1>7. /\ FlattenSeq(s) \in Seq(S)
      /\ \A u : u \in ToSet(FlattenSeq(s)) <=> \E k \in P : u \in ToSet(g[k])
  BY <1>6, AppendedFor
<1>8. IsSequence(FlattenSeq(s))
  BY <1>7 DEF IsSequence
<1> QED
  BY <1>7, <1>8

\* The sockets of the daemons that have a socket enabled.
LEMMA SocketsListed ==
  ASSUME NEW services, IsSequence(services)
  PROVE  /\ IsSequence(modular_sockets(services))
         /\ \A u : u \in ToSet(modular_sockets(services)) <=>
              \E k \in DOMAIN services : /\ only_enabled(services[k], "service")
                                         /\ u \in ToSet(modular_socket_units(services[k].daemon))
<1> DEFINE P == {k \in DOMAIN services : only_enabled(services[k], "service")}
           g == [k \in DOMAIN services |-> modular_socket_units(services[k].daemon)]
           s == [k \in DOMAIN services |-> IF k \in P THEN g[k] ELSE <<>>]
<1>1. modular_sockets(services) = FlattenSeq(s)
  <2>1. s = [k \in DOMAIN services |-> IF only_enabled(services[k], "service")
                                       THEN modular_socket_units(services[k].daemon) ELSE <<>>]
    OBVIOUS
  <2> HIDE DEF s
  <2> QED
    BY <2>1 DEF modular_sockets
<1>2. \A k \in DOMAIN services : g[k] = modular_socket_units(services[k].daemon)
  OBVIOUS
<1>3. P \in SUBSET DOMAIN services /\ \A k \in P : g[k] \in Seq(PartsOf(services[k].daemon))
  BY <1>2, DaemonUnits
<1>4. UnitsFor(s, services, P, g)
  <2> HIDE DEF P, g
  <2> QED
    BY <1>3 DEF UnitsFor
<1>5. \A k : k \in P <=> k \in DOMAIN services /\ only_enabled(services[k], "service")
  OBVIOUS
<1> HIDE DEF P, g, s
<1>6. /\ IsSequence(FlattenSeq(s))
      /\ \A u : u \in ToSet(FlattenSeq(s)) <=> \E k \in P : u \in ToSet(g[k])
  BY <1>4, UnitsListed
<1> QED
  BY <1>1, <1>2, <1>5, <1>6
\* The services of the daemons that have their service enabled.
LEMMA ServicesListed ==
  ASSUME NEW services, IsSequence(services)
  PROVE  /\ IsSequence(modular_services(services))
         /\ \A u : u \in ToSet(modular_services(services)) <=>
              \E k \in DOMAIN services : /\ only_enabled(services[k], "socket")
                                         /\ u = <<services[k].daemon, "service">>
<1> DEFINE P == {k \in DOMAIN services : only_enabled(services[k], "socket")}
           g == [k \in DOMAIN services |-> <<<<services[k].daemon, "service">>>>]
           s == [k \in DOMAIN services |-> IF k \in P THEN g[k] ELSE <<>>]
<1>1. modular_services(services) = FlattenSeq(s)
  <2>1. s = [k \in DOMAIN services |-> IF only_enabled(services[k], "socket")
                                       THEN <<<<services[k].daemon, "service">>>> ELSE <<>>]
    OBVIOUS
  <2> HIDE DEF s
  <2> QED
    BY <2>1 DEF modular_services
<1>2. \A k \in DOMAIN services : g[k] = <<<<services[k].daemon, "service">>>>
  OBVIOUS
<1>3. P \in SUBSET DOMAIN services /\ \A k \in P : g[k] \in Seq(PartsOf(services[k].daemon))
  BY <1>2 DEF PartsOf
<1>4. UnitsFor(s, services, P, g)
  <2> HIDE DEF P, g
  <2> QED
    BY <1>3 DEF UnitsFor
<1>5. \A k : k \in P <=> k \in DOMAIN services /\ only_enabled(services[k], "socket")
  OBVIOUS
<1> HIDE DEF P, g, s
<1>6. /\ IsSequence(FlattenSeq(s))
      /\ \A u : u \in ToSet(FlattenSeq(s)) <=> \E k \in P : u \in ToSet(g[k])
  BY <1>4, UnitsListed
<1>7. \A x : ToSet(<<x>>) = {x}
  BY DEF ToSet
<1>8. \A k \in DOMAIN services : ToSet(g[k]) = {<<services[k].daemon, "service">>}
  BY <1>2, <1>7
<1> QED
  BY <1>1, <1>5, <1>6, <1>8

\* All units of the daemons that are not shared with libvirtd.
LEMMA OffListed ==
  ASSUME NEW services, IsSequence(services)
  PROVE  /\ IsSequence(modular_daemons_off(services))
         /\ \A u : u \in ToSet(modular_daemons_off(services)) <=>
              \E k \in DOMAIN services : /\ services[k].daemon \notin Kept
                                         /\ u \in ToSet(AllUnits(services[k].daemon))
<1> DEFINE P == {k \in DOMAIN services : services[k].daemon \notin Kept}
           g == [k \in DOMAIN services |-> AllUnits(services[k].daemon)]
           s == [k \in DOMAIN services |-> IF k \in P THEN g[k] ELSE <<>>]
<1>1. modular_daemons_off(services) = FlattenSeq(s)
  <2>1. s = [k \in DOMAIN services |-> IF services[k].daemon \in Kept THEN <<>>
                                       ELSE AllUnits(services[k].daemon)]
    OBVIOUS
  <2> HIDE DEF s
  <2> QED
    BY <2>1 DEF modular_daemons_off
<1>2. \A k \in DOMAIN services : g[k] = AllUnits(services[k].daemon)
  OBVIOUS
<1>3. P \in SUBSET DOMAIN services /\ \A k \in P : g[k] \in Seq(PartsOf(services[k].daemon))
  BY <1>2, DaemonUnits
<1>4. UnitsFor(s, services, P, g)
  <2> HIDE DEF P, g
  <2> QED
    BY <1>3 DEF UnitsFor
<1>5. \A k : k \in P <=> k \in DOMAIN services /\ services[k].daemon \notin Kept
  OBVIOUS
<1> HIDE DEF P, g, s
<1>6. /\ IsSequence(FlattenSeq(s))
      /\ \A u : u \in ToSet(FlattenSeq(s)) <=> \E k \in P : u \in ToSet(g[k])
  BY <1>4, UnitsListed
<1> QED
  BY <1>1, <1>2, <1>5, <1>6

LEMMA ProxyUnits ==
  ASSUME NEW listen
  PROVE  /\ IsSequence(proxy_services) /\ ToSet(proxy_services) = {<<"proxy", "service">>}
         /\ IsSequence(libvirt_proxy_daemons(listen))
         /\ ToSet(libvirt_proxy_daemons(listen)) \subseteq ToSet(AllUnits("proxy"))
<1> DEFINE S == PartsOf("proxy")
           b == <<<<"proxy", "ro">>, <<"proxy", "admin">>>>
           c == IF "tls" \in listen THEN <<<<"proxy", "tls">>>> ELSE <<>>
           d == IF "tcp" \in listen THEN <<<<"proxy", "tcp">>>> ELSE <<>>
<1>1. /\ \A x : ToSet(<<x>>) = {x}
      /\ \A x, y : ToSet(<<x, y>>) = {x, y}
      /\ ToSet(<<>>) = {}
  BY DEF ToSet
<1>2. IsSequence(proxy_services) /\ ToSet(proxy_services) = {<<"proxy", "service">>}
  BY <1>1 DEF proxy_services, IsSequence
<1>3. \A p \in {"service", "socket", "ro", "admin", "tcp", "tls"} : <<"proxy", p>> \in S
  BY DEF PartsOf
<1> HIDE DEF S
<1>4. proxy_services \in Seq(S) /\ b \in Seq(S) /\ c \in Seq(S) /\ d \in Seq(S)
  BY <1>3 DEF proxy_services
<1>5. /\ ToSet(b) = {<<"proxy", "ro">>, <<"proxy", "admin">>}
      /\ ToSet(c) \subseteq {<<"proxy", "tls">>} /\ ToSet(d) \subseteq {<<"proxy", "tcp">>}
  BY <1>1
<1>6. libvirt_proxy_daemons(listen) = ((proxy_services \o b) \o c) \o d
  BY DEF libvirt_proxy_daemons
<1> HIDE DEF b, c, d
<1>7. proxy_services \o b \in Seq(S) /\ (proxy_services \o b) \o c \in Seq(S)
  BY <1>4
<1>8. /\ ToSet(proxy_services \o b) = ToSet(proxy_services) \cup ToSet(b)
      /\ ToSet((proxy_services \o b) \o c) = ToSet(proxy_services \o b) \cup ToSet(c)
      /\ ToSet(libvirt_proxy_daemons(listen))
           = ToSet((proxy_services \o b) \o c) \cup ToSet(d)
  <2>1. ToSet(proxy_services \o b) = ToSet(proxy_services) \cup ToSet(b)
    BY <1>4, JoinedSet
  <2> DEFINE x == proxy_services \o b
  <2> HIDE DEF x
  <2>2. x \in Seq(S) /\ x \o c \in Seq(S)
    BY <1>7 DEF x
  <2>3. ToSet(x \o c) = ToSet(x) \cup ToSet(c) /\ ToSet((x \o c) \o d) = ToSet(x \o c) \cup ToSet(d)
    BY <1>4, <2>2, JoinedSet
  <2> QED
    BY <1>6, <2>1, <2>3 DEF x
<1>9. libvirt_proxy_daemons(listen) \in Seq(S)
  BY <1>4, <1>6, <1>7
<1>10. {<<"proxy", p>> : p \in {"service", "ro", "admin", "tcp", "tls"}}
         \subseteq ToSet(AllUnits("proxy"))
  <2> DEFINE x1 == <<"proxy", "service">>
             x2 == <<"proxy", "socket">>
             x3 == <<"proxy", "ro">>
             x4 == <<"proxy", "admin">>
             x5 == <<"proxy", "tcp">>
             x6 == <<"proxy", "tls">>
  <2>1. AllUnits("proxy") = (<<x1>> \o ((<<x2>> \o <<x3>>) \o <<x4>>)) \o <<x5, x6>>
    BY DEF AllUnits, modular_socket_units
  <2> HIDE DEF x1, x2, x3, x4, x5, x6
  <2>2. /\ <<x1>> \in Seq(S) /\ <<x2>> \in Seq(S) /\ <<x3>> \in Seq(S) /\ <<x4>> \in Seq(S)
        /\ <<x5, x6>> \in Seq(S)
    BY <1>3 DEF x1, x2, x3, x4, x5, x6
  <2> DEFINE y == <<x2>> \o <<x3>>
             z == y \o <<x4>>
             w == <<x1>> \o z
  <2>3. y \in Seq(S) /\ z \in Seq(S) /\ w \in Seq(S)
    BY <2>2
  <2>4. ToSet(y) = ToSet(<<x2>>) \cup ToSet(<<x3>>)
    BY <2>2, JoinedSet
  <2> HIDE DEF y
  <2>5. ToSet(z) = ToSet(y) \cup ToSet(<<x4>>)
    BY <2>2, <2>3, JoinedSet
  <2> HIDE DEF z
  <2>7. ToSet(w) = ToSet(<<x1>>) \cup ToSet(z)
    BY <2>2, <2>3, JoinedSet
  <2>8. AllUnits("proxy") = w \o <<x5, x6>>
    BY <2>1 DEF y, z
  <2> HIDE DEF w
  <2>9. ToSet(AllUnits("proxy")) = ToSet(w) \cup ToSet(<<x5, x6>>)
    BY <2>2, <2>3, <2>8, JoinedSet
  <2>6. {x1, x3, x4, x5, x6} \subseteq ToSet(AllUnits("proxy"))
    BY <1>1, <2>4, <2>5, <2>7, <2>9
  <2> QED
    BY <2>6 DEF x1, x3, x4, x5, x6
<1>11. ToSet(libvirt_proxy_daemons(listen)) \subseteq ToSet(AllUnits("proxy"))
  BY <1>2, <1>5, <1>8, <1>10
<1> QED
  BY <1>2, <1>9, <1>11 DEF IsSequence
LEMMA NamesListed ==
  ASSUME NEW services, IsSequence(services), NEW listen
  PROVE  /\ \A u \in ToSet(modular_sockets(services)) \cup ToSet(modular_services(services)) :
              u[1] # "libvirtd"
         /\ \A u \in ToSet(modular_daemons_off(services)) : u[1] \notin Kept
         /\ \A u \in ToSet(libvirt_proxy_daemons(listen)) \cup ToSet(proxy_services) :
              u[1] = "proxy"
<1>1. \A d : \A u \in PartsOf(d) : u[1] = d
  BY DEF PartsOf
<1>2. ASSUME NEW d
      PROVE  \A u \in ToSet(modular_socket_units(d)) \cup ToSet(AllUnits(d)) : u[1] = d
  <2>1. \A x \in Seq(PartsOf(d)) : ToSet(x) \subseteq PartsOf(d)
    BY DEF ToSet
  <2> QED
    BY <1>1, <2>1, DaemonUnits
<1>3. \A u \in ToSet(modular_sockets(services)) : u[1] # "libvirtd"
  BY <1>2, SocketsListed DEF only_enabled
<1>4. \A u \in ToSet(modular_services(services)) : u[1] # "libvirtd"
  BY ServicesListed DEF only_enabled
<1>5. \A u \in ToSet(modular_daemons_off(services)) : u[1] \notin Kept
  BY <1>2, OffListed
<1>6. \A u \in ToSet(libvirt_proxy_daemons(listen)) \cup ToSet(proxy_services) : u[1] = "proxy"
  BY <1>2, ProxyUnits
<1> QED
  BY <1>3, <1>4, <1>5, <1>6

\* What the modular model enables, the monolithic one turns off: modular_daemons_off
\* lists every unit that modular_sockets and modular_services list of a daemon that
\* libvirtd does not need, and the proxy's, on whatever it listens, if there is one
\* (filter/libvirt.py:219-248, 284-295, 317-332).
THEOREM SwitchesEveryUnit ==
  ASSUME NEW services, IsSequence(services), NEW listen
  PROVE  /\ \A u \in ToSet(modular_sockets(services)) \cup ToSet(modular_services(services)) :
              u \in ToSet(modular_daemons_off(services)) \/ u[1] \in Kept
         /\ (\E k \in DOMAIN services : services[k].daemon = "proxy") =>
              ToSet(libvirt_proxy_daemons(listen)) \subseteq ToSet(modular_daemons_off(services))
<1>1. ASSUME NEW u \in ToSet(modular_sockets(services)), u[1] \notin Kept
      PROVE  u \in ToSet(modular_daemons_off(services))
  <2>1. PICK k \in DOMAIN services : u \in ToSet(modular_socket_units(services[k].daemon))
    BY SocketsListed
  <2> DEFINE d == services[k].daemon
  <2> HIDE DEF d
  <2>2. u \in ToSet(modular_socket_units(d))
    BY <2>1 DEF d
  <2>3. u \in ToSet(AllUnits(d)) /\ u[1] = d
    <3>1. \A x \in Seq(PartsOf(d)) : ToSet(x) \subseteq PartsOf(d)
      BY DEF ToSet
    <3>2. \A v \in PartsOf(d) : v[1] = d
      BY DEF PartsOf
    <3> QED
      BY <2>2, <3>1, <3>2, DaemonUnits
  <2> QED
    BY <1>1, <2>3, OffListed DEF d
<1>2. ASSUME NEW u \in ToSet(modular_services(services)), u[1] \notin Kept
      PROVE  u \in ToSet(modular_daemons_off(services))
  <2>1. PICK k \in DOMAIN services : u = <<services[k].daemon, "service">>
    BY ServicesListed
  <2>2. u \in ToSet(AllUnits(services[k].daemon)) /\ u[1] = services[k].daemon
    BY <2>1, DaemonUnits
  <2> QED
    BY <1>2, <2>2, OffListed
<1>3. ASSUME NEW k \in DOMAIN services, services[k].daemon = "proxy"
      PROVE  ToSet(AllUnits("proxy")) \subseteq ToSet(modular_daemons_off(services))
  BY <1>3, OffListed DEF Kept
<1> QED
  BY <1>1, <1>2, <1>3, ProxyUnits
=============================================================================
