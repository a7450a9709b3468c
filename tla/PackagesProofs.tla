--------------------------- MODULE PackagesProofs ---------------------------
(***************************************************************************)
(* What runs and rollbacks of the packages plugins make of the packages of *)
(* a host: proofs for any number of packages, any dependencies, manager    *)
(* and modes, and any number of runs and of faults.                        *)
(***************************************************************************)
EXTENDS Packages, TLAPS

-----------------------------------------------------------------------------
(* Sets of packages and what they depend on.                               *)
LEMMA DepsArePackages == \A q \in Pkgs : Deps[q] \subseteq Pkgs
  BY PackagesAssumption

LEMMA NeededFacts ==
    ASSUME NEW S \in SUBSET Pkgs
    PROVE  /\ S \subseteq Needed(S) /\ Needed(S) \subseteq Pkgs
           /\ Closed(Needed(S))
           /\ \A C \in SUBSET Pkgs : S \subseteq C /\ Closed(C) => Needed(S) \subseteq C
  <1>1. S \subseteq Needed(S) /\ Needed(S) \subseteq Pkgs  BY DEF Needed
  <1>2. ASSUME NEW C \in SUBSET Pkgs, S \subseteq C, Closed(C)
        PROVE  Needed(S) \subseteq C
    BY <1>2 DEF Needed
  <1>3. ASSUME NEW q \in Needed(S), NEW x \in Deps[q]
        PROVE  x \in Needed(S)
    <2>1. x \in Pkgs  BY <1>1, <1>3, DepsArePackages
    <2>2. ASSUME NEW C \in SUBSET Pkgs, S \subseteq C, Closed(C)
          PROVE  x \in C
      BY <1>2, <1>3, <2>2 DEF Closed
    <2>3. QED  BY <2>1, <2>2 DEF Needed
  <1>4. QED  BY <1>1, <1>2, <1>3 DEF Closed

LEMMA NeededGrows ==
    ASSUME NEW T \in SUBSET Pkgs, NEW S \in SUBSET T
    PROVE  Needed(S) \subseteq Needed(T)
  <1>1. T \subseteq Needed(T) /\ Closed(Needed(T)) /\ Needed(T) \in SUBSET Pkgs
    BY NeededFacts
  <1>2. QED  BY <1>1, NeededFacts

LEMMA BrokenFacts ==
    ASSUME NEW h, NEW S
    PROVE  /\ Broken(h, S) \subseteq Installed(h)
           /\ S \cap Installed(h) \subseteq Broken(h, S)
           /\ Closed(Installed(h) \ Broken(h, S))
           /\ Closed(Installed(h)) /\ S \cap Installed(h) = {} => Broken(h, S) = {}
  <1>1. Broken(h, S) \subseteq Installed(h)  BY DEF Broken
  <1>2. S \cap Installed(h) \subseteq Broken(h, S)  BY DEF Broken
  <1>3. ASSUME NEW q \in Installed(h) \ Broken(h, S)
        PROVE  Deps[q] \subseteq Installed(h) \ Broken(h, S)
    <2>1. PICK C \in SUBSET (Installed(h) \ S) : Closed(C) /\ q \in C
      BY <1>3 DEF Broken
    <2>2. \A x \in C : x \in Installed(h) /\ x \notin Broken(h, S)  BY <2>1 DEF Broken
    <2>3. QED  BY <2>1, <2>2 DEF Closed
  <1>4. ASSUME Closed(Installed(h)), S \cap Installed(h) = {}
        PROVE  Broken(h, S) = {}
    <2>1. Installed(h) \in SUBSET (Installed(h) \ S)  BY <1>4
    <2>2. QED  BY <1>4, <2>1 DEF Broken
  <1>5. QED  BY <1>1, <1>2, <1>3, <1>4 DEF Closed

-----------------------------------------------------------------------------
(* What the commands of a package manager make of a host.                  *)
Sound(h, top) == h \in Hosts /\ Closed(Installed(h)) /\ \A q \in Pkgs : h.ver[q] <= top

LEMMA WithoutFacts ==
    ASSUME NEW h \in Hosts, NEW S
    PROVE  /\ Without(h, S) \in Hosts
           /\ Installed(Without(h, S)) = Installed(h) \ S
           /\ Without(h, S).auto = h.auto \ S
           /\ \A q \in Pkgs : Without(h, S).ver[q] = IF q \in S THEN 0 ELSE h.ver[q]
  <1>1. Without(h, S).ver = [q \in Pkgs |-> IF q \in S THEN 0 ELSE h.ver[q]]
        /\ Without(h, S).auto = h.auto \ S
    BY DEF Without
  <1>2. h.ver \in [Pkgs -> 0..2] /\ h.auto \subseteq Pkgs  BY DEF Hosts
  <1>3. Without(h, S) \in Hosts  BY <1>2 DEF Without, Hosts
  <1>4. QED  BY <1>1, <1>2, <1>3 DEF Installed

LEMMA WithFacts ==
    ASSUME NEW h \in Hosts, NEW S \in SUBSET Pkgs, index \in {1, 2}
    PROVE  /\ With(h, S) \in Hosts
           /\ Installed(With(h, S)) = Installed(h) \cup Needed(S)
           /\ With(h, S).auto = (h.auto \cup (Needed(S) \ Installed(h))) \ S
           /\ \A q \in Pkgs : \/ With(h, S).ver[q] = h.ver[q]
                              \/ With(h, S).ver[q] = index /\ q \in S \cup (Needed(S) \ Installed(h))
  <1> DEFINE new == Needed(S) \ Installed(h)
             ver == [q \in Pkgs |-> IF q \in new \/ (q \in S /\ manager = "apt")
                                    THEN index ELSE h.ver[q]]
  <1>1. With(h, S).ver = ver /\ With(h, S).auto = (h.auto \cup new) \ S
        /\ With(h, S) = [ver |-> ver, auto |-> (h.auto \cup new) \ S]
    BY DEF With
  <1>2. h.ver \in [Pkgs -> 0..2] /\ h.auto \subseteq Pkgs  BY DEF Hosts
  <1>3. S \subseteq Needed(S) /\ Needed(S) \subseteq Pkgs  BY NeededFacts
  <1>4. index \in 0..2 /\ index # 0  OBVIOUS
  <1>5. ver \in [Pkgs -> 0..2]  BY <1>2, <1>4
  <1>6. With(h, S) \in Hosts  BY <1>1, <1>2, <1>3, <1>5 DEF Hosts
  <1>7. \A q \in Pkgs : ver[q] # 0 <=> q \in Installed(h) \cup Needed(S)
    BY <1>2, <1>3, <1>4 DEF Installed
  <1>8. Installed(With(h, S)) = Installed(h) \cup Needed(S)
    BY <1>1, <1>3, <1>7 DEF Installed
  <1>9. \A q \in Pkgs : \/ ver[q] = h.ver[q]
                        \/ ver[q] = index /\ q \in S \cup new
    OBVIOUS
  <1>10. QED  BY <1>1, <1>6, <1>8, <1>9

LEMMA WithSound ==
    ASSUME NEW h, Sound(h, index), NEW S \in SUBSET Pkgs, index \in {1, 2}
    PROVE  Sound(With(h, S), index)
  <1>1. Closed(Installed(h)) /\ Closed(Needed(S))  BY NeededFacts DEF Sound
  <1>2. Closed(Installed(h) \cup Needed(S))  BY <1>1 DEF Closed
  <1>3. h \in Hosts /\ \A q \in Pkgs : h.ver[q] <= index  BY DEF Sound
  <1>4. /\ With(h, S) \in Hosts /\ Installed(With(h, S)) = Installed(h) \cup Needed(S)
        /\ \A q \in Pkgs : With(h, S).ver[q] = h.ver[q] \/ With(h, S).ver[q] = index
    BY <1>3, WithFacts
  <1>5. \A q \in Pkgs : With(h, S).ver[q] <= index
    <2> DEFINE g == With(h, S)
    <2> HIDE DEF g
    <2>1. \A q \in Pkgs : g.ver[q] = h.ver[q] \/ g.ver[q] = index  BY <1>4 DEF g
    <2>2. QED  BY <1>3, <2>1 DEF g
  <1>6. QED  BY <1>2, <1>4, <1>5 DEF Sound

LEMMA WithPinFacts ==
    ASSUME NEW h, Sound(h, index), NEW q \in Pkgs, NEW v \in 1..2, v <= index, index \in {1, 2}
    PROVE  /\ Sound(WithPin(h, q, v), index)
           /\ Installed(WithPin(h, q, v)) = Installed(h) \cup Needed({q})
  <1> DEFINE g == With(h, {q})
  <1>1. /\ g \in Hosts /\ Closed(Installed(g)) /\ \A x \in Pkgs : g.ver[x] <= index
        /\ Installed(g) = Installed(h) \cup Needed({q})
    BY WithSound, WithFacts DEF Sound
  <1>2. q \in Installed(g)  BY <1>1, NeededFacts
  <1> HIDE DEF g
  <1>3. WithPin(h, q, v) = [g EXCEPT !.ver[q] = v]  BY DEF WithPin, g
  <1>4. g.ver \in [Pkgs -> 0..2] /\ g.auto \subseteq Pkgs
        /\ g = [ver |-> g.ver, auto |-> g.auto]
    BY <1>1 DEF Hosts
  <1>5. WithPin(h, q, v).ver = [g.ver EXCEPT ![q] = v] /\ WithPin(h, q, v).auto = g.auto
        /\ WithPin(h, q, v) = [ver |-> [g.ver EXCEPT ![q] = v], auto |-> g.auto]
    BY <1>3, <1>4
  <1>6. v \in 0..2 /\ v # 0  OBVIOUS
  <1>7. [g.ver EXCEPT ![q] = v] \in [Pkgs -> 0..2]  BY <1>4, <1>6
  <1>8. WithPin(h, q, v) \in Hosts  BY <1>4, <1>5, <1>7 DEF Hosts
  <1>9. \A x \in Pkgs : WithPin(h, q, v).ver[x] = IF x = q THEN v ELSE g.ver[x]
    BY <1>4, <1>5
  <1>10. Installed(WithPin(h, q, v)) = Installed(g)  BY <1>2, <1>6, <1>9 DEF Installed
  <1>11. QED  BY <1>1, <1>8, <1>9, <1>10 DEF Sound, g

LEMMA PinnedFacts ==
    ASSUME Sound(host, index), index \in {1, 2}, NEW q \in Pkgs, before[q] \in 1..2, before[q] <= index
    PROVE  /\ Sound(WithPin(host, q, before[q]), index)
           /\ Installed(WithPin(host, q, before[q])) = Installed(host) \cup Needed({q})
           /\ WithPin(host, q, before[q]).ver = [With(host, {q}).ver EXCEPT ![q] = before[q]]
  <1>1. /\ Sound(host, index) /\ index \in {1, 2} /\ q \in Pkgs
        /\ before[q] \in 1..2 /\ before[q] <= index
    OBVIOUS
  <1>2. ASSUME NEW v, v = before[q]
        PROVE  /\ Sound(WithPin(host, q, v), index)
               /\ Installed(WithPin(host, q, v)) = Installed(host) \cup Needed({q})
    <2>1. /\ Sound(host, index) /\ index \in {1, 2} /\ q \in Pkgs /\ v \in 1..2 /\ v <= index
      BY <1>1, <1>2
    <2>2. QED  BY ONLY <2>1, WithPinFacts
  <1>3. WithPin(host, q, before[q]).ver = [With(host, {q}).ver EXCEPT ![q] = before[q]]
    <2> DEFINE g == With(host, {q})
    <2>1. g = [ver |-> g.ver, auto |-> g.auto]  BY DEF With
    <2> HIDE DEF g
    <2>2. [g EXCEPT !.ver[q] = before[q]].ver = [g.ver EXCEPT ![q] = before[q]]  BY <2>1
    <2>3. QED  BY <2>2 DEF WithPin, g
  <1>4. QED  BY <1>2, <1>3, Zenon

LEMMA UpgradedFacts ==
    ASSUME NEW h, Sound(h, index), index \in {1, 2}
    PROVE  Sound(Upgraded(h), index) /\ Installed(Upgraded(h)) = Installed(h)
  <1> DEFINE ver == [q \in Pkgs |-> IF h.ver[q] = 0 THEN 0 ELSE index]
  <1>1. h.ver \in [Pkgs -> 0..2] /\ h.auto \subseteq Pkgs /\ h = [ver |-> h.ver, auto |-> h.auto]
    BY DEF Sound, Hosts
  <1>2. Upgraded(h) = [ver |-> ver, auto |-> h.auto]  BY <1>1 DEF Upgraded
  <1>3. ver \in [Pkgs -> 0..2]  BY <1>1
  <1>4. \A q \in Pkgs : ver[q] <= index /\ (ver[q] # 0 <=> h.ver[q] # 0)  BY <1>1
  <1>5. Upgraded(h).ver = ver /\ Upgraded(h) \in Hosts  BY <1>1, <1>2, <1>3 DEF Hosts
  <1>6. Installed(Upgraded(h)) = Installed(h)  BY <1>4, <1>5 DEF Installed
  <1>7. QED  BY <1>4, <1>5, <1>6 DEF Sound

(* A command that failed left each package as it was, or as it was to be.  *)
LEMMA PartlyFacts ==
    ASSUME NEW h, Sound(h, index), NEW g \in Hosts, \A q \in Pkgs : g.ver[q] <= index,
           NEW m \in Partly(h, g)
    PROVE  /\ Sound(m, index)
           /\ Installed(m) \subseteq Installed(h) \cup Installed(g)
           /\ Installed(h) \cap Installed(g) \subseteq Installed(m)
  <1>1. PICK D \in SUBSET Pkgs :
          m = [ver  |-> [q \in Pkgs |-> IF q \in D THEN g.ver[q] ELSE h.ver[q]],
               auto |-> (g.auto \cap D) \cup (h.auto \ D)]
    BY DEF Partly
  <1>2. Closed(Installed(m))  BY DEF Partly
  <1>3. /\ h.ver \in [Pkgs -> 0..2] /\ h.auto \subseteq Pkgs
        /\ g.ver \in [Pkgs -> 0..2] /\ g.auto \subseteq Pkgs
    BY DEF Sound, Hosts
  <1>4. m.ver = [q \in Pkgs |-> IF q \in D THEN g.ver[q] ELSE h.ver[q]]  BY <1>1
  <1>5. m \in Hosts  BY <1>1, <1>3 DEF Hosts
  <1>6. \A q \in Pkgs : m.ver[q] \in {h.ver[q], g.ver[q]}  BY <1>4
  <1>7. QED  BY <1>2, <1>5, <1>6 DEF Sound, Installed

(* What is purged goes, and what stays needs nothing that goes.            *)
LEMMA PurgedFacts ==
    ASSUME NEW h, Sound(h, index), NEW S \in SUBSET Pkgs
    PROVE  /\ Purged(h, S) \subseteq Installed(h)
           /\ S \cap Installed(h) \subseteq Purged(h, S)
           /\ Closed(Installed(h) \ Purged(h, S))
           /\ S \cap Installed(h) = {} => Purged(h, S) = {}
  <1> DEFINE gone  == Broken(h, S)
             loose == Unused(Without(h, gone)) \ Unused(h)
             rest  == Installed(h) \ (gone \cup loose)
             kept  == Needed(rest)
  <1>1. h \in Hosts /\ Closed(Installed(h)) /\ Installed(h) \subseteq Pkgs
    BY DEF Sound, Installed
  <1>2. /\ gone \subseteq Installed(h) /\ S \cap Installed(h) \subseteq gone
        /\ Closed(Installed(h) \ gone)
        /\ S \cap Installed(h) = {} => gone = {}
    BY <1>1, BrokenFacts
  <1>3. Installed(Without(h, gone)) = Installed(h) \ gone
        /\ Without(h, gone).auto = h.auto \ gone
    BY <1>1, WithoutFacts
  <1>4. loose \subseteq Installed(h) \ gone  BY <1>3 DEF Unused
  <1>5. gone = {} => loose = {}  BY <1>3 DEF Unused
  <1>6. rest \subseteq kept /\ Closed(kept) /\ kept \subseteq Installed(h) \ gone
    <2>1. rest \in SUBSET Pkgs /\ Installed(h) \ gone \in SUBSET Pkgs
          /\ rest \subseteq Installed(h) \ gone
      BY <1>1
    <2> HIDE DEF rest, gone
    <2>2. QED  BY <1>2, <2>1, NeededFacts
  <1>7. Purged(h, S) = IF manager = "dnf" THEN gone \cup (loose \ kept) ELSE gone
    BY DEF Purged
  <1> HIDE DEF gone, loose, kept
  <1>8. Installed(h) \ (gone \cup (loose \ kept)) = kept  BY <1>2, <1>4, <1>6
  <1>9. QED  BY <1>2, <1>4, <1>5, <1>6, <1>7, <1>8

LEMMA UnusedFacts ==
    ASSUME NEW h, Sound(h, index)
    PROVE  Unused(h) \subseteq Installed(h) /\ Closed(Installed(h) \ Unused(h))
  <1>1. Closed(Installed(h)) /\ Installed(h) \in SUBSET Pkgs  BY DEF Sound, Installed
  <1>2. Installed(h) \ h.auto \in SUBSET Pkgs /\ Installed(h) \ h.auto \subseteq Installed(h)
    BY <1>1
  <1>3. Closed(Needed(Installed(h) \ h.auto)) /\ Needed(Installed(h) \ h.auto) \subseteq Installed(h)
    BY <1>1, <1>2, NeededFacts
  <1>4. Installed(h) \ Unused(h) = Needed(Installed(h) \ h.auto)  BY <1>3 DEF Unused
  <1>5. QED  BY <1>3, <1>4 DEF Unused

LEMMA WithoutSound ==
    ASSUME NEW h, Sound(h, index), NEW S, Closed(Installed(h) \ S), index \in {1, 2}
    PROVE  Sound(Without(h, S), index)
  <1>1. h \in Hosts /\ \A q \in Pkgs : h.ver[q] <= index  BY DEF Sound
  <1>2. /\ Without(h, S) \in Hosts /\ Installed(Without(h, S)) = Installed(h) \ S
        /\ \A q \in Pkgs : Without(h, S).ver[q] \in {0, h.ver[q]}
    BY <1>1, WithoutFacts
  <1>3. \A q \in Pkgs : Without(h, S).ver[q] <= index
    <2> DEFINE g == Without(h, S)
    <2> HIDE DEF g
    <2>1. \A q \in Pkgs : g.ver[q] = h.ver[q] \/ g.ver[q] = 0  BY <1>2 DEF g
    <2>2. QED  BY <1>1, <2>1 DEF g
  <1>4. QED  BY <1>2, <1>3 DEF Sound

LEMMA UpgradedVersions ==
    ASSUME NEW h \in Hosts
    PROVE  /\ Upgraded(h).auto = h.auto
           /\ \A q \in Pkgs : Upgraded(h).ver[q] \in {h.ver[q], index}
  <1>1. h = [ver |-> h.ver, auto |-> h.auto] /\ h.ver \in [Pkgs -> 0..2]  BY DEF Hosts
  <1>2. Upgraded(h) = [ver |-> [q \in Pkgs |-> IF h.ver[q] = 0 THEN 0 ELSE index],
                       auto |-> h.auto]
    BY <1>1 DEF Upgraded
  <1>3. QED  BY <1>1, <1>2

LEMMA WithVersions ==
    ASSUME NEW h \in Hosts, NEW S \in SUBSET Pkgs, NEW q \in Installed(h),
           q \notin S \/ manager # "apt"
    PROVE  With(h, S).ver[q] = h.ver[q]
  BY DEF With, Installed

LEMMA WithoutVersions ==
    ASSUME NEW h \in Hosts, NEW S, NEW q \in Installed(Without(h, S))
    PROVE  Without(h, S).ver[q] = h.ver[q]
  <1> DEFINE g == Without(h, S)
  <1>1. g.ver = [x \in Pkgs |-> IF x \in S THEN 0 ELSE h.ver[x]]  BY DEF Without
  <1> HIDE DEF g
  <1>2. q \in Pkgs /\ g.ver[q] # 0  BY DEF Installed, g
  <1>3. QED  BY <1>1, <1>2 DEF g

-----------------------------------------------------------------------------
(* What the steps of a run and of a rollback make of the host.             *)
Typed ==
    /\ spec \in Specs /\ index \in {1, 2} /\ faults \in Nat
    /\ Sound(host, index)
    /\ before \in [Targets -> 0..2]
    /\ todo \in 0..Len(Names)
    /\ pc = "removing" => todo # 0

LEMMA SpecFacts ==
    ASSUME Typed
    PROVE  /\ spec.install \in SUBSET Pkgs /\ spec.purge \in SUBSET Pkgs /\ spec.also \in SUBSET Pkgs
           /\ spec.install \cap Declared = {}
           /\ Targets \in SUBSET Pkgs
  BY DEF Typed, Specs, Declared, Targets

LEMMA NamesFacts ==
    /\ Len(Names) \in Nat
    /\ \A k \in 1..Len(Names) : Names[k] \in Pkgs
    /\ \A q \in Pkgs : \E k \in 1..Len(Names) : Names[k] = q
  <1>1. Names \in Seq(Pkgs)  BY PackagesAssumption
  <1>2. DOMAIN Names = 1..Len(Names)  BY <1>1
  <1>3. QED  BY <1>1, <1>2 DEF Pkgs

LEMMA RunFacts ==
    ASSUME Sound(host, index), NEW g, Sound(g, index), NEW next, Run(g, next)
    PROVE  /\ Sound(host', index)
           /\ Installed(host') \subseteq Installed(host) \cup Installed(g)
           /\ Installed(host) \cap Installed(g) \subseteq Installed(host')
           /\ \/ host' = g /\ pc' = next /\ faults' = faults
              \/ pc' = "failed" /\ Fault("command")
  <1>1. CASE host' = g /\ pc' = next /\ faults' = faults
    BY <1>1
  <1>2. CASE Fault("command") /\ host' \in Partly(host, g) /\ pc' = "failed"
    <2>1. g \in Hosts /\ \A q \in Pkgs : g.ver[q] <= index  BY DEF Sound
    <2>2. QED  BY <1>2, <2>1, PartlyFacts
  <1>3. QED  BY <1>1, <1>2 DEF Run

(* A rollback that brings a package back takes none away.                  *)
LEMMA RestoreFacts ==
    ASSUME Typed, RestoreObject
    PROVE  /\ Sound(host', index)
           /\ Installed(host) \subseteq Installed(host')
           /\ \/ host' = host
              \/ /\ Names[todo] \in Declared /\ before[Names[todo]] # 0
                 /\ Installed(host') \subseteq Installed(host) \cup Needed({Names[todo]})
           /\ todo \in 1..Len(Names) /\ todo' \in {todo - 1, todo}
           /\ pc' \in {"undo", "stuck", "removing"}
  <1> DEFINE q == Names[todo]
             plain == With(host, {q})
  <1>1. pc = "undo" /\ todo \in 1..Len(Names) /\ q \in Pkgs
    BY NamesFacts DEF RestoreObject, Typed
  <1>2. host \in Hosts /\ index \in {1, 2}  BY DEF Typed, Sound
  <1>3. /\ Sound(plain, index) /\ plain \in Hosts /\ \A x \in Pkgs : plain.ver[x] <= index
        /\ Installed(plain) = Installed(host) \cup Needed({q})
    <2>1. Sound(plain, index)  BY <1>1, <1>2, WithSound DEF Typed
    <2>2. Installed(plain) = Installed(host) \cup Needed({q})  BY <1>1, <1>2, WithFacts
    <2>3. QED  BY <2>1, <2>2 DEF Sound
  <1>4. CASE q \in spec.install /\ before[q] = 0
    <2>1. RestoreAbsent(q)  BY <1>4 DEF RestoreObject
    <2>2. QED  BY <1>1, <2>1 DEF RestoreAbsent, GiveUp, Typed
  <1>5. CASE q \in Declared /\ before[q] # 0 /\ ~(q \in spec.install /\ before[q] = 0)
    <2>1. RestorePresent(q)  BY <1>5 DEF RestoreObject
    <2>2. before[q] \in 1..2
      <3>1. q \in Targets  BY <1>5 DEF Targets
      <3>2. QED  BY <1>5, <3>1 DEF Typed
    <2>3. CASE /\ host' = IF PinWorks(q, before[q]) THEN WithPin(host, q, before[q]) ELSE plain
               /\ Settled /\ UNCHANGED faults
      <3>1. ASSUME PinWorks(q, before[q])
            PROVE  /\ Sound(WithPin(host, q, before[q]), index)
                   /\ Installed(WithPin(host, q, before[q])) = Installed(host) \cup Needed({q})
        <4>1. /\ Sound(host, index) /\ q \in Pkgs /\ before[q] \in 1..2 /\ before[q] <= index
              /\ index \in {1, 2}
          BY <1>1, <1>2, <2>2, <3>1 DEF PinWorks, Typed
        <4> HIDE DEF q
        <4>2. QED  BY <4>1, PinnedFacts
      <3>2. Sound(host', index) /\ Installed(host') = Installed(host) \cup Needed({q})
        BY <1>3, <2>3, <3>1
      <3>3. QED  BY <1>1, <1>5, <2>3, <3>2 DEF Settled
    <2>4. CASE Fault("command") /\ host' = plain /\ Settled
      BY <1>1, <1>3, <1>5, <2>4 DEF Settled
    <2>5. CASE Fault("command") /\ host' \in Partly(host, plain) /\ GiveUp(q)
      <3>1. /\ Sound(host', index) /\ Installed(host') \subseteq Installed(host) \cup Installed(plain)
            /\ Installed(host) \cap Installed(plain) \subseteq Installed(host')
        <4>1. Sound(host, index) /\ plain \in Hosts /\ (\A x \in Pkgs : plain.ver[x] <= index)
              /\ host' \in Partly(host, plain)
          BY <1>3, <2>5 DEF Typed
        <4> HIDE DEF plain
        <4>2. QED  BY <4>1, PartlyFacts
      <3>2. todo' \in {todo - 1, todo} /\ pc' \in {"undo", "stuck"}  BY <2>5 DEF GiveUp
      <3>3. QED  BY <1>1, <1>3, <1>5, <3>1, <3>2
    <2>6. QED  BY <2>1, <2>3, <2>4, <2>5 DEF RestorePresent
  <1>6. CASE ~(q \in Declared /\ before[q] # 0) /\ ~(q \in spec.install /\ before[q] = 0)
    <2>1. Settled /\ UNCHANGED <<host, faults>>  BY <1>6 DEF RestoreObject
    <2>2. QED  BY <1>1, <2>1 DEF Settled, Typed
  <1>7. QED  BY <1>4, <1>5, <1>6

(* A rollback that removes a package takes what is broken without it.      *)
LEMMA RemoveFacts ==
    ASSUME Typed, RemoveObject
    PROVE  /\ Sound(host', index)
           /\ Installed(host') \subseteq Installed(host)
           /\ Installed(host) \ Installed(host') \subseteq Broken(host, {Names[todo]})
           /\ todo \in 1..Len(Names) /\ todo' \in {todo - 1, todo}
           /\ pc' \in {"undo", "stuck"}
           /\ \/ Settled /\ faults' = faults /\ Names[todo] \notin Installed(host')
              \/ Fault("command") /\ GiveUp(Names[todo])
  <1> DEFINE q == Names[todo]
             gone == Broken(host, {q})
             removed == Without(host, gone)
  <1>1. pc = "removing" /\ todo \in 1..Len(Names) /\ q \in Pkgs
    BY NamesFacts DEF RemoveObject, Typed
  <1>2. host \in Hosts /\ index \in {1, 2}  BY DEF Typed, Sound
  <1>3. /\ gone \subseteq Installed(host) /\ {q} \cap Installed(host) \subseteq gone
        /\ Closed(Installed(host) \ gone)
    BY BrokenFacts
  <1>4. Installed(removed) = Installed(host) \ gone /\ removed \in Hosts  BY <1>2, WithoutFacts
  <1>5. Sound(removed, index)  BY <1>2, <1>3, WithoutSound DEF Typed
  <1>6. \/ host' = removed /\ Settled /\ UNCHANGED faults
        \/ Fault("command") /\ host' \in Partly(host, removed) /\ GiveUp(q)
    BY DEF RemoveObject
  <1> HIDE DEF gone, removed
  <1>7. CASE host' = removed /\ Settled /\ UNCHANGED faults
    <2>1. Sound(host', index) /\ Installed(host') = Installed(host) \ gone  BY <1>4, <1>5, <1>7
    <2>2. q \notin Installed(host')  BY <1>3, <2>1
    <2>3. QED  BY <1>1, <1>3, <1>7, <2>1, <2>2 DEF Settled, gone
  <1>8. CASE Fault("command") /\ host' \in Partly(host, removed) /\ GiveUp(q)
    <2>1. removed \in Hosts /\ \A x \in Pkgs : removed.ver[x] <= index  BY <1>5 DEF Sound
    <2>2. /\ Sound(host', index) /\ Installed(host') \subseteq Installed(host) \cup Installed(removed)
          /\ Installed(host) \cap Installed(removed) \subseteq Installed(host')
      BY <1>8, <2>1, PartlyFacts DEF Typed
    <2>3. todo' \in {todo - 1, todo} /\ pc' \in {"undo", "stuck"}  BY <1>8 DEF GiveUp
    <2>4. QED  BY <1>1, <1>3, <1>4, <1>8, <2>2, <2>3 DEF gone
  <1>9. QED  BY <1>6, <1>7, <1>8

(* What each command of a run makes of the host.                           *)
LEMMA UpdateFacts ==
    ASSUME Typed, Update
    PROVE  /\ Sound(host', index') /\ index' \in {1, 2} /\ index <= index'
           /\ Installed(host') = Installed(host)
           /\ pc' \in {"upgrade", "failed"} /\ faults' \in Nat /\ faults <= faults'
           /\ faults' = faults => host' = host
  <1>1. Sound(host, index) /\ index \in {1, 2} /\ faults \in Nat  BY DEF Typed
  <1>2. index' \in {index, 2}  BY DEF Update
  <1>3. index' \in {1, 2} /\ index <= index'  BY <1>1, <1>2
  <1>4. CASE ShouldRun("update", would)
    <2>1. Run(host, "upgrade")  BY <1>4 DEF Update
    <2>2. /\ Sound(host', index) /\ Installed(host') = Installed(host)
          /\ \/ host' = host /\ pc' = "upgrade" /\ faults' = faults
             \/ pc' = "failed" /\ Fault("command")
      BY <1>1, <2>1, RunFacts
    <2>3. Sound(host', index')  BY <1>1, <1>3, <2>2 DEF Sound, Hosts
    <2>4. QED  BY <1>1, <1>3, <2>2, <2>3 DEF Fault
  <1>5. CASE ~ShouldRun("update", would)
    <2>1. Skip("upgrade") /\ index' = index  BY <1>5 DEF Update
    <2>2. QED  BY <1>1, <2>1 DEF Skip
  <1>6. QED  BY <1>4, <1>5

LEMMA UpgradeFacts ==
    ASSUME Typed, Upgrade
    PROVE  /\ Sound(host', index) /\ Installed(host') = Installed(host)
           /\ pc' \in {"install", "failed"} /\ faults' \in Nat /\ faults <= faults'
           /\ (faults' = faults /\ (ShouldRun("upgrade", would) => Upgraded(host) = host))
                => host' = host
  <1>1. Sound(host, index) /\ index \in {1, 2} /\ faults \in Nat  BY DEF Typed
  <1>2. CASE ShouldRun("upgrade", would)
    <2> DEFINE g == Upgraded(host)
    <2>1. Run(g, "install")  BY <1>2 DEF Upgrade
    <2>2. Sound(g, index) /\ Installed(g) = Installed(host)  BY <1>1, UpgradedFacts
    <2> HIDE DEF g
    <2>3. /\ Sound(host', index) /\ Installed(host') = Installed(host)
          /\ \/ host' = g /\ pc' = "install" /\ faults' = faults
             \/ pc' = "failed" /\ Fault("command")
      BY <1>1, <2>1, <2>2, RunFacts
    <2>4. QED  BY <1>1, <1>2, <2>3 DEF Fault, g
  <1>3. CASE ~ShouldRun("upgrade", would)
    <2>1. Skip("install")  BY <1>3 DEF Upgrade
    <2>2. QED  BY <1>1, <2>1 DEF Skip
  <1>4. QED  BY <1>2, <1>3

LEMMA InstallFacts ==
    ASSUME Typed, Install
    PROVE  /\ Sound(host', index)
           /\ Installed(host) \subseteq Installed(host')
           /\ Installed(host') \subseteq Installed(host) \cup Needed(spec.install)
           /\ pc' \in {"purge", "failed"} /\ faults' \in Nat /\ faults <= faults'
           /\ pc' = "purge" => spec.install \subseteq Installed(host')
           /\ faults' = faults =>
                \/ host' = host
                \/ host' = With(host, spec.install)
  <1>1. Sound(host, index) /\ index \in {1, 2} /\ faults \in Nat /\ host \in Hosts
    BY DEF Typed, Sound
  <1>2. spec.install \in SUBSET Pkgs  BY SpecFacts
  <1>3. spec.install \subseteq Needed(spec.install)  BY <1>2, NeededFacts
  <1>4. CASE spec.install # {}
    <2> DEFINE g == With(host, spec.install)
    <2>1. Run(g, "purge")  BY <1>4 DEF Install
    <2>2. Sound(g, index) /\ Installed(g) = Installed(host) \cup Needed(spec.install)
      BY <1>1, <1>2, WithSound, WithFacts
    <2> HIDE DEF g
    <2>3. /\ Sound(host', index)
          /\ Installed(host') \subseteq Installed(host) \cup Installed(g)
          /\ Installed(host) \cap Installed(g) \subseteq Installed(host')
          /\ \/ host' = g /\ pc' = "purge" /\ faults' = faults
             \/ pc' = "failed" /\ Fault("command")
      BY <1>1, <2>1, <2>2, RunFacts
    <2>4. pc' \in {"purge", "failed"} /\ faults' \in Nat /\ faults <= faults'
          /\ (faults' = faults => host' = g)
      BY <1>1, <2>3 DEF Fault
    <2>5. pc' = "purge" => spec.install \subseteq Installed(host')  BY <1>3, <2>2, <2>3
    <2>6. QED  BY <2>2, <2>3, <2>4, <2>5 DEF g
  <1>5. CASE spec.install = {}
    <2>1. Skip("purge")  BY <1>5 DEF Install
    <2>2. QED  BY <1>1, <1>5, <2>1 DEF Skip
  <1>6. QED  BY <1>4, <1>5

(* A removal of a set that what stays does not need.                       *)
LEMMA TakeFacts ==
    ASSUME Typed, NEW S, S \subseteq Installed(host), Closed(Installed(host) \ S), NEW next,
           Run(Without(host, S), next), next # "failed"
    PROVE  /\ Sound(host', index)
           /\ Installed(host') \subseteq Installed(host)
           /\ Installed(host) \ Installed(host') \subseteq S
           /\ pc' \in {next, "failed"} /\ faults' \in Nat /\ faults <= faults'
           /\ pc' = next => Installed(host') = Installed(host) \ S
           /\ (faults' = faults /\ S = {}) =>
                host'.auto = host.auto /\ \A q \in Pkgs : host'.ver[q] = host.ver[q]
  <1>1. Sound(host, index) /\ index \in {1, 2} /\ faults \in Nat /\ host \in Hosts
    BY DEF Typed, Sound
  <1> DEFINE g == Without(host, S)
  <1>2. Sound(g, index)  BY <1>1, WithoutSound
  <1>3. /\ Installed(g) = Installed(host) \ S
        /\ S = {} => g.auto = host.auto /\ \A q \in Pkgs : g.ver[q] = host.ver[q]
    <2> HIDE DEF g
    <2>1. /\ Installed(g) = Installed(host) \ S /\ g.auto = host.auto \ S
          /\ \A q \in Pkgs : g.ver[q] = IF q \in S THEN 0 ELSE host.ver[q]
      BY <1>1, WithoutFacts DEF g
    <2>2. S = {} => host.auto \ S = host.auto  OBVIOUS
    <2>3. QED  BY <2>1, <2>2
  <1>4. Run(g, next)  OBVIOUS
  <1> HIDE DEF g
  <1>5. /\ Sound(host', index)
        /\ Installed(host') \subseteq Installed(host) \cup Installed(g)
        /\ Installed(host) \cap Installed(g) \subseteq Installed(host')
        /\ \/ host' = g /\ pc' = next /\ faults' = faults
           \/ pc' = "failed" /\ Fault("command")
    BY <1>1, <1>2, <1>4, RunFacts
  <1>6. pc' \in {next, "failed"} /\ faults' \in Nat /\ faults <= faults'
        /\ (faults' = faults => host' = g) /\ (pc' = next => host' = g)
    BY <1>1, <1>5 DEF Fault
  <1>7. QED  BY <1>3, <1>5, <1>6

LEMMA PurgeFacts ==
    ASSUME Typed, Purge
    PROVE  /\ Sound(host', index)
           /\ Installed(host') \subseteq Installed(host)
           /\ Installed(host) \ Installed(host') \subseteq Purged(host, spec.purge)
           /\ pc' \in {"autoremove", "failed"} /\ faults' \in Nat /\ faults <= faults'
           /\ pc' = "autoremove" => spec.purge \cap Installed(host') = {}
           /\ (faults' = faults /\ Purged(host, spec.purge) = {}) =>
                host'.auto = host.auto /\ \A q \in Pkgs : host'.ver[q] = host.ver[q]
  <1>1. Sound(host, index) /\ spec.purge \in SUBSET Pkgs  BY SpecFacts DEF Typed
  <1> DEFINE S == Purged(host, spec.purge)
  <1>2. S \subseteq Installed(host) /\ spec.purge \cap Installed(host) \subseteq S
        /\ Closed(Installed(host) \ S)
    BY <1>1, PurgedFacts
  <1>3. Run(Without(host, S), "autoremove")  BY DEF Purge
  <1> HIDE DEF S
  <1>4. /\ Sound(host', index)
        /\ Installed(host') \subseteq Installed(host)
        /\ Installed(host) \ Installed(host') \subseteq S
        /\ pc' \in {"autoremove", "failed"} /\ faults' \in Nat /\ faults <= faults'
        /\ pc' = "autoremove" => Installed(host') = Installed(host) \ S
        /\ (faults' = faults /\ S = {}) =>
             host'.auto = host.auto /\ \A q \in Pkgs : host'.ver[q] = host.ver[q]
    BY <1>2, <1>3, TakeFacts
  <1>5. pc' = "autoremove" => spec.purge \cap Installed(host') = {}  BY <1>2, <1>4
  <1>6. QED  BY <1>4, <1>5 DEF S

LEMMA AutoremoveFacts ==
    ASSUME Typed, Autoremove
    PROVE  /\ Sound(host', index)
           /\ Installed(host') \subseteq Installed(host)
           /\ Installed(host) \ Installed(host') \subseteq Unused(host)
           /\ pc' \in {"recapture", "failed"} /\ faults' \in Nat /\ faults <= faults'
           /\ (faults' = faults /\ Unused(host) = {}) =>
                host'.auto = host.auto /\ \A q \in Pkgs : host'.ver[q] = host.ver[q]
  <1>1. Sound(host, index)  BY DEF Typed
  <1> DEFINE S == Unused(host)
  <1>2. S \subseteq Installed(host) /\ Closed(Installed(host) \ S)  BY <1>1, UnusedFacts
  <1>3. Run(Without(host, S), "recapture")  BY DEF Autoremove
  <1> HIDE DEF S
  <1>4. QED  BY <1>2, <1>3, TakeFacts DEF S

-----------------------------------------------------------------------------
(* The host is always closed under dependencies, and the captures tell of   *)
(* the host that the step found.                                           *)
Running == {"lock", "update", "upgrade", "install", "purge", "purging", "autoremove",
            "autoremoving", "recapture"}

CaptureInv ==
    /\ Sound(found, index)
    /\ before = [p \in Targets |-> found.ver[p]]
    /\ pc \in Running \cup {"failed"} => after = None
    /\ (pc = "done" /\ disturbed = "no") => after = Query

LEMMA QueryFacts ==
    ASSUME NEW h, Sound(h, index), spec \in Specs
    PROVE  [p \in Targets |-> h.ver[p]] \in [Targets -> 0..2]
  <1>1. Targets \subseteq Pkgs  BY DEF Specs, Targets, Declared
  <1>2. h.ver \in [Pkgs -> 0..2]  BY DEF Sound, Hosts
  <1>3. QED  BY <1>1, <1>2

LEMMA TypedInit == Init => Typed /\ CaptureInv
  <1> SUFFICES ASSUME Init PROVE Typed /\ CaptureInv  OBVIOUS
  <1>1. /\ host \in Hosts /\ Closed(Installed(host)) /\ (\A q \in Pkgs : host.ver[q] < 2)
        /\ spec \in Specs /\ index \in {1, 2}
    BY DEF Init
  <1>2. \A q \in Pkgs : host.ver[q] \in 0..2  BY <1>1 DEF Hosts
  <1>3. Sound(host, index)  BY <1>1, <1>2 DEF Sound
  <1>4. Query \in [Targets -> 0..2]
    <2>1. Sound(host, index) /\ spec \in Specs  BY <1>1, <1>3
    <2>2. QED  BY <2>1, QueryFacts DEF Query
  <1>5. pc = "ready" /\ before = Query /\ found = host /\ todo = 0 /\ faults = 0
    BY DEF Init
  <1>6. Typed
    <2>1. todo \in 0..Len(Names) /\ pc # "removing" /\ faults \in Nat  BY <1>5, NamesFacts
    <2>2. spec \in Specs /\ index \in {1, 2}  BY <1>1
    <2>3. before \in [Targets -> 0..2]  BY <1>4, <1>5
    <2>4. QED  BY <1>3, <2>1, <2>2, <2>3 DEF Typed
  <1>7. before = [p \in Targets |-> found.ver[p]]  BY <1>5 DEF Query
  <1>8. CaptureInv  BY <1>3, <1>5, <1>7 DEF CaptureInv, Running
  <1>9. QED  BY <1>6, <1>8

LEMMA EditFacts ==
    ASSUME Typed, Edit
    PROVE  Sound(host', index) /\ faults' \in Nat /\ disturbed' # "no"
  <1>1. Sound(host, index) /\ index \in {1, 2} /\ faults \in Nat /\ host \in Hosts
    BY DEF Typed, Sound
  <1>2. PICK q \in Pkgs : host' \in {With(host, {q}), Without(host, Broken(host, {q}))}
    BY DEF Edit
  <1>3. Sound(With(host, {q}), index)  BY <1>1, WithSound
  <1>4. Sound(Without(host, Broken(host, {q})), index)
    <2>1. Closed(Installed(host) \ Broken(host, {q}))  BY BrokenFacts
    <2>2. QED  BY <1>1, <2>1, WithoutSound
  <1>5. faults' \in Nat /\ disturbed' # "no"  BY <1>1 DEF Edit, Fault
  <1>6. QED  BY <1>2, <1>3, <1>4, <1>5

(* Every step leaves a sound host, and an index that is no older.          *)
LEMMA HostStep ==
    ASSUME Typed, [Next]_vars
    PROVE  /\ Sound(host', index') /\ index' \in {1, 2} /\ index <= index'
           /\ faults' \in Nat /\ faults <= faults' /\ spec' = spec
  <1>1. /\ Sound(host, index) /\ index \in {1, 2} /\ faults \in Nat /\ index <= index
        /\ faults <= faults
    BY DEF Typed
  <1>2. spec' = spec
    BY DEF Next, step, vars, Capture, CheckLock, Update, Upgrade, Install, PreviewPurge, Purge,
           PreviewAutoremove, Autoremove, Recapture, Rollback, RestoreObject, RemoveObject,
           Undone, StartOver, Elapse, Edit
  <1>3. CASE Update \/ Upgrade \/ Install \/ Purge \/ Autoremove
    <2>1. ~Update => index' = index
      BY <1>3 DEF Upgrade, Install, Purge, Autoremove
    <2>2. QED
      BY <1>1, <1>2, <1>3, <2>1, UpdateFacts, UpgradeFacts, InstallFacts, PurgeFacts,
         AutoremoveFacts
  <1>4. CASE RestoreObject
    <2>1. Sound(host', index) /\ index' = index  BY <1>4, RestoreFacts DEF RestoreObject
    <2>2. faults' \in Nat /\ faults <= faults'
      <3> DEFINE q == Names[todo]
      <3>1. \/ RestoreAbsent(q) \/ RestorePresent(q) \/ UNCHANGED faults
        BY <1>4 DEF RestoreObject
      <3>2. QED  BY <1>1, <3>1 DEF RestoreAbsent, RestorePresent, Fault
    <2>3. QED  BY <1>1, <1>2, <2>1, <2>2
  <1>5. CASE RemoveObject
    <2>1. Sound(host', index) /\ index' = index  BY <1>5, RemoveFacts DEF RemoveObject
    <2>2. faults' \in Nat /\ faults <= faults'  BY <1>1, <1>5 DEF RemoveObject, Fault
    <2>3. QED  BY <1>1, <1>2, <2>1, <2>2
  <1>6. CASE Edit
    <2>1. index' = index /\ faults <= faults'  BY <1>1, <1>6 DEF Edit, Fault
    <2>2. QED  BY <1>1, <1>2, <1>6, <2>1, EditFacts
  <1>7. CASE \/ Capture \/ CheckLock \/ PreviewPurge \/ PreviewAutoremove \/ Recapture
             \/ Rollback \/ Undone \/ StartOver \/ Elapse \/ UNCHANGED vars
    <2>1. host' = host /\ index' = index
      BY <1>7 DEF Capture, CheckLock, PreviewPurge, PreviewAutoremove, Recapture, Rollback,
                  Undone, StartOver, Elapse, vars
    <2>2. faults' \in {faults, faults + 1}
      BY <1>7 DEF Capture, CheckLock, PreviewPurge, PreviewAutoremove, Recapture, Rollback,
                  Undone, StartOver, Elapse, Fault, vars
    <2>3. QED  BY <1>1, <1>2, <2>1, <2>2
  <1>8. QED  BY <1>3, <1>4, <1>5, <1>6, <1>7 DEF Next

(* Each step takes the captures anew, of the host, or keeps them.          *)
LEMMA CaptureStep ==
    ASSUME Typed, [Next]_vars
    PROVE  \/ /\ Capture \/ StartOver
              /\ before' = Query /\ found' = host /\ disturbed' = "no"
              /\ after' = None /\ host' = host /\ index' = index
           \/ /\ ~Capture /\ ~StartOver
              /\ before' = before /\ found' = found /\ (disturbed' = disturbed \/ Edit)
              /\ planned' = planned
              /\ after' = after \/ Recapture
  BY DEF Next, vars, Capture, CheckLock, Update, Upgrade, Install, PreviewPurge, Purge,
         PreviewAutoremove, Autoremove, Recapture, Rollback, RestoreObject, RemoveObject,
         Undone, StartOver, Elapse, Edit

LEMMA TodoStep ==
    ASSUME Typed, [Next]_vars
    PROVE  todo' \in 0..Len(Names) /\ (pc' = "removing" => todo' # 0)
  <1>1. Len(Names) \in Nat /\ todo \in 0..Len(Names)  BY NamesFacts DEF Typed
  <1>2. CASE RestoreObject
    <2>1. todo \in 1..Len(Names) /\ todo' \in {todo - 1, todo}  BY <1>2, RestoreFacts
    <2>2. pc' = "removing" => todo' = todo
      <3> DEFINE q == Names[todo]
      <3>1. \/ RestoreAbsent(q) \/ RestorePresent(q) \/ Settled
        BY <1>2 DEF RestoreObject
      <3>2. QED  BY <3>1 DEF RestoreAbsent, RestorePresent, GiveUp, Settled
    <2>3. QED  BY <1>1, <2>1, <2>2
  <1>3. CASE RemoveObject
    BY <1>1, <1>3, RemoveFacts
  <1>4. CASE Update \/ Upgrade \/ Install \/ Purge \/ Autoremove
    <2>1. todo' = todo  BY <1>4 DEF Update, Upgrade, Install, Purge, Autoremove
    <2>2. pc' # "removing"
      BY <1>4, UpdateFacts, UpgradeFacts, InstallFacts, PurgeFacts, AutoremoveFacts
    <2>3. QED  BY <1>1, <2>1, <2>2
  <1>5. CASE \/ Capture \/ CheckLock \/ PreviewPurge \/ PreviewAutoremove \/ Recapture
             \/ Rollback \/ Undone \/ StartOver
    <2>1. pc' # "removing"
      BY <1>5 DEF Capture, CheckLock, PreviewPurge, PreviewAutoremove, Recapture, Rollback,
                  Undone, StartOver
    <2>2. todo' \in {todo, 0, Len(Names)}
      BY <1>5 DEF Capture, CheckLock, PreviewPurge, PreviewAutoremove, Recapture, Rollback,
                  Undone, StartOver
    <2>3. QED  BY <1>1, <2>1, <2>2
  <1>6. CASE Elapse \/ Edit \/ UNCHANGED vars
    <2>1. todo' = todo /\ pc' = pc  BY <1>6 DEF Elapse, Edit, vars
    <2>2. QED  BY <1>1, <2>1 DEF Typed
  <1>7. QED  BY <1>2, <1>3, <1>4, <1>5, <1>6 DEF Next

LEMMA TypedStep == Typed /\ [Next]_vars => Typed'
  <1> SUFFICES ASSUME Typed, [Next]_vars PROVE Typed'  OBVIOUS
  <1>1. /\ Sound(host', index') /\ index' \in {1, 2} /\ index <= index'
        /\ faults' \in Nat /\ spec' = spec
    BY HostStep
  <1>2. todo' \in 0..Len(Names) /\ (pc' = "removing" => todo' # 0)  BY TodoStep
  <1>3. Targets' = Targets  BY <1>1 DEF Targets, Declared
  <1>4. before' \in [Targets -> 0..2]
    <2>1. Query \in [Targets -> 0..2]  BY QueryFacts DEF Typed, Query
    <2>2. QED  BY <2>1, CaptureStep DEF Typed
  <1>5. QED  BY <1>1, <1>2, <1>3, <1>4 DEF Typed, Sound

LEMMA CaptureInvStep == Typed /\ CaptureInv /\ [Next]_vars => CaptureInv'
  <1> SUFFICES ASSUME Typed, CaptureInv, [Next]_vars PROVE CaptureInv'  OBVIOUS
  <1>1. /\ Sound(host', index') /\ index' \in {1, 2} /\ index <= index' /\ spec' = spec
        /\ Sound(host, index) /\ index \in {1, 2}
    BY HostStep DEF Typed
  <1>2. Targets' = Targets  BY <1>1 DEF Targets, Declared
  <1>3. Sound(found', index')
    <2>1. Sound(found, index)  BY DEF CaptureInv
    <2>2. found' \in {found, host}  BY CaptureStep
    <2>3. Sound(found', index)  BY <1>1, <2>1, <2>2
    <2>4. found' \in Hosts /\ Closed(Installed(found')) /\ \A q \in Pkgs : found'.ver[q] <= index
      BY <2>3 DEF Sound
    <2>5. \A q \in Pkgs : found'.ver[q] \in 0..2  BY <2>4 DEF Hosts
    <2>6. \A q \in Pkgs : found'.ver[q] <= index'  BY <1>1, <2>4, <2>5
    <2>7. QED  BY <2>4, <2>6 DEF Sound
  <1>4. before' = [p \in Targets |-> found'.ver[p]]
    BY CaptureStep DEF CaptureInv, Query
  <1>5. pc' \in Running \cup {"failed"} => after' = None
    <2>1. CASE Capture \/ StartOver
      BY <2>1 DEF Capture, StartOver
    <2>2. CASE Recapture
      BY <2>2 DEF Recapture, CaptureInv, Running
    <2>3. CASE \/ CheckLock \/ PreviewPurge \/ Purge \/ PreviewAutoremove \/ Autoremove
               \/ Update \/ Upgrade \/ Install
      <3>1. pc \in Running /\ after' = after
        BY <2>3 DEF CheckLock, PreviewPurge, Purge, PreviewAutoremove, Autoremove, Update,
                    Upgrade, Install, Running
      <3>2. QED  BY <3>1 DEF CaptureInv
    <2>4. CASE Rollback \/ Undone \/ RestoreObject \/ RemoveObject
      <3>1. pc' \in {"undo", "undone", "stuck", "removing"}
        BY <2>4, RestoreFacts, RemoveFacts DEF Rollback, Undone
      <3>2. QED  BY <3>1 DEF Running
    <2>5. CASE Elapse \/ Edit \/ UNCHANGED vars
      <3>1. pc' = pc /\ after' = after  BY <2>5 DEF Elapse, Edit, vars
      <3>2. QED  BY <3>1 DEF CaptureInv
    <2>6. QED  BY <2>1, <2>2, <2>3, <2>4, <2>5 DEF Next
  <1>6. (pc' = "done" /\ disturbed' = "no") => after' = Query'
    <2>1. CASE Recapture
      <3>1. pc' = "done" => after' = Query  BY <2>1 DEF Recapture
      <3>2. host' = host  BY <2>1 DEF Recapture
      <3>3. QED  BY <1>2, <3>1, <3>2 DEF Query
    <2>2. CASE Elapse \/ UNCHANGED vars
      <3>1. pc' = pc /\ after' = after /\ host' = host /\ disturbed' = disturbed
        BY <2>2 DEF Elapse, vars
      <3>2. QED  BY <1>2, <3>1 DEF CaptureInv, Query
    <2>3. CASE Edit
      BY <2>3, EditFacts
    <2>4. CASE ~(Recapture \/ Elapse \/ Edit \/ UNCHANGED vars)
      <3>1. CASE Update \/ Upgrade \/ Install \/ Purge \/ Autoremove
        BY <3>1, UpdateFacts, UpgradeFacts, InstallFacts, PurgeFacts, AutoremoveFacts
      <3>2. CASE RestoreObject \/ RemoveObject
        BY <3>2, RestoreFacts, RemoveFacts
      <3>3. CASE \/ Capture \/ CheckLock \/ PreviewPurge \/ PreviewAutoremove
                 \/ Rollback \/ Undone \/ StartOver
        BY <3>3 DEF Capture, CheckLock, PreviewPurge, PreviewAutoremove, Rollback, Undone,
                    StartOver
      <3>4. QED  BY <2>4, <3>1, <3>2, <3>3 DEF Next
    <2>5. QED  BY <2>1, <2>2, <2>3, <2>4
  <1>7. QED  BY <1>2, <1>3, <1>4, <1>5, <1>6 DEF CaptureInv

-----------------------------------------------------------------------------
(* What is to be removed has been looked at, unless somebody was faster.    *)
GuardInv ==
    disturbed # "raced" =>
        /\ pc = "purging" => Allowed(Purged(host, spec.purge))
        /\ pc = "autoremoving" => Allowed(Unused(host))
        /\ pc = "removing" => Broken(host, {Names[todo]}) \subseteq {Names[todo]}

LEMMA GuardInvStep == Typed /\ GuardInv /\ [Next]_vars => GuardInv'
  <1> SUFFICES ASSUME Typed, GuardInv, [Next]_vars, disturbed' # "raced"
               PROVE  /\ pc' = "purging" => Allowed(Purged(host, spec.purge))'
                      /\ pc' = "autoremoving" => Allowed(Unused(host))'
                      /\ pc' = "removing" => (Broken(host, {Names[todo]}) \subseteq {Names[todo]})'
    BY DEF GuardInv
  <1>1. CASE PreviewPurge
    <2>1. pc' = "purging" => Allowed(Purged(host, spec.purge))
      BY <1>1 DEF PreviewPurge
    <2>2. host' = host /\ spec' = spec /\ manager' = manager
          /\ pc' \notin {"autoremoving", "removing"}
      BY <1>1 DEF PreviewPurge, step
    <2>3. Allowed(Purged(host, spec.purge))' = Allowed(Purged(host, spec.purge))
      BY <2>2 DEF Allowed, Purged, Declared, Broken, Unused, Without, Needed, Installed, Closed
    <2>4. QED  BY <2>1, <2>2, <2>3
  <1>2. CASE PreviewAutoremove
    <2>1. pc' = "autoremoving" => Allowed(Unused(host))
      BY <1>2 DEF PreviewAutoremove
    <2>2. host' = host /\ spec' = spec /\ pc' \notin {"purging", "removing"}
      BY <1>2 DEF PreviewAutoremove, step
    <2>3. Allowed(Unused(host))' = Allowed(Unused(host))
      BY <2>2 DEF Allowed, Declared, Unused, Needed, Installed, Closed
    <2>4. QED  BY <2>1, <2>2, <2>3
  <1>3. CASE RestoreObject
    <2> DEFINE q == Names[todo]
    <2>1. pc' \in {"undo", "stuck", "removing"}  BY <1>3, RestoreFacts
    <2>2. \/ RestoreAbsent(q) \/ RestorePresent(q) \/ Settled
      BY <1>3 DEF RestoreObject
    <2>3. pc' = "removing" => Broken(host, {q}) \subseteq {q} /\ host' = host /\ todo' = todo
      BY <2>2 DEF RestoreAbsent, RestorePresent, Settled, GiveUp
    <2>4. pc' = "removing" => (Broken(host, {Names[todo]}) \subseteq {Names[todo]})'
      BY <2>3 DEF Broken, Installed, Closed
    <2>5. QED  BY <2>1, <2>4
  <1>4. CASE Edit
    <2>1. pc' \notin {"purging", "autoremoving", "removing"}  BY <1>4 DEF Edit
    <2>2. QED  BY <2>1
  <1>5. CASE Elapse \/ UNCHANGED vars
    <2>1. /\ host' = host /\ spec' = spec /\ manager' = manager /\ pc' = pc /\ todo' = todo
          /\ disturbed' = disturbed
      BY <1>5 DEF Elapse, vars, step
    <2>2. Allowed(Purged(host, spec.purge))' = Allowed(Purged(host, spec.purge))
      BY <2>1 DEF Allowed, Purged, Declared, Broken, Unused, Without, Needed, Installed, Closed
    <2>3. Allowed(Unused(host))' = Allowed(Unused(host))
      BY <2>1 DEF Allowed, Declared, Unused, Needed, Installed, Closed
    <2>4. (Broken(host, {Names[todo]}) \subseteq {Names[todo]})'
            = (Broken(host, {Names[todo]}) \subseteq {Names[todo]})
      BY <2>1 DEF Broken, Installed, Closed
    <2>5. QED  BY <2>1, <2>2, <2>3, <2>4 DEF GuardInv
  <1>6. CASE Update \/ Upgrade \/ Install \/ Purge \/ Autoremove \/ RemoveObject
    <2>1. pc' \notin {"purging", "autoremoving", "removing"}
      BY <1>6, UpdateFacts, UpgradeFacts, InstallFacts, PurgeFacts, AutoremoveFacts, RemoveFacts
    <2>2. QED  BY <2>1
  <1>7. CASE Capture \/ CheckLock \/ Recapture \/ Rollback \/ Undone \/ StartOver
    <2>1. pc' \notin {"purging", "autoremoving", "removing"}
      BY <1>7 DEF Capture, CheckLock, Recapture, Rollback, Undone, StartOver
    <2>2. QED  BY <2>1
  <1>8. QED  BY <1>1, <1>2, <1>3, <1>4, <1>5, <1>6, <1>7 DEF Next

(* No command takes a package that it is not to take.                      *)
LEMMA TakesDeclared ==
    Typed /\ GuardInv /\ [Next]_vars =>
      ((<<pc, todo>>' # <<pc, todo>> /\ disturbed # "raced") =>
          Installed(host) \ Installed(host') \subseteq
            IF pc = "removing" THEN {Names[todo]} ELSE Declared)
  <1> SUFFICES ASSUME Typed, GuardInv, [Next]_vars, <<pc, todo>>' # <<pc, todo>>,
                      disturbed # "raced"
               PROVE  Installed(host) \ Installed(host') \subseteq
                        IF pc = "removing" THEN {Names[todo]} ELSE Declared
    OBVIOUS
  <1>1. CASE Update \/ Upgrade \/ Install \/ RestoreObject
    <2>1. Installed(host) \subseteq Installed(host')
      BY <1>1, UpdateFacts, UpgradeFacts, InstallFacts, RestoreFacts
    <2>2. QED  BY <2>1
  <1>2. CASE Purge
    <2>1. pc = "purging" /\ Allowed(Purged(host, spec.purge))  BY <1>2 DEF Purge, GuardInv
    <2>2. Installed(host) \ Installed(host') \subseteq Purged(host, spec.purge)
      BY <1>2, PurgeFacts
    <2>3. QED  BY <2>1, <2>2 DEF Allowed
  <1>3. CASE Autoremove
    <2>1. pc = "autoremoving" /\ Allowed(Unused(host))  BY <1>3 DEF Autoremove, GuardInv
    <2>2. Installed(host) \ Installed(host') \subseteq Unused(host)
      BY <1>3, AutoremoveFacts
    <2>3. QED  BY <2>1, <2>2 DEF Allowed
  <1>4. CASE RemoveObject
    <2>1. pc = "removing" /\ Broken(host, {Names[todo]}) \subseteq {Names[todo]}
      BY <1>4 DEF RemoveObject, GuardInv
    <2>2. Installed(host) \ Installed(host') \subseteq Broken(host, {Names[todo]})
      BY <1>4, RemoveFacts
    <2>3. QED  BY <2>1, <2>2
  <1>5. CASE \/ Capture \/ CheckLock \/ PreviewPurge \/ PreviewAutoremove \/ Recapture
             \/ Rollback \/ Undone \/ StartOver
    <2>1. host' = host
      BY <1>5 DEF Capture, CheckLock, PreviewPurge, PreviewAutoremove, Recapture, Rollback,
                  Undone, StartOver
    <2>2. QED  BY <2>1
  <1>6. CASE Elapse \/ Edit \/ UNCHANGED vars
    <2>1. pc' = pc /\ todo' = todo  BY <1>6 DEF Elapse, Edit, vars
    <2>2. QED  BY <2>1
  <1>7. QED  BY <1>1, <1>2, <1>3, <1>4, <1>5, <1>6 DEF Next

(* THEOREM: whatever others do to the host between two commands, a run      *)
(* takes only packages that the step declares, and its rollback only the    *)
(* one that it removes (GuardPurgeTransaction, the guards of the autoremove *)
(* and of restore).                                                        *)
THEOREM TakesOnlyDeclared == Spec => CollateralDeclared
  <1>1. Init => Typed /\ GuardInv
    <2>1. Init => GuardInv  BY DEF Init, GuardInv
    <2>2. QED  BY <2>1, TypedInit
  <1>2. Typed /\ GuardInv /\ [Next]_vars => (Typed /\ GuardInv)'
    BY TypedStep, GuardInvStep
  <1>3. Typed /\ GuardInv /\ [Next]_vars =>
          [ (<<pc, todo>>' # <<pc, todo>> /\ disturbed # "raced") =>
              Installed(host) \ Installed(host') \subseteq
                IF pc = "removing" THEN {Names[todo]} ELSE Declared ]_vars
    BY TakesDeclared
  <1>4. QED  BY <1>1, <1>2, <1>3, PTL DEF Spec, CollateralDeclared

-----------------------------------------------------------------------------
(* A run installs what its step needs, and takes what its step declares.    *)
Installs == {"lock", "update", "upgrade", "install"}  \* it has still to install,
Purges == Installs \cup {"purge", "purging"}          \* and to purge

RunInv ==
    (pc \in Running \cup {"done", "failed"} /\ disturbed = "no") =>
        /\ Installed(host) \ Installed(found) \subseteq Needed(spec.install)
        /\ Installed(found) \ Installed(host) \subseteq Declared
        /\ pc \notin Installs \cup {"failed"} => spec.install \subseteq Installed(host)
        /\ pc \notin Purges \cup {"failed"} => spec.purge \cap Installed(host) = {}

(* The steps from one state of a run to another.                           *)
RunStep == \/ CheckLock \/ Update \/ Upgrade \/ Install \/ PreviewPurge \/ Purge
           \/ PreviewAutoremove \/ Autoremove \/ Recapture

LEMMA RunSteps ==
    ASSUME Typed, [Next]_vars, pc' \in Running \cup {"done", "failed"}, disturbed' = "no"
    PROVE  \/ Capture
           \/ RunStep /\ pc \in Running /\ disturbed = "no"
           \/ /\ pc' = pc /\ host' = host /\ found' = found /\ spec' = spec
              /\ disturbed = "no"
              /\ Elapse \/ UNCHANGED vars
  <1>1. ~Edit  BY EditFacts
  <1>2. CASE RunStep
    <2>1. pc \in Running
      BY <1>2 DEF RunStep, CheckLock, Update, Upgrade, Install, PreviewPurge, Purge,
                  PreviewAutoremove, Autoremove, Recapture, Running
    <2>2. disturbed' = disturbed
      BY <1>2 DEF RunStep, CheckLock, Update, Upgrade, Install, PreviewPurge, Purge,
                  PreviewAutoremove, Autoremove, Recapture
    <2>3. QED  BY <1>2, <2>1, <2>2
  <1>3. CASE Rollback \/ Undone \/ RestoreObject \/ RemoveObject \/ StartOver
    <2>1. pc' \in {"undo", "undone", "stuck", "removing", "ready"}
      BY <1>3, RestoreFacts, RemoveFacts DEF Rollback, Undone, StartOver
    <2>2. QED  BY <2>1 DEF Running
  <1>4. CASE Elapse \/ UNCHANGED vars
    <2>1. /\ pc' = pc /\ host' = host /\ found' = found /\ spec' = spec
          /\ disturbed' = disturbed
      BY <1>4 DEF Elapse, vars, step
    <2>2. QED  BY <1>4, <2>1
  <1>5. QED  BY <1>1, <1>2, <1>3, <1>4 DEF Next, RunStep

LEMMA RunInvStep ==
    Typed /\ GuardInv /\ RunInv /\ [Next]_vars => RunInv'
  <1> SUFFICES ASSUME Typed, GuardInv, RunInv, [Next]_vars,
                      pc' \in Running \cup {"done", "failed"}, disturbed' = "no"
               PROVE  /\ Installed(host') \ Installed(found') \subseteq Needed(spec'.install)
                      /\ Installed(found') \ Installed(host') \subseteq Declared'
                      /\ pc' \notin Installs \cup {"failed"} => spec'.install \subseteq Installed(host')
                      /\ pc' \notin Purges \cup {"failed"} => spec'.purge \cap Installed(host') = {}
    BY DEF RunInv
  <1>1. spec' = spec /\ Declared' = Declared  BY HostStep DEF Declared
  <1>2. CASE Capture
    <2>1. host' = host /\ found' = host /\ pc' = "lock"  BY <1>2 DEF Capture
    <2>2. QED  BY <2>1 DEF Installs, Purges
  <1>3. CASE RunStep /\ pc \in Running /\ disturbed = "no"
    <2>1. found' = found
      BY <1>3 DEF RunStep, CheckLock, Update, Upgrade, Install, PreviewPurge, Purge,
                  PreviewAutoremove, Autoremove, Recapture
    <2>2. /\ Installed(host) \ Installed(found) \subseteq Needed(spec.install)
          /\ Installed(found) \ Installed(host) \subseteq Declared
          /\ pc \notin Installs \cup {"failed"} => spec.install \subseteq Installed(host)
          /\ pc \notin Purges \cup {"failed"} => spec.purge \cap Installed(host) = {}
      BY <1>3 DEF RunInv
    <2>3. Installed(host) \ Installed(host') \subseteq Declared
      <3>1. CASE pc = pc'
        <4>1. ~RunStep
          BY <3>1, UpdateFacts, UpgradeFacts, InstallFacts, PurgeFacts, AutoremoveFacts
          DEF RunStep, CheckLock, Update, Upgrade, Install, PreviewPurge, Purge,
                  PreviewAutoremove, Autoremove, Recapture
        <4>2. QED  BY <1>3, <4>1
      <3>2. CASE pc # pc'
        <4>1. <<pc, todo>>' # <<pc, todo>> /\ pc # "removing" /\ disturbed # "raced"
          BY <1>3, <3>2 DEF Running
        <4>2. QED  BY <4>1, TakesDeclared
      <3>3. QED  BY <3>1, <3>2
    <2>4. spec.install \cap Declared = {} /\ spec.purge \subseteq Declared
      BY SpecFacts DEF Declared
    <2>5. CASE CheckLock \/ Update \/ Upgrade
      <3>1. Installed(host') = Installed(host)
        BY <2>5, UpdateFacts, UpgradeFacts DEF CheckLock
      <3>2. pc' \in Installs \cup {"failed"}
        BY <2>5, UpdateFacts, UpgradeFacts DEF CheckLock, Installs
      <3>3. QED  BY <1>1, <2>1, <2>2, <3>1, <3>2 DEF Purges
    <2>6. CASE Install
      <3>1. /\ Installed(host) \subseteq Installed(host')
            /\ Installed(host') \subseteq Installed(host) \cup Needed(spec.install)
            /\ pc' \in {"purge", "failed"}
            /\ pc' = "purge" => spec.install \subseteq Installed(host')
        BY <2>6, InstallFacts
      <3>2. pc' \in Purges \cup {"failed"}  BY <3>1 DEF Purges
      <3>3. QED  BY <1>1, <2>1, <2>2, <3>1, <3>2 DEF Installs
    <2>7. CASE PreviewPurge
      <3>1. host' = host /\ pc = "purge"  BY <2>7 DEF PreviewPurge
      <3>2. pc' \in {"purging", "autoremove", "failed"}
            /\ (pc' = "autoremove" => spec.purge = {})
        BY <2>7 DEF PreviewPurge
      <3>3. pc \notin Installs \cup {"failed"} /\ pc' \notin Installs
            /\ (pc' \notin Purges \cup {"failed"} => pc' = "autoremove")
        BY <3>1, <3>2 DEF Installs, Purges
      <3>4. QED  BY <1>1, <2>1, <2>2, <3>1, <3>2, <3>3
    <2>8. CASE Purge
      <3>1. /\ Installed(host') \subseteq Installed(host) /\ pc' \in {"autoremove", "failed"}
            /\ pc' = "autoremove" => spec.purge \cap Installed(host') = {}
        BY <2>8, PurgeFacts
      <3>2. pc \notin Installs \cup {"failed"} /\ pc' \notin Installs
            /\ (pc' \notin Purges \cup {"failed"} => pc' = "autoremove")
        BY <2>8, <3>1 DEF Installs, Purges, Purge
      <3>3. QED  BY <1>1, <2>1, <2>2, <2>3, <2>4, <3>1, <3>2
    <2>9. CASE PreviewAutoremove \/ Autoremove \/ Recapture
      <3>1. Installed(host') \subseteq Installed(host)
        BY <2>9, AutoremoveFacts DEF PreviewAutoremove, Recapture
      <3>2. pc \notin Installs \cup {"failed"} /\ pc \notin Purges \cup {"failed"}
        BY <2>9 DEF PreviewAutoremove, Autoremove, Recapture, Installs, Purges
      <3>3. QED  BY <1>1, <2>1, <2>2, <2>3, <2>4, <3>1, <3>2
    <2>10. QED  BY <1>3, <2>5, <2>6, <2>7, <2>8, <2>9 DEF RunStep
  <1>4. CASE /\ pc' = pc /\ host' = host /\ found' = found /\ spec' = spec
             /\ disturbed = "no"
    BY <1>1, <1>4 DEF RunInv
  <1>5. QED  BY <1>2, <1>3, <1>4, RunSteps

-----------------------------------------------------------------------------
(* What a run without a fault does has been announced by its plan.  When    *)
(* the plan says that nothing changes, the host is as it was found, but    *)
(* for what apt upgrades of its install list,                              *)
IdleHost ==
    /\ Installed(host) = Installed(found) /\ host.auto \subseteq found.auto
    /\ Needed(spec.install) \subseteq Installed(found)
    /\ spec.purge \cap Installed(found) = {}
    /\ \A p \in Pkgs \ AptInstalls : host.ver[p] = found.ver[p]

(* and the operations that are left have nothing to do.                    *)
Decided == IF pc = "lock" THEN WouldChange ELSE would

IdleOps ==
    /\ pc \in {"lock", "update"} => ~ShouldRun("update", Decided)
    /\ (pc \in {"lock", "update", "upgrade"} /\ ShouldRun("upgrade", Decided))
         => Upgraded(host) = host
    /\ (pc = "autoremoving" \/ (pc \in Running \ {"recapture"} /\ ShouldRun("autoremove", Decided)))
         => Unused(found) = {}

PlanInv ==
    (pc \in Running \cup {"done", "failed"} /\ disturbed = "no" /\ faults = 0) =>
        /\ planned.adds = Needed(spec.install) \ Installed(found)
        /\ spec.purge \cap Installed(found) \subseteq planned.takes
        /\ planned.change \/ (IdleHost /\ IdleOps)

LEMMA ShouldRunSame ==
    ASSUME NEW CONSTANT op, spec' = spec, op \in ran' <=> op \in ran, Decided' = Decided
    PROVE  ShouldRun(op, Decided)' = ShouldRun(op, Decided)
  BY DEF ShouldRun

LEMMA UpgradedSame ==
    ASSUME host' = host, index' = index
    PROVE  Upgraded(host)' = Upgraded(host)
  BY DEF Upgraded

LEMMA PlanCapture ==
    ASSUME Typed, Capture
    PROVE  PlanInv'
  <1>1. /\ host' = host /\ found' = host /\ pc' = "lock" /\ spec' = spec /\ index' = index
        /\ ran' = ran /\ manager' = manager
    BY DEF Capture, step
  <1>2. planned'.change = WillChange /\ planned'.adds = PlannedInstalls
        /\ planned'.takes = PlannedRemovals
    BY DEF Capture
  <1>3. Sound(host, index) /\ spec.purge \in SUBSET Pkgs  BY SpecFacts DEF Typed
  <1>4. spec.purge \cap Installed(host) \subseteq PlannedRemovals
    <2>1. spec.purge \cap Installed(host) \subseteq Purged(host, spec.purge)
      BY <1>3, PurgedFacts
    <2>2. QED  BY <2>1 DEF PlannedRemovals
  <1>5. ASSUME ~WillChange PROVE IdleHost' /\ IdleOps'
    <2>1. /\ ~ShouldRun("update", WouldChange)
          /\ ShouldRun("upgrade", WouldChange) => Upgraded(host) = host
          /\ PlannedInstalls = {} /\ PlannedRemovals = {}
      <3>1. /\ ~ShouldRun("update", WouldChange) /\ PlannedUpgrades = {}
            /\ PlannedInstalls = {} /\ PlannedRemovals = {}
        BY <1>5 DEF WillChange
      <3>2. ASSUME ShouldRun("upgrade", WouldChange) PROVE Upgraded(host) = host
        <4>1. /\ host = [ver |-> host.ver, auto |-> host.auto] /\ host.ver \in [Pkgs -> 0..2]
          BY <1>3 DEF Sound, Hosts
        <4>2. \A p \in Pkgs : host.ver[p] # 0 => host.ver[p] = index
          BY <3>1, <3>2 DEF PlannedUpgrades, Installed
        <4>3. host.ver = [p \in Pkgs |-> IF host.ver[p] = 0 THEN 0 ELSE index]
          BY <4>1, <4>2
        <4>4. QED  BY <4>1, <4>3 DEF Upgraded
      <3>3. QED  BY <3>1, <3>2
    <2>2. Needed(spec.install) \subseteq Installed(host)  BY <2>1 DEF PlannedInstalls
    <2>3. spec.purge \cap Installed(host) = {}  BY <1>4, <2>1
    <2>4. ShouldRun("autoremove", WouldChange) => Unused(host) = {}
      BY <2>1 DEF PlannedRemovals
    <2>5. IdleHost'  BY <1>1, <2>2, <2>3 DEF IdleHost, AptInstalls
    <2>6. WouldChange' = WouldChange /\ Decided' = WouldChange
      BY <1>1 DEF WouldChange, Decided
    <2>7. ASSUME NEW CONSTANT op
          PROVE  ShouldRun(op, Decided)' = ShouldRun(op, WouldChange)
      BY <1>1, <2>6 DEF ShouldRun
    <2>8. Upgraded(host)' = Upgraded(host)  BY <1>1, UpgradedSame
    <2>9. IdleOps'  BY <1>1, <2>1, <2>4, <2>7, <2>8 DEF IdleOps
    <2>10. QED  BY <2>5, <2>9
  <1>6. QED
    <2>1. planned'.adds = Needed(spec'.install) \ Installed(found')
      BY <1>1, <1>2 DEF PlannedInstalls
    <2>2. spec'.purge \cap Installed(found') \subseteq planned'.takes
      BY <1>1, <1>2, <1>4
    <2>3. QED  BY <1>2, <1>5, <2>1, <2>2 DEF PlanInv

(* A command that has nothing to do does nothing.                          *)
LEMMA IdleStep ==
    ASSUME Typed, RunInv, disturbed = "no", IdleHost, IdleOps, RunStep, faults' = faults
    PROVE  IdleHost' /\ IdleOps'
  <1>1. spec' = spec /\ found' = found /\ manager' = manager
    BY DEF RunStep, CheckLock, Update, Upgrade, Install, PreviewPurge, Purge,
           PreviewAutoremove, Autoremove, Recapture, step
  <1>2. Sound(host, index) /\ host \in Hosts /\ index \in {1, 2} /\ spec.purge \in SUBSET Pkgs
        /\ spec.install \in SUBSET Pkgs
    BY SpecFacts DEF Typed, Sound
  <1>3. ASSUME host'.auto = host.auto, \A q \in Pkgs : host'.ver[q] = host.ver[q]
        PROVE  IdleHost'
    <2>1. Installed(host') = Installed(host)  BY <1>3 DEF Installed
    <2>2. QED  BY <1>1, <1>3, <2>1 DEF IdleHost, AptInstalls
  <1>4. CASE CheckLock
    <2>1. host' = host /\ ran' = ran /\ index' = index /\ pc = "lock" /\ pc' \in {"update", "failed"}
          /\ would' = WouldChange
      BY <1>4 DEF CheckLock
    <2>2. IdleHost'  BY <1>3, <2>1
    <2>3. Decided' = Decided  BY <2>1 DEF Decided
    <2>4. ASSUME NEW CONSTANT op PROVE ShouldRun(op, Decided)' = ShouldRun(op, Decided)
      BY <1>1, <2>1, <2>3, ShouldRunSame
    <2>5. Upgraded(host)' = Upgraded(host)  BY <2>1, UpgradedSame
    <2>6. IdleOps'  BY <1>1, <2>1, <2>4, <2>5 DEF IdleOps, Running
    <2>7. QED  BY <2>2, <2>6
  <1>5. CASE Update
    <2>1. pc = "update" /\ Decided = would  BY <1>5 DEF Update, Decided
    <2>2. ~ShouldRun("update", would)  BY <2>1 DEF IdleOps
    <2>3. Skip("upgrade") /\ ran' = ran /\ index' = index /\ would' = would
      BY <1>5, <2>2 DEF Update
    <2>4. host' = host /\ pc' = "upgrade"  BY <2>3 DEF Skip
    <2>5. IdleHost'  BY <1>3, <2>4
    <2>6. Decided' = Decided  BY <2>1, <2>3, <2>4 DEF Decided
    <2>7. ASSUME NEW CONSTANT op PROVE ShouldRun(op, Decided)' = ShouldRun(op, Decided)
      BY <1>1, <2>3, <2>6, ShouldRunSame
    <2>8. Upgraded(host)' = Upgraded(host)  BY <2>3, <2>4, UpgradedSame
    <2>9. IdleOps'  BY <1>1, <2>1, <2>4, <2>7, <2>8 DEF IdleOps, Running
    <2>10. QED  BY <2>5, <2>9
  <1>6. CASE Upgrade
    <2>1. pc = "upgrade" /\ Decided = would /\ would' = would
      BY <1>6 DEF Upgrade, Decided
    <2>2. ShouldRun("upgrade", would) => Upgraded(host) = host  BY <2>1 DEF IdleOps
    <2>3. host' = host /\ pc' \in {"install", "failed"}  BY <1>6, <2>2, UpgradeFacts
    <2>4. IdleHost'  BY <1>3, <2>3
    <2>5. Decided' = Decided  BY <2>1, <2>3 DEF Decided
    <2>6. "autoremove" \in ran' <=> "autoremove" \in ran
      BY <1>6 DEF Upgrade, Mark
    <2>7. ShouldRun("autoremove", Decided)' = ShouldRun("autoremove", Decided)
      BY <1>1, <2>5, <2>6, ShouldRunSame
    <2>8. IdleOps'  BY <1>1, <2>1, <2>3, <2>7 DEF IdleOps, Running
    <2>9. QED  BY <2>4, <2>8
  <1>7. CASE Install
    <2>1. pc = "install" /\ Decided = would /\ would' = would /\ ran' = ran
      BY <1>7 DEF Install, Decided
    <2>2. /\ pc' \in {"purge", "failed"}
          /\ host' = host \/ host' = With(host, spec.install)
      BY <1>7, InstallFacts
    <2>3. IdleHost'
      <3>1. CASE host' = host
        BY <1>3, <3>1
      <3>2. CASE host' = With(host, spec.install)
        <4>1. Needed(spec.install) \ Installed(host) = {} BY DEF IdleHost
        <4>2. /\ Installed(host') = Installed(host) \cup Needed(spec.install)
              /\ host'.auto = (host.auto \cup {}) \ spec.install
              /\ \A q \in Pkgs : \/ host'.ver[q] = host.ver[q]
                                 \/ q \in AptInstalls
          <5> DEFINE g == With(host, spec.install)
          <5>1. /\ Installed(g) = Installed(host) \cup Needed(spec.install)
                /\ g.auto = (host.auto \cup {}) \ spec.install
                /\ \A q \in Pkgs : g.ver[q] = host.ver[q] \/ q \in spec.install \cup {}
            BY <1>2, <4>1, WithFacts
          <5>2. ASSUME NEW q \in Pkgs, q \in spec.install, manager # "apt"
                PROVE  g.ver[q] = host.ver[q]
            <6>1. q \in Installed(host)  BY <1>2, <4>1, <5>2, NeededFacts
            <6>2. QED  BY <1>2, <5>2, <6>1, WithVersions
          <5> HIDE DEF g
          <5>3. host' = g  BY <3>2 DEF g
          <5>4. QED  BY <5>1, <5>2, <5>3 DEF AptInstalls
        <4>3. QED  BY <1>1, <4>2 DEF IdleHost, AptInstalls
      <3>3. QED  BY <2>2, <3>1, <3>2
    <2>4. Decided' = Decided  BY <2>1, <2>2 DEF Decided
    <2>5. ShouldRun("autoremove", Decided)' = ShouldRun("autoremove", Decided)
      BY <1>1, <2>1, <2>4, ShouldRunSame
    <2>6. IdleOps'  BY <1>1, <2>1, <2>2, <2>5 DEF IdleOps, Running
    <2>7. QED  BY <2>3, <2>6
  <1>8. CASE PreviewPurge
    <2>1. pc = "purge" /\ Decided = would /\ would' = would /\ ran' = ran /\ host' = host
          /\ pc' \in {"purging", "autoremove", "failed"}
      BY <1>8 DEF PreviewPurge, Decided
    <2>2. IdleHost'  BY <1>3, <2>1
    <2>3. Decided' = Decided  BY <2>1 DEF Decided
    <2>4. ShouldRun("autoremove", Decided)' = ShouldRun("autoremove", Decided)
      BY <1>1, <2>1, <2>3, ShouldRunSame
    <2>5. IdleOps'  BY <1>1, <2>1, <2>4 DEF IdleOps, Running
    <2>6. QED  BY <2>2, <2>5
  <1>9. CASE Purge
    <2>1. pc = "purging" /\ Decided = would /\ would' = would /\ ran' = ran
      BY <1>9 DEF Purge, Decided
    <2>2. spec.purge \cap Installed(host) = {}  BY DEF IdleHost
    <2>3. Purged(host, spec.purge) = {}  BY <1>2, <2>2, PurgedFacts
    <2>4. pc' \in {"autoremove", "failed"} /\ host'.auto = host.auto
          /\ (\A q \in Pkgs : host'.ver[q] = host.ver[q])
      BY <1>9, <2>3, PurgeFacts
    <2>5. IdleHost'  BY <1>3, <2>4
    <2>6. Decided' = Decided  BY <2>1, <2>4 DEF Decided
    <2>7. ShouldRun("autoremove", Decided)' = ShouldRun("autoremove", Decided)
      BY <1>1, <2>1, <2>6, ShouldRunSame
    <2>8. IdleOps'  BY <1>1, <2>1, <2>4, <2>7 DEF IdleOps, Running
    <2>9. QED  BY <2>5, <2>8
  <1>10. CASE PreviewAutoremove
    <2>1. pc = "autoremove" /\ Decided = would /\ would' = would /\ ran' = ran /\ host' = host
          /\ pc' \in {"recapture", "autoremoving", "failed"}
          /\ (pc' = "autoremoving" => ShouldRun("autoremove", would))
      BY <1>10 DEF PreviewAutoremove, Decided
    <2>2. IdleHost'  BY <1>3, <2>1
    <2>3. pc' = "autoremoving" => Unused(found) = {}  BY <2>1 DEF IdleOps, Running
    <2>4. IdleOps'  BY <1>1, <2>1, <2>3 DEF IdleOps, Running
    <2>5. QED  BY <2>2, <2>4
  <1>11. CASE Autoremove
    <2>1. pc = "autoremoving"  BY <1>11 DEF Autoremove
    <2>2. Unused(found) = {}  BY <2>1 DEF IdleOps
    <2>3. Unused(host) = {}
      <3>1. Installed(host) \ found.auto \subseteq Installed(host) \ host.auto
            /\ Installed(host) \ host.auto \in SUBSET Pkgs
        BY DEF IdleHost, Installed
      <3>2. Needed(Installed(host) \ found.auto) \subseteq Needed(Installed(host) \ host.auto)
        BY <3>1, NeededGrows
      <3>3. Installed(host) \ Needed(Installed(host) \ found.auto) = {}
        BY <2>2 DEF Unused, IdleHost
      <3>4. QED  BY <3>2, <3>3 DEF Unused
    <2>4. pc' \in {"recapture", "failed"} /\ host'.auto = host.auto
          /\ (\A q \in Pkgs : host'.ver[q] = host.ver[q])
      BY <1>11, <2>3, AutoremoveFacts
    <2>5. IdleHost'  BY <1>3, <2>4
    <2>6. IdleOps'  BY <2>4 DEF IdleOps, Running
    <2>7. QED  BY <2>5, <2>6
  <1>12. CASE Recapture
    <2>1. pc' \in {"done", "failed"} /\ host' = host  BY <1>12 DEF Recapture
    <2>2. IdleHost'  BY <1>3, <2>1
    <2>3. IdleOps'  BY <2>1 DEF IdleOps, Running
    <2>4. QED  BY <2>2, <2>3
  <1>13. QED
    BY <1>4, <1>5, <1>6, <1>7, <1>8, <1>9, <1>10, <1>11, <1>12 DEF RunStep

LEMMA PlanInvStep ==
    Typed /\ RunInv /\ PlanInv /\ [Next]_vars => PlanInv'
  <1> SUFFICES ASSUME Typed, RunInv, PlanInv, [Next]_vars,
                      pc' \in Running \cup {"done", "failed"}, disturbed' = "no", faults' = 0
               PROVE  PlanInv'
    BY DEF PlanInv
  <1>1. faults \in Nat /\ faults <= faults' /\ spec' = spec  BY HostStep DEF Typed
  <1>2. faults = 0 /\ faults' = faults  BY <1>1
  <1>3. CASE Capture
    BY <1>3, PlanCapture
  <1>4. CASE RunStep /\ pc \in Running /\ disturbed = "no"
    <2>1. /\ planned.adds = Needed(spec.install) \ Installed(found)
          /\ spec.purge \cap Installed(found) \subseteq planned.takes
          /\ planned.change \/ (IdleHost /\ IdleOps)
      BY <1>2, <1>4 DEF PlanInv
    <2>2. found' = found /\ planned' = planned
      BY <1>4 DEF RunStep, CheckLock, Update, Upgrade, Install, PreviewPurge, Purge,
                  PreviewAutoremove, Autoremove, Recapture
    <2>3. planned'.change \/ (IdleHost /\ IdleOps)'
      BY <1>2, <1>4, <2>1, <2>2, IdleStep
    <2>4. QED  BY <1>1, <2>1, <2>2, <2>3 DEF PlanInv
  <1>5. CASE /\ pc' = pc /\ host' = host /\ found' = found /\ spec' = spec /\ disturbed = "no"
             /\ Elapse \/ UNCHANGED vars
    <2>1. pc # "ready"  BY <1>5 DEF Running
    <2>2. UNCHANGED vars
      <3>1. faults' # faults + 1  BY <1>1, <1>2
      <3>2. QED  BY <1>5, <2>1, <3>1 DEF Elapse, Fault
    <2>3. PlanInv' = PlanInv
      BY <2>2 DEF PlanInv, vars, step, IdleHost, IdleOps, Decided, WouldChange, ShouldRun,
                  Upgraded, AptInstalls
    <2>4. QED  BY <2>3
  <1>6. QED  BY <1>3, <1>4, <1>5, RunSteps

-----------------------------------------------------------------------------
(* What a run changes is what the previews showed of the host before it,    *)
(* although its commands run one after the other on what the last one left. *)
Manual(h) == Installed(h) \ h.auto

(* A purge takes no package that was there but those it would have taken    *)
(* before the packages to install came, as long as it leaves these alone:   *)
(* what goes with the purged ones, and for dnf what nothing needs any more. *)
LEMMA BrokenForeseen ==
    ASSUME NEW f, NEW h, Installed(f) \subseteq Installed(h), NEW S
    PROVE  Broken(h, S) \cap Installed(f) \subseteq Broken(f, S)
  <1>1. Installed(f) \ S \subseteq Installed(h) \ S  OBVIOUS
  <1>2. QED  BY <1>1 DEF Broken

LEMMA PurgeForeseen ==
    ASSUME NEW f, Sound(f, index), NEW h, Sound(h, index), NEW I \in SUBSET Pkgs,
           Installed(f) \subseteq Installed(h), I \subseteq Installed(h),
           Manual(f) \subseteq Manual(h), Manual(h) \subseteq Manual(f) \cup I,
           NEW S \in SUBSET Pkgs, Purged(h, S) \cap I = {}
    PROVE  Purged(h, S) \cap Installed(f) \subseteq Purged(f, S)
  <1> DEFINE goneF  == Broken(f, S)
             goneH  == Broken(h, S)
             looseF == Unused(Without(f, goneF)) \ Unused(f)
             looseH == Unused(Without(h, goneH)) \ Unused(h)
             restF  == Installed(f) \ (goneF \cup looseF)
             restH  == Installed(h) \ (goneH \cup looseH)
             stays  == Installed(h) \ Purged(h, S)
  <1>1. goneH \cap Installed(f) \subseteq goneF  BY BrokenForeseen
  <1>2. Purged(f, S) = IF manager = "dnf" THEN goneF \cup (looseF \ Needed(restF)) ELSE goneF
    BY DEF Purged
  <1>3. Purged(h, S) = IF manager = "dnf" THEN goneH \cup (looseH \ Needed(restH)) ELSE goneH
    BY DEF Purged
  <1>4. CASE manager # "dnf"
    BY <1>1, <1>2, <1>3, <1>4
  <1>5. CASE manager = "dnf"
    <2>1. /\ Installed(f) \in SUBSET Pkgs /\ Installed(h) \in SUBSET Pkgs
          /\ f \in Hosts /\ h \in Hosts
      BY DEF Installed, Sound
    <2>2. Closed(stays) /\ stays \in SUBSET Pkgs
      <3>1. Closed(Installed(h) \ Purged(h, S))  BY PurgedFacts
      <3>2. QED  BY <2>1, <3>1
    <2>3. I \subseteq stays  OBVIOUS
    <2>4. /\ Unused(Without(f, goneF))
               = (Installed(f) \ goneF) \ Needed(Manual(f) \ goneF)
          /\ Unused(Without(h, goneH))
               = (Installed(h) \ goneH) \ Needed(Manual(h) \ goneH)
      <3>1. ASSUME NEW g \in Hosts, NEW G
            PROVE  Unused(Without(g, G)) = (Installed(g) \ G) \ Needed(Manual(g) \ G)
        <4>1. /\ Installed(Without(g, G)) = Installed(g) \ G
              /\ Without(g, G).auto = g.auto \ G
          BY WithoutFacts
        <4>2. (Installed(g) \ G) \ (g.auto \ G) = Manual(g) \ G  BY DEF Manual
        <4>3. QED  BY <4>1, <4>2 DEF Unused
      <3> HIDE DEF goneF, goneH
      <3>2. QED  BY <2>1, <3>1
    <2>5. /\ Unused(f) = Installed(f) \ Needed(Manual(f))
          /\ Unused(h) = Installed(h) \ Needed(Manual(h))
      BY DEF Unused, Manual
    <2>6. Manual(f) \in SUBSET Pkgs /\ Manual(h) \in SUBSET Pkgs
          /\ Manual(f) \subseteq Installed(f)
      BY <2>1 DEF Manual
    <2>7. Needed(Manual(f) \ goneF) \subseteq Needed(Manual(h) \ goneH)
      <3>1. Manual(f) \ goneF \subseteq Manual(h) \ goneH  BY <1>1, <2>6
      <3> HIDE DEF goneF, goneH
      <3>2. QED  BY <2>6, <3>1, NeededGrows
    <2>8. Needed(Manual(h)) \subseteq Needed(Manual(f)) \cup stays
      <3> DEFINE C == Needed(Manual(f)) \cup stays
      <3>1. Closed(Needed(Manual(f))) /\ Needed(Manual(f)) \in SUBSET Pkgs
            /\ Manual(f) \subseteq Needed(Manual(f))
        BY <2>6, NeededFacts
      <3>2. Closed(C)
        <4> HIDE DEF stays
        <4>1. QED  BY <2>2, <3>1 DEF Closed
      <3>3. C \in SUBSET Pkgs /\ Manual(h) \subseteq C  BY <2>2, <2>3, <3>1
      <3> HIDE DEF C
      <3>4. Needed(Manual(h)) \subseteq C  BY <2>6, <3>2, <3>3, NeededFacts
      <3>5. QED  BY <3>4 DEF C
    <2>9. ASSUME NEW y \in restF PROVE y \in stays
      <3>1. y \in Installed(h) /\ y \notin goneH  BY <1>1
      <3>2. ASSUME y \in looseH PROVE y \in stays
        <4>1. y \notin Needed(Manual(h) \ goneH) /\ y \in Needed(Manual(h))
          BY <2>4, <2>5, <3>1, <3>2
        <4>2. y \notin Needed(Manual(f) \ goneF)  BY <2>7, <4>1
        <4>3. y \in Unused(f)
          <5>1. y \in Unused(Without(f, goneF))  BY <2>4, <4>2
          <5>2. QED  BY <5>1
        <4>4. y \notin Needed(Manual(f))  BY <2>5, <4>3
        <4> HIDE DEF stays
        <4>5. QED  BY <2>8, <4>1, <4>4
      <3>3. y \notin looseH => y \in stays  BY <1>3, <3>1
      <3>4. QED  BY <3>2, <3>3
    <2>10. Needed(restF) \subseteq stays
      <3> HIDE DEF restF, stays
      <3>1. restF \subseteq stays /\ restF \in SUBSET Pkgs  BY <2>2, <2>9
      <3>2. QED  BY <2>2, <3>1, NeededFacts
    <2>11. ASSUME NEW x \in Purged(h, S), x \in Installed(f), x \notin Purged(f, S)
           PROVE  FALSE
      <3>1. x \notin goneF /\ (x \in looseF => x \in Needed(restF))
        BY <1>2, <1>5, <2>11
      <3>2. x \in restF => x \in Needed(restF)
        <4> HIDE DEF restF
        <4>1. restF \subseteq Pkgs  BY <2>1 DEF restF
        <4>2. QED  BY <4>1, NeededFacts
      <3>3. x \in stays  BY <2>10, <2>11, <3>1, <3>2
      <3>4. QED  BY <2>11, <3>3
    <2>12. QED  BY <2>11
  <1>6. QED  BY <1>4, <1>5

(* Until something is removed the host is what it was and what was to be    *)
(* installed;                                                              *)
GrownHost ==
    /\ pc \in {"lock", "update", "upgrade"} => host = found
    /\ pc \in Purges =>
         /\ Installed(found) \subseteq Installed(host)
         /\ Manual(found) \subseteq Manual(host)
         /\ Manual(host) \subseteq Manual(found) \cup spec.install

(* the operations still to run were announced;                             *)
ToldOps ==
    /\ (pc \in {"lock", "update", "upgrade"} /\ ShouldRun("upgrade", Decided)) =>
         \/ planned.refreshes
         \/ /\ \A p \in Installed(found) : found.ver[p] # index => p \in planned.upgrades
            /\ pc \in {"lock", "update"} => ~ShouldRun("update", Decided)
    /\ (pc = "autoremoving" \/ (pc \in Running \ {"recapture"} /\ ShouldRun("autoremove", Decided)))
         => planned.clears

(* and so was what is gone or in another version.                          *)
ToldHost ==
    /\ Purged(found, spec.purge) \subseteq planned.takes
    /\ Installed(found) \ Installed(host) \subseteq
         planned.takes \cup IF planned.clears THEN spec.also ELSE {}
    /\ \A p \in (Installed(found) \cap Installed(host)) \ AptInstalls :
         host.ver[p] # found.ver[p] => p \in planned.upgrades \/ planned.refreshes

AheadInv ==
    (pc \in Running \cup {"done", "failed"} /\ disturbed = "no" /\ faults = 0) =>
        GrownHost /\ ToldOps /\ ToldHost

LEMMA AheadCapture ==
    ASSUME Typed, Capture
    PROVE  GrownHost' /\ ToldOps' /\ ToldHost'
  <1>1. /\ host' = host /\ found' = host /\ pc' = "lock" /\ spec' = spec /\ index' = index
        /\ ran' = ran /\ manager' = manager
        /\ planned'.takes = PlannedRemovals /\ planned'.upgrades = PlannedUpgrades
        /\ planned'.clears = ShouldRun("autoremove", WouldChange)
        /\ planned'.refreshes = (ShouldRun("update", WouldChange) /\ ShouldRun("upgrade", WouldChange))
    BY DEF Capture, step
  <1>2. GrownHost'  BY <1>1 DEF GrownHost, Manual, Installed
  <1>3. WouldChange' = WouldChange /\ Decided' = WouldChange
    BY <1>1 DEF WouldChange, Decided, Installed
  <1>4. ASSUME NEW CONSTANT op
        PROVE  ShouldRun(op, Decided)' = ShouldRun(op, WouldChange)
    BY <1>1, <1>3 DEF ShouldRun
  <1>5. ShouldRun("upgrade", WouldChange) =>
          \/ planned'.refreshes
          \/ /\ \A p \in Installed(host) : host.ver[p] # index => p \in planned'.upgrades
             /\ ~ShouldRun("update", WouldChange)
    BY <1>1 DEF PlannedUpgrades
  <1>6. ToldOps'
    <2>1. Installed(found)' = Installed(host)  BY <1>1 DEF Installed
    <2>2. QED  BY <1>1, <1>4, <1>5, <2>1 DEF ToldOps
  <1>7. Purged(found, spec.purge)' = Purged(host, spec.purge)
    BY <1>1 DEF Purged, Broken, Unused, Without, Needed, Installed, Closed
  <1>8. Purged(found, spec.purge)' \subseteq planned'.takes
    BY <1>1, <1>7 DEF PlannedRemovals
  <1>9. ToldHost'
    <2>1. Installed(found)' = Installed(host) /\ Installed(host)' = Installed(host)
      BY <1>1 DEF Installed
    <2>2. QED  BY <1>1, <1>8, <2>1 DEF ToldHost
  <1>10. QED  BY <1>2, <1>6, <1>9

LEMMA AheadStep ==
    ASSUME Typed, Sound(found, index), GuardInv, RunInv, AheadInv,
           spec.purge \cap Installed(found) \subseteq planned.takes,
           pc \in Running, disturbed = "no", faults = 0, faults' = faults,
           RunStep, [Next]_vars
    PROVE  GrownHost' /\ ToldOps' /\ ToldHost'
  <1>1. /\ spec' = spec /\ found' = found /\ planned' = planned /\ manager' = manager
    BY DEF RunStep, CheckLock, Update, Upgrade, Install, PreviewPurge, Purge,
           PreviewAutoremove, Autoremove, Recapture, step
  <1>2. /\ Sound(host, index) /\ host \in Hosts /\ found \in Hosts
        /\ spec.install \in SUBSET Pkgs /\ spec.purge \in SUBSET Pkgs
        /\ spec.install \cap Declared = {}
    BY SpecFacts DEF Typed, Sound
  <1>3. GrownHost  BY DEF AheadInv
  <1>4. ToldOps  BY DEF AheadInv
  <1>5. ToldHost  BY DEF AheadInv
  <1>6. Installed(found)' = Installed(found) /\ Manual(found)' = Manual(found)
        /\ Purged(found, spec.purge)' = Purged(found, spec.purge)
        /\ AptInstalls' = AptInstalls
    BY <1>1 DEF Installed, Manual, Purged, Broken, Unused, Without, Needed, Closed, AptInstalls
  <1>7. ASSUME /\ Installed(found) \ Installed(host') \subseteq
                     planned.takes \cup IF planned.clears THEN spec.also ELSE {}
               /\ \A p \in (Installed(found) \cap Installed(host')) \ AptInstalls :
                     host'.ver[p] # found.ver[p] => p \in planned.upgrades \/ planned.refreshes
        PROVE  ToldHost'
    <2>1. Purged(found, spec.purge) \subseteq planned.takes  BY <1>5 DEF ToldHost
    <2>2. QED  BY <1>1, <1>6, <1>7, <2>1 DEF ToldHost
  <1>8. ASSUME host' = host PROVE ToldHost'
    <2>1. /\ Installed(found) \ Installed(host) \subseteq
               planned.takes \cup IF planned.clears THEN spec.also ELSE {}
          /\ \A p \in (Installed(found) \cap Installed(host)) \ AptInstalls :
               host.ver[p] # found.ver[p] => p \in planned.upgrades \/ planned.refreshes
      BY <1>5 DEF ToldHost
    <2>2. QED  BY <1>7, <1>8, <2>1
  <1>9. ASSUME host' = host, pc' \in Purges => pc \in Purges,
               pc' \in {"lock", "update", "upgrade"} => pc \in {"lock", "update", "upgrade"}
        PROVE  GrownHost'
    <2>1. Installed(host)' = Installed(host) /\ Manual(host)' = Manual(host)
      BY <1>9 DEF Installed, Manual
    <2>2. QED  BY <1>1, <1>3, <1>6, <1>9, <2>1 DEF GrownHost
  <1>10. CASE CheckLock
    <2>1. host' = host /\ ran' = ran /\ index' = index /\ pc = "lock" /\ pc' \in {"update", "failed"}
          /\ would' = WouldChange
      BY <1>10 DEF CheckLock
    <2>2. Decided' = Decided \/ pc' = "failed"  BY <2>1 DEF Decided
    <2>3. ASSUME NEW CONSTANT op, pc' # "failed"
          PROVE  ShouldRun(op, Decided)' = ShouldRun(op, Decided)
      BY <1>1, <2>1, <2>2, <2>3, ShouldRunSame
    <2>4. ToldOps'
      <3>1. CASE pc' = "failed"
        BY <3>1 DEF ToldOps, Running
      <3>2. CASE pc' # "failed"
        BY <1>1, <1>4, <1>6, <2>1, <2>3, <3>2 DEF ToldOps, Running
      <3>3. QED  BY <3>1, <3>2
    <2>5. GrownHost'  BY <1>9, <2>1 DEF Purges, Installs
    <2>6. QED  BY <1>8, <2>1, <2>4, <2>5
  <1>11. CASE Update
    <2>1. pc = "update" /\ Decided = would /\ would' = would  BY <1>11 DEF Update, Decided
    <2>2. host' = host /\ pc' \in {"upgrade", "failed"}  BY <1>11, UpdateFacts
    <2>3. Decided' = Decided  BY <2>1, <2>2 DEF Decided
    <2>4. /\ "upgrade" \in ran' <=> "upgrade" \in ran
          /\ "autoremove" \in ran' <=> "autoremove" \in ran
      BY <1>11 DEF Update, Mark
    <2>5. /\ ShouldRun("upgrade", Decided)' = ShouldRun("upgrade", Decided)
          /\ ShouldRun("autoremove", Decided)' = ShouldRun("autoremove", Decided)
      <3>1. ShouldRun("upgrade", Decided)' = ShouldRun("upgrade", Decided)
        BY <1>1, <2>3, <2>4, ShouldRunSame
      <3>2. ShouldRun("autoremove", Decided)' = ShouldRun("autoremove", Decided)
        BY <1>1, <2>3, <2>4, ShouldRunSame
      <3>3. QED  BY <3>1, <3>2
    <2>6. ~ShouldRun("update", would) => index' = index  BY <1>11 DEF Update
    <2>7. ToldOps'
      <3>1. ShouldRun("upgrade", Decided) =>
              \/ planned.refreshes
              \/ /\ \A p \in Installed(found) : found.ver[p] # index => p \in planned.upgrades
                 /\ ~ShouldRun("update", would)
        BY <1>4, <2>1 DEF ToldOps
      <3>2. ShouldRun("autoremove", Decided) => planned.clears
        BY <1>4, <2>1 DEF ToldOps, Running
      <3>3. QED  BY <1>1, <1>6, <2>2, <2>5, <2>6, <3>1, <3>2 DEF ToldOps
    <2>8. GrownHost'  BY <1>9, <2>1, <2>2 DEF Purges, Installs
    <2>9. QED  BY <1>8, <2>2, <2>7, <2>8
  <1>12. CASE Upgrade
    <2>1. pc = "upgrade" /\ Decided = would /\ would' = would /\ index' = index
      BY <1>12 DEF Upgrade, Decided
    <2>2. pc' \in {"install", "failed"}  BY <1>12, UpgradeFacts
    <2>3. host = found  BY <1>3, <2>1 DEF GrownHost
    <2>4. Decided' = Decided  BY <2>1, <2>2 DEF Decided
    <2>5. "autoremove" \in ran' <=> "autoremove" \in ran  BY <1>12 DEF Upgrade, Mark
    <2>6. ShouldRun("autoremove", Decided)' = ShouldRun("autoremove", Decided)
      BY <1>1, <2>4, <2>5, ShouldRunSame
    <2>7. ToldOps'
      <3>1. ShouldRun("autoremove", Decided) => planned.clears
        BY <1>4, <2>1 DEF ToldOps, Running
      <3>2. QED  BY <1>1, <2>2, <2>6, <3>1 DEF ToldOps
    <2>8. host' = IF ShouldRun("upgrade", would) THEN Upgraded(host) ELSE host
      <3>1. faults' # faults + 1  OBVIOUS
      <3>2. QED  BY <1>12, <3>1 DEF Upgrade, Run, Skip, Fault
    <2>9. /\ Installed(host') = Installed(found) /\ host'.auto = found.auto
          /\ \A q \in Pkgs : \/ host'.ver[q] = found.ver[q]
                             \/ host'.ver[q] = index /\ ShouldRun("upgrade", would)
      <3>1. CASE ShouldRun("upgrade", would)
        <4> DEFINE g == Upgraded(host)
        <4>1. /\ Installed(g) = Installed(host) /\ g.auto = host.auto
              /\ \A q \in Pkgs : g.ver[q] \in {host.ver[q], index}
          <5>1. Sound(host, index) /\ index \in {1, 2}  BY DEF Typed
          <5>2. QED  BY <1>2, <5>1, UpgradedFacts, UpgradedVersions
        <4> HIDE DEF g
        <4>2. host' = g  BY <2>8, <3>1 DEF g
        <4>3. QED  BY <2>3, <3>1, <4>1, <4>2
      <3>2. CASE ~ShouldRun("upgrade", would)
        BY <2>3, <2>8, <3>2
      <3>3. QED  BY <3>1, <3>2
    <2>10. GrownHost'
      <3>1. Installed(host)' = Installed(found) /\ Manual(host)' = Manual(found)
        BY <2>9 DEF Installed, Manual
      <3>2. QED  BY <1>6, <2>2, <3>1 DEF GrownHost
    <2>11. ToldHost'
      <3>1. ShouldRun("upgrade", would) =>
              \A p \in Installed(found) :
                  found.ver[p] # index => p \in planned.upgrades \/ planned.refreshes
        BY <1>4, <2>1 DEF ToldOps, Installed
      <3>2. \A p \in Installed(found) : host'.ver[p] # found.ver[p] => p \in planned.upgrades \/ planned.refreshes
        BY <2>9, <3>1 DEF Installed
      <3>3. QED  BY <1>7, <2>9, <3>2
    <2>12. QED  BY <2>7, <2>10, <2>11
  <1>13. CASE Install
    <2>1. pc = "install" /\ Decided = would /\ would' = would /\ ran' = ran
      BY <1>13 DEF Install, Decided
    <2>2. /\ pc' \in {"purge", "failed"}
          /\ host' = host \/ host' = With(host, spec.install)
      BY <1>13, InstallFacts
    <2>3. Decided' = Decided  BY <2>1, <2>2 DEF Decided
    <2>4. ShouldRun("autoremove", Decided)' = ShouldRun("autoremove", Decided)
      BY <1>1, <2>1, <2>3, ShouldRunSame
    <2>5. ToldOps'
      <3>1. ShouldRun("autoremove", Decided) => planned.clears
        BY <1>4, <2>1 DEF ToldOps, Running
      <3>2. QED  BY <1>1, <2>2, <2>4, <3>1 DEF ToldOps
    <2>6. CASE host' = host
      <3>1. GrownHost'  BY <1>9, <2>1, <2>2, <2>6 DEF Purges, Installs
      <3>2. QED  BY <1>8, <2>5, <2>6, <3>1
    <2>7. CASE host' = With(host, spec.install)
      <3> DEFINE g == With(host, spec.install)
      <3>1. /\ Installed(g) = Installed(host) \cup Needed(spec.install)
            /\ g.auto = (host.auto \cup (Needed(spec.install) \ Installed(host))) \ spec.install
        <4>1. host \in Hosts /\ spec.install \in SUBSET Pkgs /\ index \in {1, 2}
          BY <1>2 DEF Typed
        <4>2. QED  BY <4>1, WithFacts
      <3>2. \A q \in Installed(host) \ AptInstalls : g.ver[q] = host.ver[q]
        <4>1. ASSUME NEW q \in Installed(host), q \notin spec.install \/ manager # "apt"
              PROVE  g.ver[q] = host.ver[q]
          BY <1>2, <4>1, WithVersions
        <4>2. ASSUME NEW q \in Installed(host), q \notin AptInstalls
              PROVE  q \notin spec.install \/ manager # "apt"
          BY <4>2 DEF AptInstalls
        <4> HIDE DEF g
        <4>3. QED  BY <4>1, <4>2
      <3> HIDE DEF g
      <3>3. host' = g  BY <2>7 DEF g
      <3>4. /\ Installed(found) \subseteq Installed(host)
            /\ Manual(found) \subseteq Manual(host)
            /\ Manual(host) \subseteq Manual(found) \cup spec.install
        BY <1>3, <2>1 DEF GrownHost, Purges, Installs
      <3>5. spec.install \subseteq Needed(spec.install)  BY <1>2, NeededFacts
      <3>6. Manual(g) \subseteq Manual(host) \cup spec.install /\ Manual(host) \subseteq Manual(g)
        BY <3>1, <3>5 DEF Manual
      <3>7. GrownHost'
        <4>1. Installed(host)' = Installed(g) /\ Manual(host)' = Manual(g)
          BY <3>3 DEF Installed, Manual
        <4>2. Installed(found) \subseteq Installed(g)  BY <3>1, <3>4
        <4>3. QED  BY <1>1, <1>6, <2>2, <3>4, <3>6, <4>1, <4>2 DEF GrownHost
      <3>8. ToldHost'
        <4>1. Installed(found) \ Installed(host') = {}  BY <3>1, <3>3, <3>4
        <4>2. \A p \in Installed(found) \ AptInstalls :
                 host.ver[p] # found.ver[p] => p \in planned.upgrades \/ planned.refreshes
          BY <1>5, <3>4 DEF ToldHost
        <4>3. \A p \in (Installed(found) \cap Installed(host')) \ AptInstalls :
                 host'.ver[p] # found.ver[p] => p \in planned.upgrades \/ planned.refreshes
          BY <3>2, <3>3, <3>4, <4>2
        <4>4. QED  BY <1>7, <4>1, <4>3
      <3>9. QED  BY <2>5, <3>7, <3>8
    <2>8. QED  BY <2>2, <2>6, <2>7
  <1>14. CASE PreviewPurge
    <2>1. pc = "purge" /\ Decided = would /\ would' = would /\ ran' = ran /\ host' = host
          /\ pc' \in {"purging", "autoremove", "failed"}
      BY <1>14 DEF PreviewPurge, Decided
    <2>2. Decided' = Decided  BY <2>1 DEF Decided
    <2>3. ShouldRun("autoremove", Decided)' = ShouldRun("autoremove", Decided)
      BY <1>1, <2>1, <2>2, ShouldRunSame
    <2>4. ToldOps'
      <3>1. ShouldRun("autoremove", Decided) => planned.clears
        BY <1>4, <2>1 DEF ToldOps, Running
      <3>2. QED  BY <1>1, <2>1, <2>3, <3>1 DEF ToldOps
    <2>5. GrownHost'  BY <1>9, <2>1 DEF Purges, Installs
    <2>6. QED  BY <1>8, <2>1, <2>4, <2>5
  <1>15. ASSUME NEW S, NEW next, Run(Without(host, S), next)
         PROVE  \A p \in (Installed(found) \cap Installed(host')) \ AptInstalls :
                   p \in Installed(host) /\ host'.ver[p] = host.ver[p]
    <2> DEFINE g == Without(host, S)
    <2>1. /\ Installed(g) = Installed(host) \ S
          /\ \A p \in Installed(g) : g.ver[p] = host.ver[p]
      BY <1>2, WithoutFacts, WithoutVersions
    <2> HIDE DEF g
    <2>2. Run(g, next)  BY <1>15 DEF g
    <2>3. faults' # faults + 1  OBVIOUS
    <2>4. host' = g  BY <2>2, <2>3 DEF Run, Fault
    <2>5. QED  BY <2>1, <2>4
  <1>16. ASSUME \A p \in (Installed(found) \cap Installed(host')) \ AptInstalls :
                   p \in Installed(host) /\ host'.ver[p] = host.ver[p]
         PROVE  \A p \in (Installed(found) \cap Installed(host')) \ AptInstalls :
                   host'.ver[p] # found.ver[p] => p \in planned.upgrades \/ planned.refreshes
    BY <1>5, <1>16 DEF ToldHost
  <1>17. Installed(found) \ Installed(host) \subseteq
           planned.takes \cup IF planned.clears THEN spec.also ELSE {}
    BY <1>5 DEF ToldHost
  <1>18. CASE Purge
    <2>1. pc = "purging" /\ Decided = would /\ would' = would /\ ran' = ran
      BY <1>18 DEF Purge, Decided
    <2>2. /\ pc' \in {"autoremove", "failed"}
          /\ Installed(host) \ Installed(host') \subseteq Purged(host, spec.purge)
      BY <1>18, PurgeFacts
    <2>3. Decided' = Decided  BY <2>1, <2>2 DEF Decided
    <2>4. ShouldRun("autoremove", Decided)' = ShouldRun("autoremove", Decided)
      BY <1>1, <2>1, <2>3, ShouldRunSame
    <2>5. ToldOps'
      <3>1. ShouldRun("autoremove", Decided) => planned.clears
        BY <1>4, <2>1 DEF ToldOps, Running
      <3>2. QED  BY <1>1, <2>2, <2>4, <3>1 DEF ToldOps
    <2>6. GrownHost'  BY <2>2 DEF GrownHost, Purges, Installs
    <2>7. Purged(host, spec.purge) \cap Installed(found) \subseteq planned.takes
      <3>1. /\ Installed(found) \subseteq Installed(host)
            /\ Manual(found) \subseteq Manual(host)
            /\ Manual(host) \subseteq Manual(found) \cup spec.install
        BY <1>3, <2>1 DEF GrownHost, Purges
      <3>2. spec.install \subseteq Installed(host)
        BY <2>1 DEF RunInv, Installs
      <3>3. Purged(host, spec.purge) \subseteq Declared
        BY <2>1 DEF GuardInv, Allowed
      <3>4. Purged(host, spec.purge) \cap spec.install = {}  BY <1>2, <3>3
      <3>5. Purged(host, spec.purge) \cap Installed(found) \subseteq Purged(found, spec.purge)
        BY <1>2, <3>1, <3>2, <3>4, PurgeForeseen
      <3>6. QED  BY <1>5, <3>5 DEF ToldHost
    <2>8. Installed(found) \ Installed(host') \subseteq
            planned.takes \cup IF planned.clears THEN spec.also ELSE {}
      BY <1>17, <2>2, <2>7
    <2>9. Run(Without(host, Purged(host, spec.purge)), "autoremove")  BY <1>18 DEF Purge
    <2>10. ToldHost'  BY <1>7, <1>15, <1>16, <2>8, <2>9
    <2>11. QED  BY <2>5, <2>6, <2>10
  <1>19. CASE PreviewAutoremove
    <2>1. pc = "autoremove" /\ Decided = would /\ host' = host
          /\ pc' \in {"recapture", "autoremoving", "failed"}
          /\ (pc' = "autoremoving" => ShouldRun("autoremove", would))
      BY <1>19 DEF PreviewAutoremove, Decided
    <2>2. pc' = "autoremoving" => planned.clears
      BY <1>4, <2>1 DEF ToldOps, Running
    <2>3. ToldOps'  BY <1>1, <2>1, <2>2 DEF ToldOps, Running
    <2>4. GrownHost'  BY <2>1 DEF GrownHost, Purges, Installs
    <2>5. QED  BY <1>8, <2>1, <2>3, <2>4
  <1>20. CASE Autoremove
    <2>1. pc = "autoremoving"  BY <1>20 DEF Autoremove
    <2>2. /\ pc' \in {"recapture", "failed"}
          /\ Installed(host) \ Installed(host') \subseteq Unused(host)
      BY <1>20, AutoremoveFacts
    <2>3. planned.clears  BY <1>4, <2>1 DEF ToldOps
    <2>4. Unused(host) \subseteq Declared  BY <2>1 DEF GuardInv, Allowed
    <2>5. Installed(found) \ Installed(host') \subseteq
            planned.takes \cup IF planned.clears THEN spec.also ELSE {}
      BY <1>17, <2>2, <2>3, <2>4 DEF Declared
    <2>6. Run(Without(host, Unused(host)), "recapture")  BY <1>20 DEF Autoremove
    <2>7. ToldHost'  BY <1>7, <1>15, <1>16, <2>5, <2>6
    <2>8. GrownHost'  BY <2>2 DEF GrownHost, Purges, Installs
    <2>9. ToldOps'  BY <2>2 DEF ToldOps, Running
    <2>10. QED  BY <2>7, <2>8, <2>9
  <1>21. CASE Recapture
    <2>1. pc' \in {"done", "failed"} /\ host' = host  BY <1>21 DEF Recapture
    <2>2. GrownHost'  BY <2>1 DEF GrownHost, Purges, Installs
    <2>3. ToldOps'  BY <2>1 DEF ToldOps, Running
    <2>4. QED  BY <1>8, <2>1, <2>2, <2>3
  <1>22. QED
    BY <1>10, <1>11, <1>12, <1>13, <1>14, <1>18, <1>19, <1>20, <1>21 DEF RunStep

LEMMA AheadInvStep ==
    Typed /\ CaptureInv /\ GuardInv /\ RunInv /\ PlanInv /\ AheadInv /\ [Next]_vars => AheadInv'
  <1> SUFFICES ASSUME Typed, CaptureInv, GuardInv, RunInv, PlanInv, AheadInv, [Next]_vars,
                      pc' \in Running \cup {"done", "failed"}, disturbed' = "no", faults' = 0
               PROVE  GrownHost' /\ ToldOps' /\ ToldHost'
    BY DEF AheadInv
  <1>1. faults \in Nat /\ faults <= faults'  BY HostStep DEF Typed
  <1>2. faults = 0 /\ faults' = faults  BY <1>1
  <1>3. CASE Capture
    BY <1>3, AheadCapture
  <1>4. CASE RunStep /\ pc \in Running /\ disturbed = "no"
    <2>1. spec.purge \cap Installed(found) \subseteq planned.takes  BY <1>2, <1>4 DEF PlanInv
    <2>2. Sound(found, index)  BY DEF CaptureInv
    <2>3. QED  BY <1>2, <1>4, <2>1, <2>2, AheadStep
  <1>5. CASE /\ pc' = pc /\ host' = host /\ found' = found /\ spec' = spec /\ disturbed = "no"
             /\ Elapse \/ UNCHANGED vars
    <2>1. pc # "ready"  BY <1>5 DEF Running
    <2>2. UNCHANGED vars
      <3>1. faults' # faults + 1  BY <1>1, <1>2
      <3>2. QED  BY <1>5, <2>1, <3>1 DEF Elapse, Fault
    <2>3. GrownHost /\ ToldOps /\ ToldHost  BY <1>2, <1>5 DEF AheadInv
    <2>4. GrownHost' = GrownHost
      BY <2>2 DEF GrownHost, vars, step, Manual, Installed
    <2>5. ToldOps' = ToldOps
      BY <2>2 DEF ToldOps, vars, step, Installed, Decided, WouldChange, ShouldRun
    <2>6. ToldHost' = ToldHost
      BY <2>2 DEF ToldHost, vars, step, Installed, AptInstalls, Purged, Broken, Unused, Without,
                  Needed, Closed
    <2>7. QED  BY <2>3, <2>4, <2>5, <2>6
  <1>6. QED  BY <1>3, <1>4, <1>5, RunSteps

(* THEOREM: a run that went well leaves what it installs installed and what *)
(* it purges purged (apply, and the guards of its removals).               *)
THEOREM DoneIsDesired == Spec => []DoneMeansDesired
  <1> DEFINE Inv == Typed /\ GuardInv /\ RunInv
  <1>1. Init => Inv
    <2>1. Init => pc = "ready" /\ disturbed = "no"  BY DEF Init
    <2>2. Init => GuardInv /\ RunInv  BY <2>1 DEF GuardInv, RunInv, Running
    <2>3. QED  BY <2>2, TypedInit
  <1>2. Inv /\ [Next]_vars => Inv'  BY TypedStep, GuardInvStep, RunInvStep
  <1>3. Inv => DoneMeansDesired  BY DEF RunInv, DoneMeansDesired, Installs, Purges
  <1>4. QED  BY <1>1, <1>2, <1>3, PTL DEF Spec

LEMMA AheadInvTells == RunInv /\ PlanInv /\ AheadInv => PlanForesees
  <1> SUFFICES ASSUME RunInv, PlanInv, AheadInv, pc \in {"done", "failed"}, disturbed = "no", faults = 0
               PROVE  /\ Installed(host) \ Installed(found) \subseteq planned.adds
                      /\ Installed(found) \ Installed(host) \subseteq
                           planned.takes \cup IF planned.clears THEN spec.also ELSE {}
                      /\ \A p \in (Installed(found) \cap Installed(host)) \ AptInstalls :
                           host.ver[p] # found.ver[p] => p \in planned.upgrades \/ planned.refreshes
                      /\ ~planned.change =>
                           \A p \in Pkgs \ AptInstalls : host.ver[p] = found.ver[p]
    BY DEF PlanForesees
  <1>1. ToldHost  BY DEF AheadInv
  <1>2. (planned.change \/ IdleHost) /\ planned.adds = Needed(spec.install) \ Installed(found)
    BY DEF PlanInv
  <1>3. Installed(host) \ Installed(found) \subseteq Needed(spec.install)  BY DEF RunInv
  <1>4. Installed(host) \ Installed(found) \subseteq planned.adds  BY <1>2, <1>3
  <1>5. ~planned.change => \A p \in Pkgs \ AptInstalls : host.ver[p] = found.ver[p]
    BY <1>2 DEF IdleHost
  <1>6. QED  BY <1>1, <1>4, <1>5 DEF ToldHost

(* THEOREM: a run without a fault adds and upgrades only what its plan      *)
(* announces, but for what apt upgrades of its install list and what an     *)
(* announced update brings to an announced upgrade; it takes only that, or  *)
(* what purge_also_removes allows where an autoremove was announced; and it *)
(* changes nothing but that install list where the plan calls the step      *)
(* unchanged (RenderPlan, apply).                                          *)
THEOREM PlansForesee == Spec => []PlanForesees
  <1> DEFINE Inv == Typed /\ CaptureInv /\ GuardInv /\ RunInv /\ PlanInv /\ AheadInv
  <1>1. Init => Inv
    <2>1. Init => pc = "ready" /\ disturbed = "no"  BY DEF Init
    <2>2. Init => GuardInv /\ RunInv /\ PlanInv /\ AheadInv
      BY <2>1 DEF GuardInv, RunInv, PlanInv, AheadInv, Running
    <2>3. QED  BY <2>2, TypedInit
  <1>2. Inv /\ [Next]_vars => Inv'
    BY TypedStep, CaptureInvStep, GuardInvStep, RunInvStep, PlanInvStep, AheadInvStep
  <1>3. Inv => PlanForesees  BY AheadInvTells
  <1>4. QED  BY <1>1, <1>2, <1>3, PTL DEF Spec

-----------------------------------------------------------------------------
(* The rollback goes through the names from the last one down to todo.      *)
Handled(p) == \E k \in (todo + 1)..Len(Names) : Names[k] = p

UndoInv ==
    (pc \in {"undo", "removing", "undone"} /\ disturbed = "no") =>
        /\ pc = "undone" => todo = 0
        /\ pc = "removing" => Names[todo] \in spec.install /\ before[Names[todo]] = 0
        /\ \A p \in spec.install \ degraded : (before[p] = 0 /\ Handled(p)) => host.ver[p] = 0
        /\ \A p \in Installed(found) :
             p \in Installed(host) \cup degraded \/ (p \in Declared /\ ~Handled(p))
        /\ (after # None /\ faults = 0) =>
             \A p \in spec.purge :
               (\A q \in Targets \ {p} : p \notin Needed({q})) =>
                 IF Handled(p) THEN before[p] \in {0, host.ver[p]} ELSE host.ver[p] = 0

LEMMA HandledFacts ==
    ASSUME Typed
    PROVE  /\ todo = 0 => \A p \in Pkgs : Handled(p)
           /\ todo = Len(Names) => \A p : ~Handled(p)
           /\ \A p : (todo # 0 /\ todo' = todo - 1) => (Handled(p)' <=> Handled(p) \/ p = Names[todo])
           /\ \A p : todo' = todo => (Handled(p)' <=> Handled(p))
  <1>1. Len(Names) \in Nat /\ todo \in 0..Len(Names)  BY NamesFacts DEF Typed
  <1>2. todo = 0 => \A p \in Pkgs : Handled(p)
    BY <1>1, NamesFacts DEF Handled
  <1>3. todo = Len(Names) => \A p : ~Handled(p)
    <2>1. todo = Len(Names) => (todo + 1)..Len(Names) = {}  BY <1>1
    <2>2. QED  BY <2>1 DEF Handled
  <1>4. ASSUME NEW p, todo # 0, todo' = todo - 1
        PROVE  Handled(p)' <=> Handled(p) \/ p = Names[todo]
    <2>1. (todo' + 1)..Len(Names) = {todo} \cup ((todo + 1)..Len(Names))  BY <1>1, <1>4
    <2>2. QED  BY <2>1 DEF Handled
  <1>5. ASSUME NEW p, todo' = todo
        PROVE  Handled(p)' <=> Handled(p)
    BY <1>5 DEF Handled
  <1>6. QED  BY <1>2, <1>3, <1>4, <1>5

(* The captured versions are those of the host that the step found.        *)
LEMMA BeforeFacts ==
    ASSUME Typed, CaptureInv
    PROVE  /\ \A p \in Targets : before[p] = found.ver[p] /\ (before[p] # 0 <=> p \in Installed(found))
           /\ Installed(found) \subseteq Pkgs /\ Closed(Installed(found))
           /\ Targets \subseteq Pkgs /\ Declared \subseteq Targets /\ spec.install \subseteq Targets
           /\ spec.purge \subseteq Declared /\ spec.install \cap Declared = {}
           /\ before # None
  <1>1. Targets \in SUBSET Pkgs /\ spec.install \cap Declared = {}  BY SpecFacts
  <1>2. \A p \in Targets : before[p] = found.ver[p]  BY DEF CaptureInv
  <1>3. Installed(found) \subseteq Pkgs /\ Closed(Installed(found))
        /\ (\A p \in Targets : found.ver[p] # 0 <=> p \in Installed(found))
    BY <1>1 DEF CaptureInv, Sound, Installed
  <1>4. before # None
    <2>1. None \notin [Targets -> 0..2]  BY <1>1, PackagesAssumption
    <2>2. QED  BY <2>1 DEF Typed
  <1>5. QED  BY <1>1, <1>2, <1>3, <1>4 DEF Targets, Declared

(* A rollback begins with nothing done, or with nothing to do.             *)
LEMMA UndoStarts ==
    ASSUME Typed, CaptureInv, RunInv, Rollback, disturbed = "no"
    PROVE  UndoInv'
  <1>1. /\ pc \in {"done", "failed"} /\ pc' = "undo" /\ host' = host /\ found' = found
        /\ before' = before /\ after' = after /\ degraded' = degraded /\ spec' = spec
        /\ todo' = IF before = after THEN 0 ELSE Len(Names)
    BY DEF Rollback, step
  <1>2. /\ Installed(found) \ Installed(host) \subseteq Declared
        /\ pc \notin Purges \cup {"failed"} => spec.purge \cap Installed(host) = {}
    BY <1>1 DEF RunInv
  <1>3. Typed'  BY TypedStep DEF Next
  <1>4. /\ \A p \in Targets : before[p] = found.ver[p] /\ (before[p] # 0 <=> p \in Installed(found))
        /\ Targets \subseteq Pkgs /\ Declared \subseteq Targets /\ spec.install \subseteq Targets
        /\ spec.purge \subseteq Declared /\ before # None
    BY BeforeFacts
  <1>5. Targets' = Targets /\ Declared' = Declared  BY <1>1 DEF Targets, Declared
  <1>6. CASE before = after
    <2>1. pc = "done"  BY <1>1, <1>4, <1>6 DEF CaptureInv
    <2>2. before = Query  BY <1>6, <2>1 DEF CaptureInv
    <2>3. \A p \in Targets : host.ver[p] = before[p]  BY <2>2 DEF Query
    <2>4. \A p \in Installed(found) : p \in Installed(host)
      BY <1>2, <1>4, <2>3 DEF Installed
    <2>5. todo' = 0  BY <1>1, <1>6
    <2>6. \A p \in spec.purge : Handled(p)'
      <3>1. \A k \in 1..Len(Names) : k \in (todo' + 1)..Len(Names)  BY <2>5
      <3>2. \A p \in Pkgs : \E k \in (todo' + 1)..Len(Names) : Names[k] = p
        BY <3>1, NamesFacts
      <3>3. QED  BY <1>4, <3>2 DEF Handled
    <2>7. QED  BY <1>1, <1>4, <1>5, <2>3, <2>4, <2>6 DEF UndoInv
  <1>7. CASE before # after
    <2>1. todo' = Len(Names) /\ Len(Names) \in Nat  BY <1>1, <1>7, NamesFacts
    <2>2. (todo' + 1)..Len(Names) = {}  BY <2>1
    <2>3. \A p : ~Handled(p)'  BY <2>2 DEF Handled
    <2>4. after # None => pc = "done"  BY <1>1 DEF CaptureInv
    <2>5. pc = "done" => pc \notin Purges \cup {"failed"}  BY DEF Purges, Installs
    <2>6. after # None => \A p \in spec.purge : host.ver[p] = 0
      BY <1>2, <1>4, <2>4, <2>5 DEF Installed
    <2>7. QED  BY <1>1, <1>2, <1>5, <2>3, <2>6 DEF UndoInv
  <1>8. QED  BY <1>6, <1>7

(* A package that is brought back is not one that had to go, and changes    *)
(* the version of none but those that it needs.                            *)
LEMMA PresentStep ==
    ASSUME Typed, CaptureInv, UndoInv, pc = "undo", disturbed = "no",
           NEW q \in Pkgs, q \in Declared, before[q] # 0, RestorePresent(q),
           pc' # "stuck"
    PROVE  /\ Sound(host', index) /\ Installed(host) \subseteq Installed(host')
           /\ \A x \in spec.install : before[x] = 0 /\ host.ver[x] = 0 => host'.ver[x] = 0
           /\ q \in Installed(host') \cup degraded'
           /\ (after # None /\ faults' = 0) =>
                /\ \A x \in Pkgs \ {q} : x \notin Needed({q}) => host'.ver[x] = host.ver[x]
                /\ (q \in spec.purge /\ \A x \in Targets \ {q} : q \notin Needed({x}))
                     => host'.ver[q] = before[q]
  <1>1. host \in Hosts /\ index \in {1, 2} /\ faults \in Nat /\ Sound(host, index)
    BY DEF Typed, Sound
  <1>2. /\ \A p \in Targets : before[p] = found.ver[p] /\ (before[p] # 0 <=> p \in Installed(found))
        /\ Installed(found) \subseteq Pkgs /\ Closed(Installed(found))
        /\ q \in Targets /\ spec.install \subseteq Targets /\ Targets \subseteq Pkgs
    BY BeforeFacts
  <1>3. Needed({q}) \subseteq Installed(found)
    <2>1. {q} \in SUBSET Pkgs /\ {q} \subseteq Installed(found) /\ Installed(found) \in SUBSET Pkgs
      BY <1>1, <1>2
    <2>2. QED  BY <1>2, <2>1, NeededFacts
  <1>4. before[q] \in 1..2 /\ before[q] <= index
    <2>1. before[q] \in 0..2  BY <1>2 DEF Typed
    <2>2. found.ver[q] <= index  BY <1>1 DEF CaptureInv, Sound
    <2>3. QED  BY <1>2, <2>1, <2>2
  <1> DEFINE v == before[q]
             plain == With(host, {q})
             pinned == WithPin(host, q, v)
  <1>5. /\ Sound(plain, index) /\ Installed(plain) = Installed(host) \cup Needed({q})
        /\ \A x \in Pkgs : \/ plain.ver[x] = host.ver[x]
                           \/ x \in {q} \cup (Needed({q}) \ Installed(host))
    BY <1>1, WithSound, WithFacts
  <1>6. /\ Sound(pinned, index) /\ Installed(pinned) = Installed(host) \cup Needed({q})
        /\ pinned.ver[q] = v
        /\ \A x \in Pkgs \ {q} : pinned.ver[x] = plain.ver[x]
    <2>1. /\ Sound(pinned, index) /\ Installed(pinned) = Installed(host) \cup Needed({q})
          /\ pinned.ver = [plain.ver EXCEPT ![q] = v]
      BY <1>1, <1>4, PinnedFacts
    <2>2. plain.ver \in [Pkgs -> 0..2]  BY <1>5 DEF Sound, Hosts
    <2> HIDE DEF pinned, plain, v
    <2>3. pinned.ver[q] = v /\ \A x \in Pkgs \ {q} : pinned.ver[x] = plain.ver[x]
      BY <2>1, <2>2
    <2>4. QED  BY <2>1, <2>3
  <1>7. q \in Needed({q})  BY <1>1, NeededFacts
  <1>8. \/ /\ host' = IF PinWorks(q, v) THEN pinned ELSE plain
           /\ Settled /\ UNCHANGED faults
        \/ Fault("command") /\ host' = plain /\ Settled
        \/ Fault("command") /\ host' \in Partly(host, plain) /\ GiveUp(q) /\ pc' \in {"undo", "stuck"}
    BY DEF RestorePresent, GiveUp
  <1> HIDE DEF v, plain, pinned
  <1>9. \/ host' = (IF PinWorks(q, v) THEN pinned ELSE plain) /\ faults' = faults
        \/ host' = plain /\ faults' # 0
        \/ host' \in Partly(host, plain) /\ faults' # 0
    BY <1>1, <1>8 DEF Fault
  <1>10. /\ Sound(host', index) /\ Installed(host) \subseteq Installed(host')
         /\ Installed(host') \subseteq Installed(host) \cup Needed({q})
    <2>1. CASE host' \in {plain, pinned}
      BY <1>5, <1>6, <2>1
    <2>2. CASE host' \in Partly(host, plain)
      <3>1. plain \in Hosts /\ (\A x \in Pkgs : plain.ver[x] <= index)  BY <1>5 DEF Sound
      <3>2. /\ Sound(host', index) /\ Installed(host') \subseteq Installed(host) \cup Installed(plain)
            /\ Installed(host) \cap Installed(plain) \subseteq Installed(host')
        BY <1>1, <2>2, <3>1, PartlyFacts
      <3>3. QED  BY <1>5, <3>2
    <2>3. QED  BY <1>9, <2>1, <2>2
  <1>11. ASSUME NEW x \in spec.install, before[x] = 0, host.ver[x] = 0
         PROVE  host'.ver[x] = 0
    <2>1. x \in Pkgs /\ x \notin Installed(found)  BY <1>2, <1>11
    <2>2. x \notin Installed(host) /\ x \notin Needed({q})  BY <1>3, <1>11, <2>1 DEF Installed
    <2>3. x \notin Installed(host')  BY <1>10, <2>2
    <2>4. QED  BY <2>1, <2>3 DEF Installed
  <1>12. q \in Installed(host') \cup degraded'
    <2>1. CASE host' \in {plain, pinned}
      BY <1>5, <1>6, <1>7, <2>1
    <2>2. CASE host' \in Partly(host, plain) /\ GiveUp(q)
      BY <2>2 DEF GiveUp
    <2>3. QED  BY <1>8, <2>1, <2>2
  <1>13. ASSUME after # None, faults' = 0
         PROVE  /\ \A x \in Pkgs \ {q} : x \notin Needed({q}) => host'.ver[x] = host.ver[x]
                /\ (q \in spec.purge /\ \A x \in Targets \ {q} : q \notin Needed({x}))
                     => host'.ver[q] = v
    <2>1. host' = (IF PinWorks(q, v) THEN pinned ELSE plain) /\ faults = 0
      BY <1>9, <1>13
    <2>2. ASSUME NEW x \in Pkgs \ {q}, x \notin Needed({q})
          PROVE  host'.ver[x] = host.ver[x]
      BY <1>5, <1>6, <2>1, <2>2
    <2>3. ASSUME q \in spec.purge, \A x \in Targets \ {q} : q \notin Needed({x})
          PROVE  host'.ver[q] = v
      <3>1. IF Handled(q) THEN v \in {0, host.ver[q]} ELSE host.ver[q] = 0
        BY <1>13, <2>1, <2>3 DEF UndoInv, v
      <3>2. v \in 1..2 /\ v <= index  BY <1>4 DEF v
      <3>3. host.ver[q] = v \/ host.ver[q] = 0  BY <3>1, <3>2
      <3>4. PinWorks(q, v)  BY <3>2, <3>3 DEF PinWorks
      <3>5. QED  BY <1>6, <2>1, <3>4
    <2>4. QED  BY <2>2, <2>3
  <1>14. QED  BY <1>10, <1>11, <1>12, <1>13 DEF v

LEMMA UndoRestore ==
    ASSUME Typed, CaptureInv, UndoInv, RestoreObject, disturbed = "no", pc' # "stuck"
    PROVE  UndoInv'
  <1> DEFINE q == Names[todo]
  <1>1. /\ pc = "undo" /\ todo \in 1..Len(Names) /\ todo # 0 /\ q \in Pkgs
        /\ Installed(host) \subseteq Installed(host')
        /\ todo' \in {todo - 1, todo} /\ pc' \in {"undo", "removing"}
    BY RestoreFacts, NamesFacts DEF RestoreObject
  <1>2. /\ found' = found /\ before' = before /\ after' = after /\ spec' = spec
        /\ Targets' = Targets /\ Declared' = Declared
    BY DEF RestoreObject, step, Targets, Declared
  <1>3. /\ \A p \in Targets : before[p] = found.ver[p] /\ (before[p] # 0 <=> p \in Installed(found))
        /\ Installed(found) \subseteq Pkgs
        /\ Targets \subseteq Pkgs /\ Declared \subseteq Targets /\ spec.install \subseteq Targets
        /\ spec.purge \subseteq Declared /\ spec.install \cap Declared = {}
    BY BeforeFacts
  <1>4. /\ \A p : todo' = todo - 1 => (Handled(p)' <=> Handled(p) \/ p = q)
        /\ \A p : todo' = todo => (Handled(p)' <=> Handled(p))
    BY <1>1, HandledFacts
  <1>5. /\ \A p \in spec.install \ degraded : (before[p] = 0 /\ Handled(p)) => host.ver[p] = 0
        /\ \A p \in Installed(found) :
             p \in Installed(host) \cup degraded \/ (p \in Declared /\ ~Handled(p))
        /\ (after # None /\ faults = 0) =>
             \A p \in spec.purge :
               (\A x \in Targets \ {p} : p \notin Needed({x})) =>
                 IF Handled(p) THEN before[p] \in {0, host.ver[p]} ELSE host.ver[p] = 0
    BY <1>1 DEF UndoInv
  <1>6. faults \in Nat /\ faults' \in Nat /\ faults <= faults'  BY HostStep DEF Typed, Next
  <1>7. faults' = 0 => faults = 0  BY <1>6
  <1> HIDE DEF q
  <1>8. CASE q \in spec.install /\ before[q] = 0
    <2>1. RestoreAbsent(q)  BY <1>8 DEF RestoreObject, q
    <2>2. host' = host  BY <2>1 DEF RestoreAbsent
    <2>3. \/ pc' = "removing" /\ todo' = todo /\ degraded' = degraded
          \/ pc' = "undo" /\ todo' = todo - 1 /\ degraded' = degraded \cup {q}
      BY <1>1, <2>1 DEF RestoreAbsent, GiveUp
    <2>4. q \notin spec.purge  BY <1>3, <1>8
    <2>5. CASE pc' = "removing" /\ todo' = todo /\ degraded' = degraded
      <3>1. (Names[todo] \in spec.install /\ before[Names[todo]] = 0)'
        BY <1>2, <1>8, <2>5 DEF q
      <3>2. QED  BY <1>2, <1>4, <1>5, <1>7, <2>2, <2>5, <3>1 DEF UndoInv
    <2>6. CASE pc' = "undo" /\ todo' = todo - 1 /\ degraded' = degraded \cup {q}
      <3>1. \A p : Handled(p)' <=> Handled(p) \/ p = q  BY <1>4, <2>6
      <3>2. \A p \in spec.install \ degraded' : (before[p] = 0 /\ Handled(p)') => host'.ver[p] = 0
        BY <1>5, <2>2, <2>6, <3>1
      <3>3. \A p \in Installed(found) :
              p \in Installed(host') \cup degraded' \/ (p \in Declared /\ ~Handled(p)')
        BY <1>5, <2>2, <2>6, <3>1
      <3>4. (after # None /\ faults' = 0) =>
              \A p \in spec.purge :
                (\A x \in Targets \ {p} : p \notin Needed({x})) =>
                  IF Handled(p)' THEN before[p] \in {0, host'.ver[p]} ELSE host'.ver[p] = 0
        BY <1>5, <1>7, <2>2, <2>4, <3>1
      <3>5. QED  BY <1>2, <2>6, <3>2, <3>3, <3>4 DEF UndoInv
    <2>7. QED  BY <2>3, <2>5, <2>6
  <1>9. CASE q \in Declared /\ before[q] # 0
    <2>1. ~(q \in spec.install /\ before[q] = 0)  BY <1>9
    <2>2. RestorePresent(q)  BY <1>9, <2>1 DEF RestoreObject, q
    <2>3. /\ \A x \in spec.install : before[x] = 0 /\ host.ver[x] = 0 => host'.ver[x] = 0
          /\ q \in Installed(host') \cup degraded'
          /\ (after # None /\ faults' = 0) =>
               /\ \A x \in Pkgs \ {q} : x \notin Needed({q}) => host'.ver[x] = host.ver[x]
               /\ (q \in spec.purge /\ \A x \in Targets \ {q} : q \notin Needed({x}))
                    => host'.ver[q] = before[q]
      BY <1>1, <1>9, <2>2, PresentStep DEF q
    <2>4. pc' = "undo" /\ todo' = todo - 1 /\ degraded \subseteq degraded'
      BY <1>1, <2>2 DEF RestorePresent, Settled, GiveUp
    <2>5. \A p : Handled(p)' <=> Handled(p) \/ p = q  BY <1>4, <2>4
    <2>6. q \notin spec.install /\ q \in Targets  BY <1>3, <1>9
    <2>7. \A p \in spec.install \ degraded' : (before[p] = 0 /\ Handled(p)') => host'.ver[p] = 0
      BY <1>5, <2>3, <2>4, <2>5, <2>6
    <2>8. \A p \in Installed(found) :
            p \in Installed(host') \cup degraded' \/ (p \in Declared /\ ~Handled(p)')
      BY <1>1, <1>5, <2>3, <2>4, <2>5
    <2>9. ASSUME after # None, faults' = 0, NEW p \in spec.purge,
                 \A x \in Targets \ {p} : p \notin Needed({x})
          PROVE  IF Handled(p)' THEN before[p] \in {0, host'.ver[p]} ELSE host'.ver[p] = 0
      <3>1. CASE p = q
        <4>1. host'.ver[q] = before[q]  BY <2>3, <2>9, <3>1
        <4>2. Handled(p)'  BY <2>5, <3>1
        <4>3. QED  BY <3>1, <4>1, <4>2
      <3>2. CASE p # q
        <4>1. p \notin Needed({q})  BY <2>6, <2>9, <3>2
        <4>2. host'.ver[p] = host.ver[p]  BY <1>3, <2>3, <2>9, <3>2, <4>1
        <4>3. IF Handled(p) THEN before[p] \in {0, host.ver[p]} ELSE host.ver[p] = 0
          BY <1>5, <1>7, <2>9
        <4>4. Handled(p)' <=> Handled(p)  BY <2>5, <3>2
        <4>5. QED  BY <4>2, <4>3, <4>4
      <3>3. QED  BY <3>1, <3>2
    <2>10. QED  BY <1>2, <2>4, <2>7, <2>8, <2>9 DEF UndoInv
  <1>10. CASE ~(q \in Declared /\ before[q] # 0) /\ ~(q \in spec.install /\ before[q] = 0)
    <2>1. Settled /\ UNCHANGED <<host, faults>>  BY <1>10 DEF RestoreObject, q
    <2>2. pc' = "undo" /\ todo' = todo - 1 /\ degraded' = degraded /\ host' = host
      BY <2>1 DEF Settled
    <2>3. \A p : Handled(p)' <=> Handled(p) \/ p = q  BY <1>4, <2>2
    <2>4. \A p \in spec.install \ degraded' : (before[p] = 0 /\ Handled(p)') => host'.ver[p] = 0
      BY <1>5, <1>10, <2>2, <2>3
    <2>5. \A p \in Installed(found) :
            p \in Installed(host') \cup degraded' \/ (p \in Declared /\ ~Handled(p)')
      BY <1>3, <1>5, <1>10, <2>2, <2>3
    <2>6. ASSUME after # None, faults' = 0, NEW p \in spec.purge,
                 \A x \in Targets \ {p} : p \notin Needed({x})
          PROVE  IF Handled(p)' THEN before[p] \in {0, host'.ver[p]} ELSE host'.ver[p] = 0
      <3>1. CASE p = q
        <4>1. before[p] = 0  BY <1>3, <1>10, <2>6, <3>1
        <4>2. Handled(p)'  BY <2>3, <3>1
        <4>3. QED  BY <4>1, <4>2
      <3>2. CASE p # q
        <4>1. IF Handled(p) THEN before[p] \in {0, host.ver[p]} ELSE host.ver[p] = 0
          BY <1>5, <1>7, <2>6
        <4>2. QED  BY <2>2, <2>3, <3>2, <4>1
      <3>3. QED  BY <3>1, <3>2
    <2>7. QED  BY <1>2, <2>2, <2>4, <2>5, <2>6 DEF UndoInv
  <1>11. QED  BY <1>8, <1>9, <1>10

LEMMA UndoRemove ==
    ASSUME Typed, CaptureInv, GuardInv, UndoInv, RemoveObject, disturbed = "no", pc' # "stuck"
    PROVE  UndoInv'
  <1> DEFINE q == Names[todo]
  <1>1. /\ pc = "removing" /\ todo \in 1..Len(Names) /\ todo # 0 /\ q \in Pkgs
        /\ Sound(host', index) /\ Installed(host') \subseteq Installed(host)
        /\ Installed(host) \ Installed(host') \subseteq Broken(host, {q})
        /\ pc' = "undo"
        /\ \/ Settled /\ faults' = faults /\ q \notin Installed(host')
           \/ Fault("command") /\ GiveUp(q)
    <2>1. todo \in 1..Len(Names) /\ pc' = "undo"  BY RemoveFacts
    <2>2. todo # 0 /\ q \in Pkgs  BY <2>1, NamesFacts
    <2>3. pc = "removing"  BY DEF RemoveObject
    <2>4. QED  BY <2>1, <2>2, <2>3, RemoveFacts
  <1>2. /\ found' = found /\ before' = before /\ after' = after /\ spec' = spec
        /\ Targets' = Targets /\ Declared' = Declared
    BY DEF RemoveObject, step, Targets, Declared
  <1>3. /\ \A p \in Targets : before[p] = found.ver[p] /\ (before[p] # 0 <=> p \in Installed(found))
        /\ Targets \subseteq Pkgs /\ Declared \subseteq Targets /\ spec.install \subseteq Targets
        /\ spec.purge \subseteq Declared /\ spec.install \cap Declared = {}
    BY BeforeFacts
  <1>4. Broken(host, {q}) \subseteq {q}  BY <1>1 DEF GuardInv
  <1>5. q \in spec.install /\ before[q] = 0  BY <1>1 DEF UndoInv
  <1>6. todo' = todo - 1  BY <1>1 DEF Settled, GiveUp
  <1>7. \A p : Handled(p)' <=> Handled(p) \/ p = q  BY <1>1, <1>6, HandledFacts
  <1>8. /\ \A p \in spec.install \ degraded : (before[p] = 0 /\ Handled(p)) => host.ver[p] = 0
        /\ \A p \in Installed(found) :
             p \in Installed(host) \cup degraded \/ (p \in Declared /\ ~Handled(p))
        /\ (after # None /\ faults = 0) =>
             \A p \in spec.purge :
               (\A x \in Targets \ {p} : p \notin Needed({x})) =>
                 IF Handled(p) THEN before[p] \in {0, host.ver[p]} ELSE host.ver[p] = 0
    BY <1>1 DEF UndoInv
  <1>9. faults \in Nat /\ faults' \in Nat /\ faults <= faults'  BY HostStep DEF Typed, Next
  <1>10. degraded \subseteq degraded' /\ (q \in degraded' \/ q \notin Installed(host'))
    BY <1>1 DEF Settled, GiveUp
  <1> HIDE DEF q
  <1>11. \A p \in spec.install \ degraded' : (before[p] = 0 /\ Handled(p)') => host'.ver[p] = 0
    <2>1. SUFFICES ASSUME NEW p \in spec.install \ degraded', before[p] = 0, Handled(p) \/ p = q
                   PROVE  p \notin Installed(host')
      BY <1>3, <1>7 DEF Installed
    <2>2. CASE p = q
      BY <1>10, <2>1, <2>2
    <2>3. CASE Handled(p)
      <3>1. host.ver[p] = 0  BY <1>8, <1>10, <2>1, <2>3
      <3>2. QED  BY <1>1, <3>1 DEF Installed
    <2>4. QED  BY <2>1, <2>2, <2>3
  <1>12. \A p \in Installed(found) :
           p \in Installed(host') \cup degraded' \/ (p \in Declared /\ ~Handled(p)')
    <2>1. q \notin Installed(found)  BY <1>3, <1>5
    <2>2. \A p \in Installed(host) : p # q => p \in Installed(host')  BY <1>1, <1>4
    <2>3. QED  BY <1>7, <1>8, <1>10, <2>1, <2>2
  <1>13. ASSUME after # None, faults' = 0, NEW p \in spec.purge,
                \A x \in Targets \ {p} : p \notin Needed({x})
         PROVE  IF Handled(p)' THEN before[p] \in {0, host'.ver[p]} ELSE host'.ver[p] = 0
    <2>1. p # q /\ p \in Pkgs  BY <1>3, <1>5, <1>13
    <2>2. faults = 0 /\ ~Fault("command")  BY <1>9, <1>13 DEF Fault
    <2>3. host' = Without(host, Broken(host, {q}))  BY <2>2 DEF RemoveObject, q
    <2>4. p \notin Broken(host, {q}) /\ host \in Hosts  BY <1>4, <2>1 DEF Typed, Sound
    <2>5. host'.ver[p] = host.ver[p]  BY <2>1, <2>3, <2>4, WithoutFacts
    <2>6. IF Handled(p) THEN before[p] \in {0, host.ver[p]} ELSE host.ver[p] = 0
      BY <1>8, <1>13, <2>2
    <2>7. QED  BY <1>7, <2>1, <2>5, <2>6
  <1>14. QED  BY <1>1, <1>2, <1>11, <1>12, <1>13 DEF UndoInv

LEMMA UndoInvStep ==
    Typed /\ CaptureInv /\ GuardInv /\ RunInv /\ UndoInv /\ [Next]_vars => UndoInv'
  <1> SUFFICES ASSUME Typed, CaptureInv, GuardInv, RunInv, UndoInv, [Next]_vars,
                      pc' \in {"undo", "removing", "undone"}, disturbed' = "no"
               PROVE  UndoInv'
    BY DEF UndoInv
  <1>1. pc' # "stuck" /\ ~Edit  BY EditFacts
  <1>2. CASE Rollback
    <2>1. disturbed = "no"  BY <1>2 DEF Rollback
    <2>2. QED  BY <1>2, <2>1, UndoStarts
  <1>3. CASE RestoreObject
    <2>1. disturbed = "no"  BY <1>3 DEF RestoreObject
    <2>2. QED  BY <1>1, <1>3, <2>1, UndoRestore
  <1>4. CASE RemoveObject
    <2>1. disturbed = "no"  BY <1>4 DEF RemoveObject
    <2>2. QED  BY <1>1, <1>4, <2>1, UndoRemove
  <1>5. CASE Undone \/ Elapse \/ UNCHANGED vars
    <2>1. /\ host' = host /\ found' = found /\ before' = before /\ after' = after
          /\ spec' = spec /\ degraded' = degraded /\ todo' = todo /\ disturbed' = disturbed
      BY <1>5 DEF Undone, Elapse, vars, step
    <2>2. Targets' = Targets /\ Declared' = Declared  BY <2>1 DEF Targets, Declared
    <2>3. \A p : Handled(p)' <=> Handled(p)  BY <2>1, HandledFacts
    <2>4. faults \in Nat /\ faults' \in Nat /\ faults <= faults'  BY HostStep DEF Typed
    <2>5. faults' = 0 => faults = 0  BY <2>4
    <2>6. pc' = pc \/ (pc = "undo" /\ pc' = "undone" /\ todo = 0)
      BY <1>5 DEF Undone, Elapse, vars
    <2>7. QED  BY <2>1, <2>2, <2>3, <2>5, <2>6 DEF UndoInv
  <1>6. CASE RunStep \/ Capture \/ StartOver
    <2>1. pc' \in Running \cup {"done", "failed", "ready"}
      <3>1. CASE Update \/ Upgrade \/ Install \/ Purge \/ Autoremove
        BY <3>1, UpdateFacts, UpgradeFacts, InstallFacts, PurgeFacts, AutoremoveFacts
        DEF Running
      <3>2. CASE Capture \/ CheckLock \/ PreviewPurge \/ PreviewAutoremove \/ Recapture \/ StartOver
        BY <3>2 DEF Capture, CheckLock, PreviewPurge, PreviewAutoremove, Recapture, StartOver,
                    Running
      <3>3. QED  BY <1>6, <3>1, <3>2 DEF RunStep
    <2>2. QED  BY <2>1 DEF Running
  <1>7. QED  BY <1>1, <1>2, <1>3, <1>4, <1>5, <1>6 DEF Next, RunStep

(* THEOREM: an undone run that nobody disturbed left nothing installed that *)
(* it had been asked to install, and everything that was there, but for the *)
(* objects it reports as degraded; after a run that went well, and with no  *)
(* fault, a purged package that no other target needs has its version back  *)
(* (restore, capturedRollbackMode).                                        *)
THEOREM UndoneIsBefore == Spec => []UndoneMeansBefore
  <1> DEFINE Inv == Typed /\ CaptureInv /\ GuardInv /\ RunInv /\ UndoInv
  <1>1. Init => Inv
    <2>1. Init => pc = "ready" /\ disturbed = "no"  BY DEF Init
    <2>2. Init => GuardInv /\ RunInv /\ UndoInv
      BY <2>1 DEF GuardInv, RunInv, UndoInv, Running
    <2>3. QED  BY <2>2, TypedInit
  <1>2. Inv /\ [Next]_vars => Inv'
    BY TypedStep, CaptureInvStep, GuardInvStep, RunInvStep, UndoInvStep
  <1>3. Inv => UndoneMeansBefore
    <2> SUFFICES ASSUME Inv, pc = "undone", disturbed = "no"
                 PROVE  /\ \A p \in spec.install \ degraded : before[p] = 0 => host.ver[p] = 0
                        /\ Installed(found) \subseteq Installed(host) \cup degraded
                        /\ (after # None /\ faults = 0) =>
                             \A p \in spec.purge :
                               (\A q \in Targets \ {p} : p \notin Needed({q}))
                                 => before[p] \in {0, host.ver[p]}
      BY DEF UndoneMeansBefore
    <2>1. todo = 0  BY DEF UndoInv
    <2>2. \A p \in Pkgs : Handled(p)  BY <2>1, HandledFacts
    <2>3. spec.install \subseteq Pkgs /\ spec.purge \subseteq Pkgs /\ Installed(found) \subseteq Pkgs
      BY SpecFacts, BeforeFacts
    <2>4. QED  BY <2>2, <2>3 DEF UndoInv
  <1>4. QED  BY <1>1, <1>2, <1>3, PTL DEF Spec
=============================================================================
