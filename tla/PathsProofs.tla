----------------------------- MODULE PathsProofs -----------------------------
(***************************************************************************)
(* What a run of any profile and its rollback make of one path: proofs for *)
(* any files, any profiles of any length and any number of faults; and     *)
(* what the diff of a plan shows, for any two texts.                       *)
(***************************************************************************)
EXTENDS Paths, TLAPS, WellFoundedInduction, SequenceTheorems

Found == Files \cup {Gone}

Commands ==
    [do : {"install"}, arg : Files] \cup [do : {"rm"}, arg : {Gone}]
    \cup [do : {"chmod"}, arg : Modes] \cup [do : {"chown"}, arg : Owners]
    \cup [do : {"chattr-", "chattr+"}, arg : SUBSET Letters]

Chattr(do, letters) == <<[do |-> do, arg |-> letters]>>

-----------------------------------------------------------------------------
(* Files, and sequences of commands.                                       *)
LEMMA FileFacts ==
    ASSUME NEW f \in Files
    PROVE  /\ f.content \in Contents /\ f.owner \in Owners /\ f.attrs \subseteq Letters
           /\ f.mode \in Modes /\ f.mode.perm \in Perms /\ f.mode.suid \in BOOLEAN
           /\ f.mode = [perm |-> f.mode.perm, suid |-> f.mode.suid]
           /\ f # Gone
  BY PathAssumption DEF Files, Modes

LEMMA SameFile ==
    ASSUME NEW f \in Files, NEW g \in Files, f.content = g.content, f.mode = g.mode,
           f.owner = g.owner, f.attrs = g.attrs
    PROVE  f = g
  <1>1. /\ f = [content |-> f.content, mode |-> f.mode, owner |-> f.owner, attrs |-> f.attrs]
        /\ g = [content |-> g.content, mode |-> g.mode, owner |-> g.owner, attrs |-> g.attrs]
    BY DEF Files
  <1>2. QED  BY <1>1

LEMMA PlainFacts ==
    ASSUME NEW m \in Modes
    PROVE  /\ Plain(m) \in Modes /\ Plain(m).suid = FALSE
           /\ m.suid = FALSE => Plain(m) = m
           /\ m.suid \in BOOLEAN
  BY PathAssumption DEF Plain, Modes

(* What each command makes of a file that it is not refused on.            *)
LEMMA Installed ==
    ASSUME NEW g \in Found, NEW f, NEW do \in {"install", "rm"}
    PROVE  /\ Effect([do |-> do, arg |-> g], f) = g
           /\ Refused([do |-> do, arg |-> g], f) <=> f # Gone /\ f.attrs # {}
  BY DEF Effect, Refused

LEMMA Chmodded ==
    ASSUME NEW f \in Files, NEW m \in Modes
    PROVE  LET c == [do |-> "chmod", arg |-> m]
               g == Effect(c, f)
           IN /\ g \in Files /\ g.mode = m
              /\ g.content = f.content /\ g.owner = f.owner /\ g.attrs = f.attrs
              /\ Refused(c, f) <=> f.attrs # {}
  <1> DEFINE c == [do |-> "chmod", arg |-> m]
  <1>1. Effect(c, f) = [f EXCEPT !.mode = m]  BY DEF Effect
  <1>2. [f EXCEPT !.mode = m] \in Files  BY DEF Files
  <1>3. /\ [f EXCEPT !.mode = m].mode = m /\ [f EXCEPT !.mode = m].content = f.content
        /\ [f EXCEPT !.mode = m].owner = f.owner /\ [f EXCEPT !.mode = m].attrs = f.attrs
    BY DEF Files
  <1>4. Refused(c, f) <=> f.attrs # {}  BY FileFacts DEF Refused
  <1>5. QED  BY <1>1, <1>2, <1>3, <1>4

LEMMA Chowned ==
    ASSUME NEW f \in Files, NEW o \in Owners
    PROVE  LET c == [do |-> "chown", arg |-> o]
               g == Effect(c, f)
           IN /\ g \in Files /\ g.owner = o /\ g.mode = Plain(f.mode)
              /\ g.content = f.content /\ g.attrs = f.attrs
              /\ Refused(c, f) <=> f.attrs # {}
  <1> DEFINE c == [do |-> "chown", arg |-> o]
             g == [f EXCEPT !.owner = o, !.mode = Plain(@)]
  <1>1. Effect(c, f) = g  BY DEF Effect
  <1>2. g = [content |-> f.content, mode |-> Plain(f.mode), owner |-> o, attrs |-> f.attrs]
    <2> DEFINE h == [f EXCEPT !.owner = o]
    <2>1. h = [content |-> f.content, mode |-> f.mode, owner |-> o, attrs |-> f.attrs]
      BY DEF Files
    <2> HIDE DEF h
    <2>2. [h EXCEPT !.mode = Plain(f.mode)]
            = [content |-> f.content, mode |-> Plain(f.mode), owner |-> o, attrs |-> f.attrs]
      BY <2>1
    <2>3. g = [h EXCEPT !.mode = Plain(f.mode)]  BY DEF h
    <2>4. QED  BY <2>2, <2>3
  <1>3. g \in Files  BY <1>2, FileFacts, PlainFacts DEF Files
  <1>4. Refused(c, f) <=> f.attrs # {}  BY FileFacts DEF Refused
  <1> HIDE DEF g
  <1>5. QED  BY <1>1, <1>2, <1>3, <1>4

LEMMA Chattred ==
    ASSUME NEW f \in Files, NEW a \in SUBSET Letters, NEW do \in {"chattr-", "chattr+"}
    PROVE  LET c == [do |-> do, arg |-> a]
               g == Effect(c, f)
           IN /\ g \in Files /\ g.content = f.content /\ g.mode = f.mode /\ g.owner = f.owner
              /\ g.attrs = IF do = "chattr-" THEN f.attrs \ a ELSE f.attrs \cup a
              /\ ~Refused(c, f)
  <1> DEFINE c == [do |-> do, arg |-> a]
             b == IF do = "chattr-" THEN f.attrs \ a ELSE f.attrs \cup a
             g == [f EXCEPT !.attrs = b]
  <1>1. Effect(c, f) = g  BY DEF Effect, Files
  <1>2. b \in SUBSET Letters  BY FileFacts
  <1> HIDE DEF b
  <1>3. g = [content |-> f.content, mode |-> f.mode, owner |-> f.owner, attrs |-> b]
    BY DEF Files
  <1>4. g \in Files  BY <1>2, <1>3, FileFacts DEF Files
  <1>5. ~Refused(c, f)  BY FileFacts DEF Refused
  <1> HIDE DEF g
  <1>6. QED  BY <1>1, <1>3, <1>4, <1>5 DEF b

LEMMA EffectType ==
    ASSUME NEW c \in Commands, NEW f \in Found, ~Refused(c, f)
    PROVE  /\ Effect(c, f) \in Found
           /\ c.do \notin {"install", "rm"} =>
                f # Gone /\ Effect(c, f) # Gone /\ Effect(c, f).content = f.content
  <1> DEFINE a == c.arg
  <1>1. c.do \notin {"install", "rm"} => f # Gone  BY DEF Refused
  <1>2. CASE c \in [do : {"install"}, arg : Files] \cup [do : {"rm"}, arg : {Gone}]
    BY <1>2 DEF Effect, Found
  <1>3. CASE c \in [do : {"chmod"}, arg : Modes]
    <2>1. c = [do |-> "chmod", arg |-> a] /\ a \in Modes /\ f \in Files
      BY <1>1, <1>3 DEF Found
    <2> HIDE DEF a
    <2>2. Effect(c, f) \in Files /\ Effect(c, f).content = f.content  BY <2>1, Chmodded
    <2>3. QED  BY <1>1, <2>1, <2>2, FileFacts DEF Found
  <1>4. CASE c \in [do : {"chown"}, arg : Owners]
    <2>1. c = [do |-> "chown", arg |-> a] /\ a \in Owners /\ f \in Files
      BY <1>1, <1>4 DEF Found
    <2> HIDE DEF a
    <2>2. Effect(c, f) \in Files /\ Effect(c, f).content = f.content  BY <2>1, Chowned
    <2>3. QED  BY <1>1, <2>1, <2>2, FileFacts DEF Found
  <1>5. CASE c \in [do : {"chattr-", "chattr+"}, arg : SUBSET Letters]
    <2> DEFINE d == c.do
    <2>1. c = [do |-> d, arg |-> a] /\ a \in SUBSET Letters /\ f \in Files /\ d \in {"chattr-", "chattr+"}
      BY <1>1, <1>5 DEF Found
    <2> HIDE DEF a, d
    <2>2. Effect([do |-> d, arg |-> a], f) \in Files
          /\ Effect([do |-> d, arg |-> a], f).content = f.content
      <3>1. CASE d = "chattr-"  BY <2>1, <3>1, Chattred
      <3>2. CASE d = "chattr+"  BY <2>1, <3>2, Chattred
      <3>3. QED  BY <2>1, <3>1, <3>2
    <2>3. QED  BY <1>1, <2>1, <2>2, FileFacts DEF Found
  <1>6. QED  BY <1>2, <1>3, <1>4, <1>5 DEF Commands

LEMMA Single ==
    ASSUME NEW x
    PROVE  <<x>> # <<>> /\ Head(<<x>>) = x /\ Tail(<<x>>) = <<>>
  OBVIOUS

LEMMA HeadOf ==
    ASSUME NEW S, NEW x \in S, NEW s \in Seq(S)
    PROVE  /\ <<x>> \o s \in Seq(S) /\ <<x>> \o s # <<>>
           /\ Head(<<x>> \o s) = x /\ Tail(<<x>> \o s) = s
  <1>1. <<x>> \in Seq(S) /\ <<x>> \o s \in Seq(S) /\ Len(<<x>> \o s) = Len(s) + 1
    OBVIOUS
  <1>2. Head(<<x>> \o s) = x  BY <1>1
  <1>3. Tail(<<x>> \o s) \in Seq(S) /\ Len(Tail(<<x>> \o s)) = Len(s)  BY <1>1
  <1>4. \A k \in 1..Len(s) : Tail(<<x>> \o s)[k] = s[k]  BY <1>1
  <1>5. QED  BY <1>1, <1>2, <1>3, <1>4

LEMMA CommandSeqs ==
    ASSUME NEW S
    PROVE  /\ \A s, t \in Seq(S) : s \o t \in Seq(S)
           /\ \A s \in Seq(S) : s \o <<>> = s /\ <<>> \o s = s
           /\ \A x \in S : <<x>> \in Seq(S)
           /\ \A x \in S, s, t \in Seq(S) : (<<x>> \o s) \o t = <<x>> \o (s \o t)
           /\ <<>> \in Seq(S)
  OBVIOUS
LEMMA WiderSeq ==
    ASSUME NEW S, NEW T, S \subseteq T
    PROVE  Seq(S) \subseteq Seq(T)
  OBVIOUS

LEMMA FourInSeq ==
    ASSUME NEW S, NEW p \in Seq(S), NEW q \in Seq(S), NEW r \in Seq(S), NEW s \in Seq(S)
    PROVE  p \o q \o r \o s \in Seq(S)
  <1>1. p \o q \in Seq(S)  OBVIOUS
  <1>2. p \o q \o r \in Seq(S)  BY <1>1
  <1>3. QED  BY <1>2

-----------------------------------------------------------------------------
(* What the plugins read, and the commands they run.                       *)
LEMMA SameNames ==
    /\ FM!Modes = Modes /\ FM!Letters = Letters /\ FM!Files = Files
    /\ TP!Modes = Modes /\ TP!Files = Files
  <1>1. FM!Modes = Modes /\ FM!Letters = Letters /\ TP!Modes = Modes /\ TP!Letters = Letters
    BY DEF FM!Modes, FM!Letters, TP!Modes, TP!Letters, Modes, Letters
  <1>2. QED  BY <1>1 DEF FM!Files, TP!Files, Files

LEMMA StepTypes ==
    ASSUME profile \in Profiles, NEW k \in DOMAIN profile
    PROVE  /\ profile \in Seq(FM!Specs \cup TP!Specs) /\ profile # <<>>
           /\ profile[k] \in IF IsTemplate(k) THEN TP!Specs ELSE FM!Specs
  <1>1. profile \in Seq(FM!Specs \cup TP!Specs) /\ profile # <<>>  BY PathsAssumption
  <1>2. profile[k] \in FM!Specs \cup TP!Specs  BY <1>1
  <1>3. QED  BY <1>1, <1>2 DEF IsTemplate, FM!Specs, TP!Specs

LEMMA SnapshotFacts ==
    ASSUME NEW f \in Files
    PROVE  /\ TP!Snapshot(f) = [content |-> f.content, mode |-> f.mode, owner |-> f.owner]
           /\ FM!Snapshot(f) = [mode |-> f.mode, owner |-> f.owner, attrs |-> f.attrs]
           /\ TP!Snapshot(f) \notin {Gone, Uncaptured} /\ FM!Snapshot(f) \notin {Gone, Uncaptured}
  BY FileFacts, PathsAssumption DEF TP!Snapshot, FM!Snapshot, FM!Meta

LEMMA GoneSnapshot == \A k : Snapshot(k, Gone) = Gone
  BY DEF Snapshot, TP!Snapshot, FM!Snapshot

LEMMA SnapshotTells ==
    ASSUME NEW k, NEW f \in Found, NEW g \in Found
    PROVE  /\ Snapshot(k, f) # Uncaptured
           /\ Snapshot(k, f) = Gone <=> f = Gone
           /\ /\ Snapshot(k, f) = Snapshot(k, g)
              /\ IF IsTemplate(k) THEN f # Gone /\ g # Gone => f.attrs = g.attrs
                 ELSE f # Gone /\ g # Gone => f.content = g.content
              => f = g
  <1>1. CASE f = Gone \/ g = Gone
    BY <1>1, GoneSnapshot, SnapshotFacts, PathsAssumption DEF Found, Snapshot
  <1>2. CASE f \in Files /\ g \in Files
    <2>1. Snapshot(k, f) \notin {Gone, Uncaptured} /\ f # Gone /\ g # Gone
      BY <1>2, SnapshotFacts, FileFacts DEF Snapshot
    <2>2. ASSUME Snapshot(k, f) = Snapshot(k, g)
          PROVE  /\ f.mode = g.mode /\ f.owner = g.owner
                 /\ IF IsTemplate(k) THEN f.content = g.content ELSE f.attrs = g.attrs
      BY <1>2, <2>2, SnapshotFacts DEF Snapshot
    <2>3. QED  BY <1>2, <2>1, <2>2, SameFile
  <1>3. QED  BY <1>1, <1>2 DEF Found

LEMMA ManagedFacts ==
    ASSUME NEW a \in SUBSET Letters
    PROVE  /\ a = {} => FM!ManagedAttrs(a) = Chattr("chattr-", Letters)
           /\ a = Letters => FM!ManagedAttrs(a) = Chattr("chattr+", a)
           /\ a # {} /\ a # Letters =>
                FM!ManagedAttrs(a) = Chattr("chattr-", Letters \ a) \o Chattr("chattr+", a)
           /\ FM!ManagedAttrs(a) \in Seq([do : {"chattr-", "chattr+"}, arg : SUBSET Letters])
  <1> DEFINE S == [do : {"chattr-", "chattr+"}, arg : SUBSET Letters]
             minus == [do |-> "chattr-", arg |-> Letters \ a]
             plus == [do |-> "chattr+", arg |-> a]
  <1>1. FM!ManagedAttrs(a) = If(a # Letters, <<minus>>) \o If(a # {}, <<plus>>)
    BY SameNames DEF FM!ManagedAttrs, FM!If, If
  <1>2. minus \in S /\ plus \in S  OBVIOUS
  <1>3. a = {} => Letters \ a = Letters  OBVIOUS
  <1>4. Letters # {}  BY DEF Letters
  <1> HIDE DEF S, minus, plus
  <1>5. <<minus>> \in Seq(S) /\ <<plus>> \in Seq(S) /\ <<minus>> \o <<plus>> \in Seq(S)
        /\ <<minus>> \o <<>> = <<minus>> /\ <<>> \o <<plus>> = <<plus>>
    BY <1>2, CommandSeqs
  <1>6. QED  BY <1>1, <1>3, <1>4, <1>5 DEF If, Chattr, minus, plus, S

(* What the steps of a plugin run: a template replaces the path, and       *)
(* file_meta touches all but the content.                                  *)
Allowed(k) ==
    IF IsTemplate(k) THEN [do : {"install"}, arg : {f \in Files : f.attrs = {}}]
    ELSE [do : {"chmod"}, arg : Modes] \cup [do : {"chown"}, arg : Owners]
         \cup [do : {"chattr-", "chattr+"}, arg : SUBSET Letters]

LEMMA AllowedCommands == \A k : Allowed(k) \subseteq Commands
  BY DEF Allowed, Commands

LEMMA WantedFacts ==
    ASSUME NEW f \in Files, NEW s \in FM!Specs
    PROVE  LET w == FM!Wanted(f, s) IN
           /\ w.mode = FM!Or(s.mode, f.mode) /\ w.owner = FM!Or(s.owner, f.owner)
           /\ w.attrs = IF FM!Manages(s) THEN FM!DesiredManagedAttrs(f.attrs, s) ELSE f.attrs
           /\ w.mode \in Modes /\ w.owner \in Owners /\ w.attrs \in SUBSET Letters
  <1> DEFINE m == FM!Or(s.mode, f.mode)
             o == FM!Or(s.owner, f.owner)
             a == IF FM!Manages(s) THEN FM!DesiredManagedAttrs(f.attrs, s) ELSE f.attrs
  <1>1. FM!Wanted(f, s) = [f EXCEPT !.mode = m, !.owner = o, !.attrs = a]  BY DEF FM!Wanted
  <1>2. m \in Modes  BY FileFacts, SameNames DEF FM!Or, FM!Specs
  <1>3. o \in Owners  BY FileFacts DEF FM!Or, FM!Specs
  <1>4. a \in SUBSET Letters  BY FileFacts, SameNames DEF FM!DesiredManagedAttrs
  <1> HIDE DEF m, o, a
  <1>5. /\ [f EXCEPT !.mode = m, !.owner = o, !.attrs = a].mode = m
        /\ [f EXCEPT !.mode = m, !.owner = o, !.attrs = a].owner = o
        /\ [f EXCEPT !.mode = m, !.owner = o, !.attrs = a].attrs = a
    BY DEF Files
  <1>6. QED  BY <1>1, <1>2, <1>3, <1>4, <1>5 DEF m, o, a

LEMMA ApplyAllowed ==
    ASSUME profile \in Profiles, NEW k \in DOMAIN profile, NEW f \in Found,
           IsTemplate(k) \/ f # Gone
    PROVE  ApplyCommands(k, f) \in Seq(Allowed(k))
  <1> DEFINE s == profile[k]
  <1>1. CASE IsTemplate(k)
    <2> DEFINE g == [content |-> s.content, mode |-> s.mode, owner |-> Root, attrs |-> {}]
               c == [do |-> "install", arg |-> g]
    <2>1. s \in TP!Specs  BY <1>1, StepTypes
    <2>2. g \in {h \in Files : h.attrs = {}}
      BY <2>1, SameNames, PathAssumption DEF TP!Specs, Files
    <2>3. c \in Allowed(k)  BY <1>1, <2>2 DEF Allowed
    <2>4. ApplyCommands(k, f) = IF ~TP!Matches(f, s) THEN <<c>> ELSE <<>>
      BY <1>1 DEF ApplyCommands, TP!ApplyCommands, TP!If, TP!WriteRootFile
    <2> HIDE DEF c
    <2>5. QED  BY <2>3, <2>4, CommandSeqs
  <1>2. CASE ~IsTemplate(k)
    <2> DEFINE w == FM!Wanted(f, s)
               chmod == [do |-> "chmod", arg |-> w.mode]
               chown == [do |-> "chown", arg |-> w.owner]
               restamp == w.mode # f.mode \/ w.owner # f.owner
               lift == restamp /\ FM!Manages(s) /\ f.attrs # {}
               A == Allowed(k)
    <2>1. s \in FM!Specs /\ f \in Files  BY <1>2, StepTypes DEF Found
    <2>2. w.mode \in Modes /\ w.owner \in Owners /\ w.attrs \in SUBSET Letters
      BY <2>1, WantedFacts
    <2>3. chmod \in A /\ chown \in A  BY <1>2, <2>2 DEF Allowed
    <2>4. \A a \in SUBSET Letters : FM!ManagedAttrs(a) \in Seq(A)
      <3> DEFINE S == [do : {"chattr-", "chattr+"}, arg : SUBSET Letters]
      <3>1. S \subseteq A  BY <1>2 DEF Allowed
      <3>2. \A a \in SUBSET Letters : FM!ManagedAttrs(a) \in Seq(S)  BY ManagedFacts
      <3> HIDE DEF S, A
      <3>3. QED  BY <3>1, <3>2, WiderSeq
    <2> DEFINE p1 == If(lift, FM!ManagedAttrs({}))
               p2 == If(w.mode # f.mode, <<chmod>>)
               p3 == If(w.owner # f.owner, <<chown>>)
               p4 == If(lift \/ w.attrs # f.attrs, FM!ManagedAttrs(w.attrs))
    <2>5. ApplyCommands(k, f) = p1 \o p2 \o p3 \o p4
      BY <1>2 DEF ApplyCommands, FM!ApplyCommands, FM!If, If, FM!Chmod, FM!Chown
    <2> HIDE DEF A, chmod, chown, w, lift
    <2>6. p1 \in Seq(A) /\ p2 \in Seq(A) /\ p3 \in Seq(A) /\ p4 \in Seq(A)
      BY <2>2, <2>3, <2>4, CommandSeqs DEF If
    <2> HIDE DEF p1, p2, p3, p4
    <2>7. ApplyCommands(k, f) \in Seq(A)  BY <2>5, <2>6, FourInSeq
    <2>8. QED  BY <2>7 DEF A
  <1>3. QED  BY <1>1, <1>2

(* A step that a plan calls unchanged runs nothing.                        *)
LEMMA UnchangedRunsNothing ==
    ASSUME profile \in Profiles, NEW k \in DOMAIN profile, NEW f \in Found,
           IsTemplate(k) \/ f # Gone, ~WillChange(k, f)
    PROVE  ApplyCommands(k, f) = <<>>
  <1> DEFINE s == profile[k]
  <1>1. CASE IsTemplate(k)
    BY <1>1 DEF WillChange, TP!WillChange, ApplyCommands, TP!ApplyCommands, TP!If
  <1>2. CASE ~IsTemplate(k)
    <2> DEFINE w == FM!Wanted(f, s)
    <2>1. s \in FM!Specs /\ f \in Files  BY <1>2, StepTypes DEF Found
    <2>2. /\ w.mode = FM!Or(s.mode, f.mode) /\ w.owner = FM!Or(s.owner, f.owner)
          /\ w.attrs = IF FM!Manages(s) THEN FM!DesiredManagedAttrs(f.attrs, s) ELSE f.attrs
      BY <2>1, WantedFacts
    <2>3. /\ s.mode \in {Unset, f.mode} /\ s.owner \in {Unset, f.owner}
          /\ FM!Manages(s) => FM!DesiredManagedAttrs(f.attrs, s) = f.attrs
      BY <1>2 DEF WillChange, FM!WillChange
    <2>4. w.mode = f.mode /\ w.owner = f.owner /\ w.attrs = f.attrs
      BY <2>2, <2>3 DEF FM!Or
    <2> HIDE DEF w
    <2>5. ApplyCommands(k, f) = <<>> \o <<>> \o <<>> \o <<>>
      BY <1>2, <2>4 DEF ApplyCommands, FM!ApplyCommands, FM!If, w
    <2>6. QED  BY <2>5
  <1>3. QED  BY <1>1, <1>2

-----------------------------------------------------------------------------
(* Restoring the path f, command by command: what is left of the commands  *)
(* of TP!RestoreCommands and FM!RestoreCommands after each of them.        *)
Put(f) == [content |-> f.content, mode |-> f.mode, owner |-> Root, attrs |-> {}]
PutMode(f) == IF f.mode.suid THEN Chmod(f.mode) ELSE <<>>
PutOwner(f) == Chown(f.owner) \o PutMode(f)
PutBack(f) == WriteRootFile(f.content, f.mode) \o PutOwner(f)

StampLocks(f) == FM!ManagedAttrs(f.attrs)
StampOwner(f) == Chown(f.owner) \o StampLocks(f)
StampMode(f) == Chmod(f.mode) \o StampOwner(f)
StampBack(f) == Chattr("chattr-", Letters) \o StampMode(f)

LEMMA Whole ==
    ASSUME NEW f \in Files
    PROVE  /\ Put(f) \in Files
           /\ [do |-> "install", arg |-> Put(f)] \in Commands
           /\ [do |-> "chmod", arg |-> f.mode] \in Commands
           /\ [do |-> "chown", arg |-> f.owner] \in Commands
           /\ [do |-> "chattr-", arg |-> Letters] \in Commands
           /\ [do |-> "rm", arg |-> Gone] \in Commands
  <1>1. Put(f) \in Files  BY PathAssumption, FileFacts DEF Put, Files
  <1>2. QED  BY <1>1, FileFacts DEF Commands

LEMMA PutBackFacts ==
    ASSUME NEW f \in Files
    PROVE  /\ TP!RestoreCommands(TP!Snapshot(f)) = PutBack(f)
           /\ PutBack(f) \in Seq(Commands) /\ PutOwner(f) \in Seq(Commands)
           /\ PutBack(f) # <<>> /\ PutOwner(f) # <<>>
           /\ Head(PutBack(f)) = [do |-> "install", arg |-> Put(f)]
           /\ Tail(PutBack(f)) = PutOwner(f)
           /\ Head(PutOwner(f)) = [do |-> "chown", arg |-> f.owner]
           /\ Tail(PutOwner(f)) = PutMode(f)
  <1> DEFINE install == [do |-> "install", arg |-> Put(f)]
             chmod == [do |-> "chmod", arg |-> f.mode]
             chown == [do |-> "chown", arg |-> f.owner]
  <1>1. install \in Commands /\ chmod \in Commands /\ chown \in Commands  BY Whole
  <1>2. /\ WriteRootFile(f.content, f.mode) = <<install>>
        /\ Chown(f.owner) = <<chown>> /\ Chmod(f.mode) = <<chmod>>
    BY DEF WriteRootFile, Put, Chown, Chmod
  <1> HIDE DEF install, chmod, chown
  <1>3. PutMode(f) \in Seq(Commands)  BY <1>1, <1>2, CommandSeqs DEF PutMode
  <1>4. PutOwner(f) = <<chown>> \o PutMode(f)  BY <1>2 DEF PutOwner
  <1>5. /\ PutOwner(f) \in Seq(Commands) /\ PutOwner(f) # <<>>
        /\ Head(PutOwner(f)) = chown /\ Tail(PutOwner(f)) = PutMode(f)
    BY <1>1, <1>3, <1>4, HeadOf
  <1>6. PutBack(f) = <<install>> \o PutOwner(f)  BY <1>2 DEF PutBack
  <1>7. /\ PutBack(f) \in Seq(Commands) /\ PutBack(f) # <<>>
        /\ Head(PutBack(f)) = install /\ Tail(PutBack(f)) = PutOwner(f)
    BY <1>1, <1>5, <1>6, HeadOf
  <1>8. TP!RestoreCommands(TP!Snapshot(f)) = (<<install>> \o <<chown>>) \o PutMode(f)
    <2> DEFINE b == TP!Snapshot(f)
    <2>1. b # Gone /\ b.content = f.content /\ b.mode = f.mode /\ b.owner = f.owner
      BY SnapshotFacts
    <2> HIDE DEF b
    <2>2. TP!RestoreCommands(b)
            = TP!WriteRootFile(f.content, f.mode) \o TP!Chown(f.owner) \o TP!If(f.mode.suid, TP!Chmod(f.mode))
      BY <2>1 DEF TP!RestoreCommands
    <2>3. TP!WriteRootFile(f.content, f.mode) = <<install>> /\ TP!Chown(f.owner) = <<chown>>
      BY DEF TP!WriteRootFile, TP!Chown, Put, install, chown
    <2>4. TP!If(f.mode.suid, TP!Chmod(f.mode)) = PutMode(f)
      BY DEF TP!If, TP!Chmod, Chmod, PutMode
    <2>5. QED  BY <2>2, <2>3, <2>4 DEF b
  <1>9. (<<install>> \o <<chown>>) \o PutMode(f) = <<install>> \o (<<chown>> \o PutMode(f))
    BY <1>1, <1>3, CommandSeqs
  <1>10. QED  BY <1>4, <1>5, <1>6, <1>7, <1>8, <1>9 DEF install, chown

LEMMA StampBackFacts ==
    ASSUME NEW f \in Files
    PROVE  /\ FM!RestoreCommands(FM!Snapshot(f)) = StampBack(f)
           /\ StampBack(f) \in Seq(Commands) /\ StampMode(f) \in Seq(Commands)
           /\ StampOwner(f) \in Seq(Commands) /\ StampLocks(f) \in Seq(Commands)
           /\ StampBack(f) # <<>> /\ StampMode(f) # <<>> /\ StampOwner(f) # <<>>
           /\ Head(StampBack(f)) = [do |-> "chattr-", arg |-> Letters]
           /\ Tail(StampBack(f)) = StampMode(f)
           /\ Head(StampMode(f)) = [do |-> "chmod", arg |-> f.mode]
           /\ Tail(StampMode(f)) = StampOwner(f)
           /\ Head(StampOwner(f)) = [do |-> "chown", arg |-> f.owner]
           /\ Tail(StampOwner(f)) = StampLocks(f)
  <1> DEFINE unlock == [do |-> "chattr-", arg |-> Letters]
             chmod == [do |-> "chmod", arg |-> f.mode]
             chown == [do |-> "chown", arg |-> f.owner]
  <1>1. unlock \in Commands /\ chmod \in Commands /\ chown \in Commands  BY Whole
  <1>2. /\ Chown(f.owner) = <<chown>> /\ Chmod(f.mode) = <<chmod>>
        /\ Chattr("chattr-", Letters) = <<unlock>> /\ FM!ManagedAttrs({}) = <<unlock>>
    BY ManagedFacts DEF Chown, Chmod, Chattr
  <1>3. FM!Snapshot(f).attrs = f.attrs /\ FM!Snapshot(f).mode = f.mode /\ FM!Snapshot(f).owner = f.owner
    BY SnapshotFacts
  <1>4. FM!RestoreCommands(FM!Snapshot(f)) = <<unlock>> \o <<chmod>> \o <<chown>> \o StampLocks(f)
    BY <1>2, <1>3 DEF FM!RestoreCommands, FM!Chmod, FM!Chown, StampLocks
  <1> HIDE DEF unlock, chmod, chown
  <1>5. StampLocks(f) \in Seq(Commands)
    <2> DEFINE S == [do : {"chattr-", "chattr+"}, arg : SUBSET Letters]
    <2>1. S \subseteq Commands  BY DEF Commands
    <2>2. StampLocks(f) \in Seq(S)  BY FileFacts, ManagedFacts DEF StampLocks
    <2> HIDE DEF S
    <2>3. QED  BY <2>1, <2>2, WiderSeq
  <1>6. StampOwner(f) = <<chown>> \o StampLocks(f)  BY <1>2 DEF StampOwner
  <1>7. /\ StampOwner(f) \in Seq(Commands) /\ StampOwner(f) # <<>>
        /\ Head(StampOwner(f)) = chown /\ Tail(StampOwner(f)) = StampLocks(f)
    BY <1>1, <1>5, <1>6, HeadOf
  <1>8. StampMode(f) = <<chmod>> \o StampOwner(f)  BY <1>2 DEF StampMode
  <1>9. /\ StampMode(f) \in Seq(Commands) /\ StampMode(f) # <<>>
        /\ Head(StampMode(f)) = chmod /\ Tail(StampMode(f)) = StampOwner(f)
    BY <1>1, <1>7, <1>8, HeadOf
  <1>10. StampBack(f) = <<unlock>> \o StampMode(f)  BY <1>2 DEF StampBack
  <1>11. /\ StampBack(f) \in Seq(Commands) /\ StampBack(f) # <<>>
         /\ Head(StampBack(f)) = unlock /\ Tail(StampBack(f)) = StampMode(f)
    BY <1>1, <1>9, <1>10, HeadOf
  <1>12. <<unlock>> \o <<chmod>> \o <<chown>> \o StampLocks(f) = StampBack(f)
    <2>1. <<chmod>> \in Seq(Commands) /\ <<chown>> \in Seq(Commands)  BY <1>1, CommandSeqs
    <2>2. (<<unlock>> \o <<chmod>>) \o <<chown>> = <<unlock>> \o (<<chmod>> \o <<chown>>)
          /\ <<chmod>> \o <<chown>> \in Seq(Commands)
      BY <1>1, <2>1, CommandSeqs
    <2>3. (<<unlock>> \o (<<chmod>> \o <<chown>>)) \o StampLocks(f)
            = <<unlock>> \o ((<<chmod>> \o <<chown>>) \o StampLocks(f))
      BY <1>1, <1>5, <2>2, CommandSeqs
    <2>4. (<<chmod>> \o <<chown>>) \o StampLocks(f) = <<chmod>> \o (<<chown>> \o StampLocks(f))
      BY <1>1, <1>5, <2>1, CommandSeqs
    <2>5. QED  BY <1>6, <1>8, <1>10, <2>2, <2>3, <2>4
  <1>13. QED  BY <1>4, <1>5, <1>7, <1>9, <1>11, <1>12 DEF unlock, chmod, chown

(* chattr - and chattr + leave the attributes that they name.              *)
LEMMA StampLocksFacts ==
    ASSUME NEW f \in Files
    PROVE  /\ f.attrs = {} => StampLocks(f) = Chattr("chattr-", Letters)
           /\ f.attrs = Letters => StampLocks(f) = Chattr("chattr+", f.attrs)
           /\ f.attrs \notin {{}, Letters} =>
                /\ StampLocks(f) # <<>>
                /\ Head(StampLocks(f)) = [do |-> "chattr-", arg |-> Letters \ f.attrs]
                /\ Tail(StampLocks(f)) = Chattr("chattr+", f.attrs)
  <1> DEFINE minus == [do |-> "chattr-", arg |-> Letters \ f.attrs]
             plus == [do |-> "chattr+", arg |-> f.attrs]
  <1>1. f.attrs \in SUBSET Letters  BY FileFacts
  <1>2. minus \in Commands /\ plus \in Commands  BY <1>1 DEF Commands
  <1>3. f.attrs \notin {{}, Letters} => StampLocks(f) = <<minus>> \o <<plus>>
    BY <1>1, ManagedFacts DEF StampLocks, Chattr
  <1>4. Chattr("chattr+", f.attrs) = <<plus>>  BY DEF Chattr
  <1> HIDE DEF minus, plus
  <1>5. <<plus>> \in Seq(Commands)  BY <1>2, CommandSeqs
  <1>6. <<minus>> \o <<plus>> # <<>> /\ Head(<<minus>> \o <<plus>>) = minus
        /\ Tail(<<minus>> \o <<plus>>) = <<plus>>
    BY <1>2, <1>5, HeadOf
  <1>7. f.attrs = {} => StampLocks(f) = Chattr("chattr-", Letters)
    BY <1>1, ManagedFacts DEF StampLocks
  <1>8. f.attrs = Letters => StampLocks(f) = Chattr("chattr+", f.attrs)
    BY <1>1, ManagedFacts DEF StampLocks
  <1>9. QED  BY <1>3, <1>4, <1>6, <1>7, <1>8 DEF minus

-----------------------------------------------------------------------------
(* The shape of a state: the journal has an entry of every step begun, and *)
(* only the last one may lack the capture after the step.                  *)
States ==
    { "ready", "capture", "inspect", "apply", "applied", "failed",
      "revert", "restored", "refused", "stuck", "undo failed" }

Snapshots == {TP!Snapshot(f) : f \in Found} \cup {FM!Snapshot(f) : f \in Found}
SnapshotsOf(k) == {Snapshot(k, f) : f \in Found}

TypeInv ==
    /\ profile \in Profiles
    /\ file \in Found /\ start \in Found
    /\ pc \in States
    /\ i \in Nat
    /\ cmds \in Seq(Commands)
    /\ journal \in Seq([before : Snapshots, after : Snapshots \cup {Uncaptured}])
    /\ \A k \in 1..Len(journal) : journal[k].before \in SnapshotsOf(k)
    /\ misled \in BOOLEAN /\ faults \in Nat
    /\ faults = 0 => ~misled

ShapeInv ==
    /\ Len(journal) <= Len(profile)
    /\ \A k \in 1..Len(journal) : k < Len(journal) => journal[k].after # Uncaptured
    /\ pc = "ready" => i = 1 /\ journal = <<>> /\ ~misled
    /\ pc = "capture" =>
         /\ i = Len(journal) + 1 /\ i <= Len(profile)
         /\ \A k \in 1..Len(journal) : journal[k].after # Uncaptured
    /\ pc \in {"inspect", "apply"} =>
         i = Len(journal) /\ i > 0 /\ journal[i].after = Uncaptured
    /\ pc = "apply" => cmds \in Seq(Allowed(i))
    /\ pc \notin {"apply", "revert"} => cmds = <<>>
    /\ pc = "failed" => ~Complete
    /\ pc \in {"applied", "refused", "stuck"} => Complete
    /\ pc = "revert" => i <= Len(journal)

Entry == [before : Snapshots, after : Snapshots \cup {Uncaptured}]

LEMMA ProfileFacts ==
    ASSUME TypeInv
    PROVE  DOMAIN profile = 1..Len(profile) /\ Len(profile) \in Nat \ {0}
  <1>1. profile \in Seq(FM!Specs \cup TP!Specs) /\ profile # <<>>
    BY PathsAssumption DEF TypeInv
  <1>2. QED  BY <1>1

LEMMA SnapshotTypes ==
    ASSUME NEW k, NEW f \in Found
    PROVE  Snapshot(k, f) \in Snapshots /\ Snapshot(k, f) \in SnapshotsOf(k)
  BY DEF Snapshot, Snapshots, SnapshotsOf

LEMMA InitShape == Init => TypeInv /\ ShapeInv
  <1> SUFFICES ASSUME Init PROVE TypeInv /\ ShapeInv  OBVIOUS
  <1>1. journal \in Seq(Entry) /\ cmds \in Seq(Commands) /\ Len(journal) = 0
    BY DEF Init
  <1>2. \A k \in 1..Len(journal) : journal[k].before \in SnapshotsOf(k)  BY <1>1
  <1>3. file \in Found /\ start \in Found /\ i \in Nat /\ faults \in Nat /\ ~misled
    BY DEF Init, Found
  <1>4. TypeInv  BY <1>1, <1>2, <1>3 DEF Init, TypeInv, States, Entry
  <1>5. QED  BY <1>1, <1>4, ProfileFacts DEF Init, ShapeInv

LEMMA BeginShape ==
    ASSUME TypeInv, ShapeInv, Begin
    PROVE  TypeInv' /\ ShapeInv'
  <1>1. TypeInv'  BY DEF TypeInv, Begin, States, SnapshotsOf, Snapshot, IsTemplate
  <1>2. Len(profile) \in Nat \ {0}  BY ProfileFacts
  <1>3. /\ pc' = "capture" /\ cmds' = <<>> /\ i' = 1 /\ Len(journal') = 0 /\ Len(journal) = 0
        /\ profile' = profile /\ journal' = journal
    BY DEF Begin, ShapeInv
  <1>4. ShapeInv'  BY <1>2, <1>3 DEF ShapeInv
  <1>5. QED  BY <1>1, <1>4

LEMMA CaptureBeforeShape ==
    ASSUME TypeInv, ShapeInv, CaptureBefore
    PROVE  TypeInv' /\ ShapeInv'
  <1> DEFINE n == Len(journal)
  <1>1. /\ journal \in Seq(Entry) /\ n \in Nat /\ pc = "capture" /\ i = n + 1 /\ i <= Len(profile)
        /\ \A k \in 1..n : journal[k].after # Uncaptured
        /\ cmds = <<>> /\ UNCHANGED <<profile, file, i, cmds, start>>
    BY DEF TypeInv, ShapeInv, CaptureBefore, Entry
  <1>2. CASE Fault /\ pc' = "failed" /\ UNCHANGED <<journal, misled>>
    <2>1. TypeInv'
      BY <1>1, <1>2 DEF TypeInv, Fault, States, SnapshotsOf, Snapshot, IsTemplate
    <2>2. i \in DOMAIN profile /\ i \notin DOMAIN journal  BY <1>1, ProfileFacts
    <2>3. ~Complete'  BY <1>1, <1>2, <2>2 DEF Complete
    <2>4. ShapeInv'  BY <1>1, <1>2, <2>3 DEF ShapeInv
    <2>5. QED  BY <2>1, <2>4
  <1>3. CASE \E seen \in {file, Gone} :
               /\ IF IsTemplate(i) THEN seen = file /\ NoFault ELSE Probe(seen)
               /\ journal' = Append(journal, [before |-> Snapshot(i, seen), after |-> Uncaptured])
               /\ misled' = (misled \/ seen # file)
               /\ pc' = "inspect"
    <2>1. PICK seen \in {file, Gone} :
               /\ IF IsTemplate(i) THEN seen = file /\ NoFault ELSE Probe(seen)
               /\ journal' = Append(journal, [before |-> Snapshot(i, seen), after |-> Uncaptured])
               /\ misled' = (misled \/ seen # file)
               /\ pc' = "inspect"
      BY <1>3
    <2> DEFINE e == [before |-> Snapshot(i, seen), after |-> Uncaptured]
    <2>2. seen \in Found  BY DEF TypeInv, Found
    <2>3. e \in Entry /\ e.before \in SnapshotsOf(i) /\ e.after = Uncaptured
      BY <2>2, SnapshotTypes DEF Entry
    <2> HIDE DEF e
    <2>4. /\ journal' \in Seq(Entry) /\ Len(journal') = n + 1 /\ journal'[n + 1] = e
          /\ \A k \in 1..n : journal'[k] = journal[k]
      BY <1>1, <2>1, <2>3 DEF e
    <2>5. faults' \in Nat /\ (faults' = 0 => faults = 0 /\ seen = file)
      BY <2>1 DEF NoFault, Probe, Fault, TypeInv
    <2>6. misled' \in BOOLEAN /\ (faults' = 0 => ~misled')
      BY <2>1, <2>5 DEF TypeInv
    <2>7. \A k \in 1..Len(journal') : journal'[k].before \in SnapshotsOf(k)'
      <3>1. \A k : SnapshotsOf(k)' = SnapshotsOf(k)  BY <1>1 DEF SnapshotsOf, Snapshot, IsTemplate
      <3>2. \A k \in 1..n : journal[k].before \in SnapshotsOf(k)  BY DEF TypeInv
      <3>3. QED  BY <1>1, <2>3, <2>4, <3>1, <3>2
    <2>8. TypeInv'
      BY <1>1, <2>1, <2>4, <2>5, <2>6, <2>7 DEF TypeInv, Entry, States
    <2>9. ShapeInv'  BY <1>1, <2>1, <2>3, <2>4 DEF ShapeInv
    <2>10. QED  BY <2>8, <2>9
  <1>4. QED  BY <1>2, <1>3 DEF CaptureBefore

LEMMA InspectShape ==
    ASSUME TypeInv, ShapeInv, Inspect
    PROVE  TypeInv' /\ ShapeInv'
  <1> DEFINE n == Len(journal)
  <1>1. /\ journal \in Seq(Entry) /\ n \in Nat /\ pc = "inspect" /\ i = n /\ i > 0
        /\ journal[i].after = Uncaptured /\ n <= Len(profile)
        /\ cmds = <<>> /\ UNCHANGED <<profile, file, i, journal, start, misled>>
    BY DEF TypeInv, ShapeInv, Inspect, Entry
  <1>2. i \in DOMAIN profile  BY <1>1, ProfileFacts
  <1>3. ~Complete /\ ~Complete'  BY <1>1, <1>2 DEF Complete
  <1>4. faults' \in Nat /\ (faults' = 0 => faults = 0)
    BY DEF Inspect, Probe, Fault, NoFault, TypeInv
  <1>5. CASE pc' = "failed" /\ UNCHANGED cmds
    <2>1. TypeInv'  BY <1>1, <1>4, <1>5 DEF TypeInv, States, SnapshotsOf, Snapshot, IsTemplate
    <2>2. ShapeInv'  BY <1>1, <1>3, <1>5 DEF ShapeInv
    <2>3. QED  BY <2>1, <2>2
  <1>6. CASE \E seen \in {file, Gone} :
               /\ ~(seen = Gone /\ ~IsTemplate(i))
               /\ pc' = "apply" /\ cmds' = ApplyCommands(i, seen)
    <2>1. PICK seen \in {file, Gone} :
               /\ ~(seen = Gone /\ ~IsTemplate(i))
               /\ pc' = "apply" /\ cmds' = ApplyCommands(i, seen)
      BY <1>6
    <2>2. seen \in Found /\ profile \in Profiles  BY DEF TypeInv, Found
    <2>3. cmds' \in Seq(Allowed(i))  BY <1>2, <2>1, <2>2, ApplyAllowed
    <2>4. cmds' \in Seq(Commands)  BY <2>3, AllowedCommands, WiderSeq
    <2>5. TypeInv'
      BY <1>1, <1>4, <2>1, <2>4 DEF TypeInv, States, SnapshotsOf, Snapshot, IsTemplate
    <2>6. Allowed(i)' = Allowed(i)  BY <1>1 DEF Allowed, IsTemplate
    <2>7. ShapeInv'  BY <1>1, <2>1, <2>3, <2>6 DEF ShapeInv
    <2>8. QED  BY <2>5, <2>7
  <1>7. QED  BY <1>5, <1>6 DEF Inspect

LEMMA CommandShape ==
    ASSUME TypeInv, ShapeInv, Command
    PROVE  TypeInv' /\ ShapeInv'
  <1> DEFINE c == Head(cmds)
  <1>1. /\ cmds \in Seq(Commands) /\ cmds # <<>> /\ pc \in {"apply", "revert"} /\ i \in Nat
        /\ file \in Found /\ UNCHANGED <<profile, i, journal, start, misled>>
    BY DEF TypeInv, Command
  <1>2. c \in Commands /\ Tail(cmds) \in Seq(Commands)  BY <1>1
  <1>3. ~Refused(c, file) => Effect(c, file) \in Found  BY <1>1, <1>2, EffectType
  <1> HIDE DEF c
  <1>4. file' \in Found /\ faults' \in Nat /\ (faults' = 0 => faults = 0)
    BY <1>1, <1>3 DEF Command, Fault, NoFault, TypeInv, c
  <1>5. CASE cmds' = Tail(cmds) /\ UNCHANGED pc
    <2>1. TypeInv'
      BY <1>1, <1>2, <1>4, <1>5 DEF TypeInv, SnapshotsOf, Snapshot, IsTemplate
    <2>2. pc = "apply" => cmds' \in Seq(Allowed(i)')
      <3>1. Allowed(i)' = Allowed(i)  BY <1>1 DEF Allowed, IsTemplate
      <3>2. pc = "apply" => cmds \in Seq(Allowed(i))  BY DEF ShapeInv
      <3> DEFINE A == Allowed(i)
      <3> HIDE DEF A
      <3>3. pc = "apply" => Tail(cmds) \in Seq(A)  BY <1>1, <3>2 DEF A
      <3>4. QED  BY <1>5, <3>1, <3>3 DEF A
    <2>3. Complete' <=> Complete  BY <1>1 DEF Complete
    <2>4. ShapeInv'  BY <1>1, <1>5, <2>2, <2>3 DEF ShapeInv
    <2>5. QED  BY <2>1, <2>4
  <1>6. CASE pc' = (IF pc = "apply" THEN "failed" ELSE Stuck) /\ cmds' = <<>>
    <2>1. pc' \in States /\ cmds' \in Seq(Commands)  BY <1>6, CommandSeqs DEF Stuck, States
    <2>2. TypeInv'
      BY <1>1, <1>4, <2>1 DEF TypeInv, SnapshotsOf, Snapshot, IsTemplate
    <2>3. Complete' <=> Complete  BY <1>1 DEF Complete
    <2>4. pc = "apply" => ~Complete
      <3>1. pc = "apply" => i \in 1..Len(profile) /\ journal[i].after = Uncaptured
        BY <1>1, ProfileFacts DEF ShapeInv, TypeInv
      <3>2. QED  BY <3>1, ProfileFacts DEF Complete
    <2>5. ShapeInv'  BY <1>1, <1>6, <2>3, <2>4 DEF ShapeInv, Stuck
    <2>6. QED  BY <2>2, <2>5
  <1>7. QED  BY <1>5, <1>6 DEF Command

LEMMA CaptureAfterShape ==
    ASSUME TypeInv, ShapeInv, CaptureAfter
    PROVE  TypeInv' /\ ShapeInv'
  <1> DEFINE n == Len(journal)
  <1>1. /\ journal \in Seq(Entry) /\ n \in Nat /\ pc = "apply" /\ i = n /\ i > 0
        /\ journal[i].after = Uncaptured /\ n <= Len(profile)
        /\ \A k \in 1..n : k < n => journal[k].after # Uncaptured
        /\ cmds = <<>> /\ UNCHANGED <<profile, file, cmds, start, misled>>
    BY DEF TypeInv, ShapeInv, CaptureAfter, Entry
  <1>2. i \in DOMAIN profile /\ DOMAIN profile = 1..Len(profile) /\ Len(profile) \in Nat
    BY <1>1, ProfileFacts
  <1>3. faults' \in Nat /\ (faults' = 0 => faults = 0)
    BY DEF CaptureAfter, Probe, Fault, NoFault, TypeInv
  <1>4. CASE pc' = "failed" /\ UNCHANGED <<i, journal>>
    <2>1. TypeInv'  BY <1>1, <1>3, <1>4 DEF TypeInv, States, SnapshotsOf, Snapshot, IsTemplate
    <2>2. ~Complete'  BY <1>1, <1>2, <1>4 DEF Complete
    <2>3. ShapeInv'  BY <1>1, <1>4, <2>2 DEF ShapeInv
    <2>4. QED  BY <2>1, <2>3
  <1>5. CASE \E seen \in {file, Gone} :
               /\ journal' = [journal EXCEPT ![i].after = Snapshot(i, seen)]
               /\ IF i = Len(profile) THEN pc' = "applied" /\ UNCHANGED i
                  ELSE pc' = "capture" /\ i' = i + 1
    <2>1. PICK seen \in {file, Gone} :
               /\ journal' = [journal EXCEPT ![i].after = Snapshot(i, seen)]
               /\ IF i = Len(profile) THEN pc' = "applied" /\ UNCHANGED i
                  ELSE pc' = "capture" /\ i' = i + 1
      BY <1>5
    <2>2. seen \in Found  BY DEF TypeInv, Found
    <2> DEFINE s == Snapshot(i, seen)
               e == [journal[i] EXCEPT !.after = s]
    <2>3. s \in Snapshots /\ s # Uncaptured  BY <2>2, SnapshotTypes, SnapshotTells
    <2> HIDE DEF s
    <2>4. journal' = [journal EXCEPT ![i] = e]  BY <2>1 DEF s
    <2>5. e \in Entry /\ e.before = journal[i].before /\ e.after = s
      <3>1. journal[i] \in Entry  BY <1>1
      <3>2. QED  BY <2>3, <3>1 DEF Entry
    <2> HIDE DEF e
    <2>6. /\ journal' \in Seq(Entry) /\ Len(journal') = n
          /\ \A k \in 1..n : journal'[k] = IF k = i THEN e ELSE journal[k]
      BY <1>1, <2>4, <2>5
    <2>7. \A k \in 1..n : journal'[k].before \in SnapshotsOf(k)'
      <3>1. \A k : SnapshotsOf(k)' = SnapshotsOf(k)  BY <1>1 DEF SnapshotsOf, Snapshot, IsTemplate
      <3>2. \A k \in 1..n : journal[k].before \in SnapshotsOf(k)  BY DEF TypeInv
      <3>3. QED  BY <2>5, <2>6, <3>1, <3>2
    <2>8. \A k \in 1..n : journal'[k].after # Uncaptured
      BY <1>1, <2>3, <2>5, <2>6
    <2>9. i' \in Nat /\ pc' \in {"capture", "applied"}  BY <1>1, <2>1
    <2>10. TypeInv'
      BY <1>1, <1>3, <2>6, <2>7, <2>9 DEF TypeInv, Entry, States
    <2>11. i = Len(profile) => Complete'
      BY <1>1, <1>2, <2>6, <2>8 DEF Complete
    <2>12. ShapeInv'
      BY <1>1, <1>2, <2>1, <2>6, <2>8, <2>11 DEF ShapeInv
    <2>13. QED  BY <2>10, <2>12
  <1>6. QED  BY <1>4, <1>5 DEF CaptureAfter

LEMMA RestoreTypes ==
    ASSUME TypeInv, NEW k \in 1..Len(journal), IsTemplate(k) \/ journal[k].before # Gone
    PROVE  /\ IsTemplate(k) => TP!RestoreCommands(journal[k].before) \in Seq(Commands)
           /\ ~IsTemplate(k) => FM!RestoreCommands(journal[k].before) \in Seq(Commands)
  <1>1. PICK f \in Found : journal[k].before = Snapshot(k, f)  BY DEF TypeInv, SnapshotsOf
  <1>2. CASE f = Gone
    <2>1. journal[k].before = Gone  BY <1>1, <1>2, GoneSnapshot
    <2>2. TP!RestoreCommands(Gone) = <<[do |-> "rm", arg |-> Gone]>>
      BY DEF TP!RestoreCommands, TP!Rm
    <2>3. [do |-> "rm", arg |-> Gone] \in Commands  BY DEF Commands
    <2>4. TP!RestoreCommands(Gone) \in Seq(Commands)  BY <2>2, <2>3, CommandSeqs
    <2>5. QED  BY <2>1, <2>4
  <1>3. CASE f \in Files
    BY <1>1, <1>3, PutBackFacts, StampBackFacts DEF Snapshot
  <1>4. QED  BY <1>2, <1>3 DEF Found

LEMMA RevertStepCases ==
    ASSUME RevertStep
    PROVE  /\ pc = "revert" /\ cmds = <<>> /\ i > 0 /\ i' = i - 1
           /\ UNCHANGED <<profile, file, journal, start, misled>>
           /\ \/ /\ ~Applies(i) \/ (~IsTemplate(i) /\ journal[i].before = Gone)
                 /\ UNCHANGED <<pc, cmds, faults>>
              \/ /\ Applies(i) /\ IsTemplate(i)
                 /\ cmds' = TP!RestoreCommands(journal[i].before) /\ UNCHANGED <<pc, faults>>
              \/ /\ Applies(i) /\ ~IsTemplate(i) /\ journal[i].before # Gone
                 /\ file # Gone /\ cmds' = FM!RestoreCommands(journal[i].before)
                 /\ UNCHANGED <<pc, faults>>
              \/ /\ Applies(i) /\ ~IsTemplate(i) /\ journal[i].before # Gone
                 /\ pc' = Stuck /\ UNCHANGED cmds
                 /\ IF file = Gone THEN UNCHANGED faults ELSE Fault
  <1> DEFINE nothing == ~Applies(i) \/ (~IsTemplate(i) /\ journal[i].before = Gone)
  <1>1. /\ pc = "revert" /\ cmds = <<>> /\ i > 0 /\ i' = i - 1
        /\ UNCHANGED <<profile, file, journal, start, misled>>
    BY DEF RevertStep
  <1>2. CASE nothing  BY <1>1, <1>2 DEF RevertStep
  <1>3. CASE ~nothing /\ IsTemplate(i)  BY <1>1, <1>3 DEF RevertStep
  <1>4. CASE ~nothing /\ ~IsTemplate(i)
    <2>1. \/ /\ file # Gone /\ NoFault
             /\ cmds' = FM!RestoreCommands(journal[i].before) /\ UNCHANGED pc
          \/ /\ pc' = Stuck /\ UNCHANGED cmds
             /\ IF file = Gone THEN NoFault ELSE ProbesLie /\ Fault
      BY <1>4 DEF RevertStep
    <2>2. QED  BY <1>1, <1>4, <2>1 DEF NoFault
  <1>5. QED  BY <1>2, <1>3, <1>4

LEMMA RevertStepShape ==
    ASSUME TypeInv, ShapeInv, RevertStep
    PROVE  TypeInv' /\ ShapeInv'
  <1>1. /\ journal \in Seq(Entry) /\ Len(journal) \in Nat /\ pc = "revert" /\ i \in 1..Len(journal)
        /\ i' = i - 1 /\ cmds = <<>> /\ UNCHANGED <<profile, file, journal, start, misled>>
    BY DEF TypeInv, ShapeInv, RevertStep, Entry
  <1>2. /\ faults' \in Nat /\ (faults' = 0 => faults = 0)
        /\ pc' = pc \/ (pc' = Stuck /\ cmds' = cmds)
    <2>1. faults \in Nat /\ (Fault => faults' = faults + 1)  BY DEF TypeInv, Fault
    <2>2. QED  BY <2>1, RevertStepCases
  <1>3. cmds' \in Seq(Commands)
    <2>1. CASE UNCHANGED cmds  BY <2>1 DEF TypeInv
    <2>2. CASE IsTemplate(i) /\ cmds' = TP!RestoreCommands(journal[i].before)
      BY <1>1, <2>2, RestoreTypes
    <2>3. CASE ~IsTemplate(i) /\ journal[i].before # Gone /\ cmds' = FM!RestoreCommands(journal[i].before)
      BY <1>1, <2>3, RestoreTypes
    <2>4. QED  BY <2>1, <2>2, <2>3 DEF RevertStep
  <1>4. pc' \in States  BY <1>1, <1>2 DEF States, Stuck
  <1>5. TypeInv'  BY <1>1, <1>2, <1>3, <1>4 DEF TypeInv, SnapshotsOf, Snapshot, IsTemplate
  <1>6. Complete' <=> Complete  BY <1>1 DEF Complete
  <1>7. CASE pc' = pc
    <2>1. /\ Len(journal') <= Len(profile') /\ i' <= Len(journal') /\ pc' = "revert"
          /\ \A k \in 1..Len(journal') : k < Len(journal') => journal'[k].after # Uncaptured
      BY <1>1, <1>7 DEF ShapeInv
    <2>2. QED  BY <1>5, <2>1 DEF ShapeInv
  <1>9. CASE pc' = Stuck /\ cmds' = cmds
    <2>1. pc' \in {"stuck", "undo failed"} /\ (pc' = "stuck" => Complete) /\ cmds' = <<>>
      BY <1>1, <1>9 DEF Stuck
    <2>2. QED  BY <1>1, <1>5, <1>6, <2>1 DEF ShapeInv
  <1>10. QED  BY <1>2, <1>5, <1>7, <1>9

LEMMA OtherShape ==
    ASSUME TypeInv, ShapeInv,
           Rollback \/ ForceRollback \/ Restored \/ StartOver \/ Vanish \/ UNCHANGED vars
    PROVE  TypeInv' /\ ShapeInv'
  <1>1. /\ journal \in Seq(Entry) /\ Len(journal) \in Nat /\ Len(profile) \in Nat
    BY ProfileFacts DEF TypeInv, Entry
  <1>2. CASE Rollback
    <2>1. /\ pc \in {"failed", "applied", "stuck"} /\ i' = Len(journal) /\ cmds = <<>>
          /\ pc' \in {"revert", "refused", "stuck", "undo failed"}
          /\ pc' = "refused" => pc # "failed"
          /\ pc' = "stuck" => Complete
          /\ UNCHANGED <<profile, file, cmds, journal, start, misled, faults>>
      BY <1>2 DEF Rollback, Stuck, ShapeInv
    <2>2. TypeInv'  BY <1>1, <2>1 DEF TypeInv, States, SnapshotsOf, Snapshot, IsTemplate
    <2>3. Complete' <=> Complete  BY <2>1 DEF Complete
    <2>4. /\ Len(journal) <= Len(profile)
          /\ \A k \in 1..Len(journal) : k < Len(journal) => journal[k].after # Uncaptured
          /\ pc # "failed" => Complete
      BY <2>1 DEF ShapeInv
    <2>5. /\ pc' \in {"applied", "refused", "stuck"} => Complete'
          /\ pc' \notin {"ready", "capture", "inspect", "apply", "failed"}
          /\ cmds' = <<>> /\ i' <= Len(journal')
      <3>1. pc' \in {"applied", "refused", "stuck"} => Complete'  BY <2>1, <2>3, <2>4
      <3>2. i' <= Len(journal')
        <4>1. i' = Len(journal')  BY <2>1
        <4>2. Len(journal') \in Nat  BY <1>1, <2>1
        <4>3. QED  BY <4>1, <4>2
      <3>3. pc' \notin {"ready", "capture", "inspect", "apply", "failed"} /\ cmds' = <<>>
        BY <2>1
      <3>4. QED  BY <3>1, <3>2, <3>3
    <2>6. /\ Len(journal') <= Len(profile')
          /\ \A k \in 1..Len(journal') : k < Len(journal') => journal'[k].after # Uncaptured
      BY <2>1, <2>4
    <2>7. ShapeInv'  BY <2>5, <2>6 DEF ShapeInv
    <2>8. QED  BY <2>2, <2>7
  <1>3. CASE ForceRollback
    <2>1. TypeInv'
      BY <1>1, <1>3 DEF ForceRollback, TypeInv, States, SnapshotsOf, Snapshot, IsTemplate
    <2>2. ShapeInv'  BY <1>1, <1>3 DEF ForceRollback, ShapeInv
    <2>3. QED  BY <2>1, <2>2
  <1>4. CASE Restored
    <2>1. TypeInv'
      BY <1>1, <1>4 DEF Restored, TypeInv, States, SnapshotsOf, Snapshot, IsTemplate
    <2>2. ShapeInv'  BY <1>1, <1>4 DEF Restored, ShapeInv
    <2>3. QED  BY <2>1, <2>2
  <1>5. CASE StartOver
    <2>1. /\ pc' = "ready" /\ i' = 1 /\ cmds' = <<>> /\ journal' = <<>> /\ misled' = FALSE
          /\ faults' \in Nat /\ UNCHANGED <<profile, file, start>>
      <3>1. faults' \in {faults, faults + 1}  BY <1>5 DEF StartOver, Fault, NoFault
      <3>2. faults' \in Nat  BY <3>1 DEF TypeInv
      <3>3. QED  BY <1>5, <3>2 DEF StartOver
    <2>2. journal' \in Seq(Entry) /\ cmds' \in Seq(Commands) /\ Len(journal') = 0
      BY <2>1
    <2>3. \A k \in 1..Len(journal') : (journal'[k].before \in SnapshotsOf(k)')  BY <2>2
    <2>4. TypeInv'  BY <2>1, <2>2, <2>3 DEF TypeInv, States, Entry
    <2>5. ShapeInv'  BY <1>1, <2>1, <2>2 DEF ShapeInv
    <2>6. QED  BY <2>4, <2>5
  <1>6. CASE Vanish
    <2>1. TypeInv'
      BY <1>1, <1>6
      DEF Vanish, Fault, TypeInv, Found, SnapshotsOf, Snapshot, IsTemplate
    <2>2. Complete' <=> Complete  BY <1>6 DEF Vanish, Complete
    <2>3. Allowed(i)' = Allowed(i)  BY <1>6 DEF Vanish, Allowed, IsTemplate
    <2>4. ShapeInv'  BY <1>1, <1>6, <2>2, <2>3 DEF Vanish, ShapeInv
    <2>5. QED  BY <2>1, <2>4
  <1>7. CASE UNCHANGED vars
    <2>1. TypeInv'  BY <1>7 DEF vars, TypeInv, SnapshotsOf, Snapshot, IsTemplate
    <2>2. Complete' <=> Complete  BY <1>7 DEF vars, Complete
    <2>3. Allowed(i)' = Allowed(i)  BY <1>7 DEF vars, Allowed, IsTemplate
    <2>4. ShapeInv'  BY <1>7, <2>2, <2>3 DEF vars, ShapeInv
    <2>5. QED  BY <2>1, <2>4
  <1>8. QED  BY <1>2, <1>3, <1>4, <1>5, <1>6, <1>7

LEMMA NextShape == TypeInv /\ ShapeInv /\ [Next]_vars => TypeInv' /\ ShapeInv'
  BY BeginShape, CaptureBeforeShape, InspectShape, CommandShape, CaptureAfterShape,
     RevertStepShape, OtherShape
  DEF Next

-----------------------------------------------------------------------------
(* The past of a run, as long as no capture before a step lied and nobody  *)
(* deleted the path: v[k] is the path before step k, and v[k + 1] the path *)
(* that the step left.  A template replaces a path without locks, or does  *)
(* nothing; file_meta keeps the content.                                   *)
SameContent(f, g) == (f = Gone <=> g = Gone) /\ (f # Gone => f.content = g.content)

Leads(k, f, g) ==
    /\ journal[k].before = Snapshot(k, f)
    /\ \/ journal[k].after \in {Uncaptured, Snapshot(k, g)}
       \/ journal[k].after = Gone /\ ~IsTemplate(k)
    /\ IF IsTemplate(k) THEN g = f \/ (g # Gone /\ g.attrs = {} /\ (f = Gone \/ f.attrs = {}))
       ELSE SameContent(f, g)

Forward == {"capture", "inspect", "apply", "applied", "failed"}

History(v) ==
    /\ Len(v) = Len(journal) + 1 /\ v[1] = start
    /\ \A k \in 1..Len(journal) : Leads(k, v[k], v[k + 1])
    /\ pc \in Forward => v[Len(journal) + 1] = file

(* The steps that a rollback restores something for.                       *)
Acts(k) == Applies(k) /\ (IsTemplate(k) \/ journal[k].before # Gone)
ToDo(k) == \E m \in 1..k : Acts(m)
ToWrite(k) == \E m \in 1..k : Acts(m) /\ IsTemplate(m)

LEMMA NothingDone ==
    ASSUME TypeInv, ShapeInv, NEW k \in 1..Len(journal), NEW f \in Found, NEW g \in Found,
           Leads(k, f, g), ~Acts(k)
    PROVE  f = g
  <1>1. journal[k].before = Snapshot(k, f)  BY DEF Leads
  <1>2. CASE ~Applies(k)
    <2>1. journal[k].after = Snapshot(k, f)  BY <1>1, <1>2 DEF Applies
    <2>2. journal[k].after # Uncaptured  BY <2>1, SnapshotTells
    <2>3. CASE IsTemplate(k)
      <3>1. Snapshot(k, f) = Snapshot(k, g)  BY <2>1, <2>2, <2>3 DEF Leads
      <3>2. g = f \/ (g # Gone /\ g.attrs = {} /\ (f = Gone \/ f.attrs = {}))
        BY <2>3 DEF Leads
      <3>3. QED  BY <2>3, <3>1, <3>2, SnapshotTells
    <2>4. CASE ~IsTemplate(k)
      <3>1. SameContent(f, g)  BY <2>4 DEF Leads
      <3>2. CASE f = Gone  BY <3>1, <3>2 DEF SameContent
      <3>3. CASE f # Gone
        <4>1. Snapshot(k, f) # Gone  BY <3>3, SnapshotTells
        <4>2. Snapshot(k, f) = Snapshot(k, g)  BY <2>1, <2>2, <4>1 DEF Leads
        <4>3. QED  BY <2>4, <3>1, <4>2, SnapshotTells DEF SameContent
      <3>4. QED  BY <3>2, <3>3
    <2>5. QED  BY <2>3, <2>4
  <1>3. CASE ~IsTemplate(k) /\ journal[k].before = Gone
    <2>1. f = Gone /\ SameContent(f, g)  BY <1>1, <1>3, SnapshotTells DEF Leads
    <2>2. QED  BY <2>1 DEF SameContent
  <1>4. QED  BY <1>2, <1>3 DEF Acts

LEMMA Static ==
    ASSUME UNCHANGED <<profile, journal>>
    PROVE  /\ \A k, f, g : Leads(k, f, g)' = Leads(k, f, g)
           /\ \A k : /\ Acts(k)' = Acts(k) /\ ToDo(k)' = ToDo(k) /\ ToWrite(k)' = ToWrite(k)
                     /\ IsTemplate(k)' = IsTemplate(k)
           /\ Complete' = Complete
  <1>1. \A k : IsTemplate(k)' = IsTemplate(k)  BY DEF IsTemplate
  <1>2. \A k, f : Snapshot(k, f)' = Snapshot(k, f)  BY DEF Snapshot, IsTemplate
  <1>3. \A k, f, g : Leads(k, f, g)' = Leads(k, f, g)  BY <1>1, <1>2 DEF Leads
  <1>4. \A k : Acts(k)' = Acts(k)  BY <1>1 DEF Acts, Applies
  <1>5. \A k : ToDo(k)' = ToDo(k) /\ ToWrite(k)' = ToWrite(k)  BY <1>1, <1>4 DEF ToDo, ToWrite
  <1>6. Complete' = Complete  BY DEF Complete
  <1>7. QED  BY <1>1, <1>3, <1>4, <1>5, <1>6

(* The steps of a run that begins, captures and applies.                   *)
LEMMA ForwardHistory ==
    ASSUME TypeInv, ShapeInv, TypeInv', ShapeInv', ~misled', pc' # "ready",
           pc # "ready" => ~misled /\ \E v \in Seq(Found) : History(v),
           Begin \/ CaptureBefore \/ Inspect \/ (Command /\ pc = "apply") \/ CaptureAfter
    PROVE  /\ \E v \in Seq(Found) : History(v)'
           /\ pc' \in Forward
  <1> DEFINE n == Len(journal)
  <1>1. /\ journal \in Seq(Entry) /\ n \in Nat /\ file \in Found /\ file' \in Found
    BY DEF TypeInv, Entry
  <1>2. CASE Begin
    <2>1. n = 0 /\ journal' = journal /\ start' = file /\ file' = file /\ pc' = "capture"
      BY <1>2 DEF Begin, ShapeInv
    <2>2. PICK v \in Seq(Found) : v = <<file>>
      <3>1. <<file>> \in Seq(Found)  BY <1>1
      <3>2. QED  BY <3>1, Zenon
    <2>3. Len(v) = 1 /\ v[1] = file  BY <2>2
    <2>4. Len(journal') = 0  BY <2>1
    <2>5. History(v)'  BY <2>1, <2>3, <2>4 DEF History
    <2>6. QED  BY <2>1, <2>5 DEF Forward
  <1>3. CASE CaptureBefore
    <2>1. PICK v \in Seq(Found) : History(v)
      <3>1. pc # "ready"  BY <1>3 DEF CaptureBefore
      <3>2. QED  BY <3>1
    <2>2. Len(v) = n + 1 /\ v[n + 1] = file
      BY <1>3, <2>1 DEF History, Forward, CaptureBefore
    <2>3. CASE UNCHANGED journal /\ pc' = "failed"
      <3>1. UNCHANGED <<profile, journal, file, start>> /\ pc' = "failed"
        BY <1>3, <2>3 DEF CaptureBefore
      <3>2. History(v)'  BY <2>1, <2>2, <3>1, Static DEF History
      <3>3. QED  BY <2>3, <3>2 DEF Forward
    <2>4. CASE \E seen \in {file, Gone} :
                 /\ journal' = Append(journal, [before |-> Snapshot(i, seen), after |-> Uncaptured])
                 /\ misled' = (misled \/ seen # file)
                 /\ pc' = "inspect"
      <3>1. /\ journal' = Append(journal, [before |-> Snapshot(i, file), after |-> Uncaptured])
            /\ pc' = "inspect" /\ UNCHANGED <<profile, file, start>> /\ i = n + 1
        BY <1>3, <2>4 DEF CaptureBefore, ShapeInv
      <3> DEFINE e == [before |-> Snapshot(i, file), after |-> Uncaptured]
      <3>2. e \in Entry /\ e.before = Snapshot(i, file) /\ e.after = Uncaptured
        BY <1>1, SnapshotTypes DEF Entry
      <3> HIDE DEF e
      <3>3. /\ Len(journal') = n + 1 /\ journal'[n + 1] = e
            /\ \A k \in 1..n : journal'[k] = journal[k]
        BY <1>1, <3>1, <3>2 DEF e
      <3>4. PICK w \in Seq(Found) : w = Append(v, file)
        <4>1. Append(v, file) \in Seq(Found)  BY <1>1
        <4>2. QED  BY <4>1, Zenon
      <3>5. Len(w) = n + 2 /\ w[n + 2] = file /\ w[n + 1] = file
            /\ \A k \in 1..(n + 1) : w[k] = v[k]
        BY <1>1, <2>2, <3>4
      <3>6. \A k, f : Snapshot(k, f)' = Snapshot(k, f)  BY <3>1 DEF Snapshot, IsTemplate
      <3>7. \A k : IsTemplate(k)' = IsTemplate(k)  BY <3>1 DEF IsTemplate
      <3>8. \A k \in 1..n : Leads(k, w[k], w[k + 1])'
        <4> TAKE k \in 1..n
        <4>1. Leads(k, v[k], v[k + 1]) /\ journal'[k] = journal[k]
          BY <2>1, <3>3 DEF History
        <4>2. w[k] = v[k] /\ w[k + 1] = v[k + 1]  BY <1>1, <3>5
        <4>3. QED  BY <4>1, <4>2, <3>6, <3>7 DEF Leads
      <3>9. \A k : k = n + 1 => Leads(k, w[k], w[k + 1])'
        <4> SUFFICES ASSUME NEW k, k = n + 1 PROVE Leads(k, w[k], w[k + 1])'  OBVIOUS
        <4>1. w[k] = file /\ w[k + 1] = file /\ journal'[k] = e /\ k = i
          BY <1>1, <3>1, <3>3, <3>5
        <4>2. SameContent(w[k], w[k + 1])  BY <4>1 DEF SameContent
        <4>3. journal'[k].before = Snapshot(k, w[k]) /\ journal'[k].after = Uncaptured
          BY <3>2, <4>1
        <4>4. QED  BY <3>6, <3>7, <4>1, <4>2, <4>3 DEF Leads
      <3>10. w[1] = start'  BY <1>1, <2>1, <3>1, <3>5 DEF History
      <3>11. \A k \in 1..(n + 1) : Leads(k, w[k], w[k + 1])'
        <4> TAKE k \in 1..(n + 1)
        <4>1. CASE k = n + 1  BY <3>9, <4>1
        <4>2. CASE k \in 1..n  BY <3>8, <4>2
        <4>3. QED  BY <1>1, <4>1, <4>2
      <3>12. History(w)'
        <4>1. n + 1 + 1 = n + 2  BY <1>1
        <4>2. QED  BY <3>1, <3>3, <3>5, <3>10, <3>11, <4>1 DEF History
      <3>13. QED  BY <3>1, <3>12 DEF Forward
    <2>5. QED  BY <1>3, <2>3, <2>4 DEF CaptureBefore
  <1>4. CASE Inspect
    <2>1. PICK v \in Seq(Found) : History(v)
      <3>1. pc # "ready"  BY <1>4 DEF Inspect
      <3>2. QED  BY <3>1
    <2>2. /\ UNCHANGED <<profile, journal, file, start>> /\ pc \in Forward /\ pc' \in Forward
      BY <1>4 DEF Inspect, Forward
    <2>3. History(v)'  BY <2>1, <2>2, Static DEF History
    <2>4. QED  BY <2>2, <2>3
  <1>5. CASE Command /\ pc = "apply"
    <2> DEFINE c == Head(cmds)
    <2>1. PICK v \in Seq(Found) : History(v)
      <3>1. pc # "ready"  BY <1>5
      <3>2. QED  BY <3>1
    <2>2. /\ UNCHANGED <<profile, i, journal, start>> /\ pc \in Forward /\ pc' \in Forward
          /\ n = i /\ n > 0 /\ journal[n].after = Uncaptured
      BY <1>5 DEF Command, Forward, ShapeInv
    <2>3. c \in Allowed(n) /\ c \in Commands
      <3>1. cmds \in Seq(Allowed(n)) /\ cmds # <<>>  BY <1>5, <2>2 DEF ShapeInv, Command
      <3> DEFINE A == Allowed(n)
      <3> HIDE DEF A
      <3>2. c \in A  BY <3>1 DEF A
      <3>3. QED  BY <3>2, AllowedCommands DEF A
    <2> HIDE DEF c
    <2>4. file' = file \/ (~Refused(c, file) /\ file' = Effect(c, file))
      BY <1>5 DEF Command, c
    <2>5. Len(v) = n + 1 /\ v[n + 1] = file /\ Leads(n, v[n], v[n + 1]) /\ v[n] \in Found
      BY <1>1, <2>1, <2>2 DEF History
    <2>6. PICK w \in Seq(Found) : w = [v EXCEPT ![n + 1] = file']
      <3>1. [v EXCEPT ![n + 1] = file'] \in Seq(Found)  BY <1>1, <2>5
      <3>2. QED  BY <3>1, Zenon
    <2>7. /\ Len(w) = n + 1 /\ w[n + 1] = file'
          /\ \A k \in 1..n : w[k] = v[k]
      BY <1>1, <2>5, <2>6
    <2>8. Leads(n, w[n], w[n + 1])
      <3>1. journal[n].before = Snapshot(n, w[n]) /\ w[n] = v[n]
        BY <1>1, <2>2, <2>5, <2>7 DEF Leads
      <3>2. CASE IsTemplate(n)
        <4>1. c.do = "install" /\ c.arg \in Files /\ c.arg.attrs = {}
          BY <2>3, <3>2 DEF Allowed
        <4>2. c.arg # Gone  BY <4>1, FileFacts
        <4>3. \/ file' = file
              \/ file' = c.arg /\ (file = Gone \/ file.attrs = {})
          BY <2>4, <4>1 DEF Effect, Refused
        <4>4. file = v[n] \/ (file # Gone /\ file.attrs = {} /\ (v[n] = Gone \/ v[n].attrs = {}))
          BY <2>5, <3>2 DEF Leads
        <4>5. file' = v[n] \/ (file' # Gone /\ file'.attrs = {} /\ (v[n] = Gone \/ v[n].attrs = {}))
          BY <4>1, <4>2, <4>3, <4>4
        <4>6. QED  BY <2>2, <2>7, <3>1, <3>2, <4>5 DEF Leads
      <3>3. CASE ~IsTemplate(n)
        <4>1. c.do \notin {"install", "rm"}  BY <2>3, <3>3 DEF Allowed
        <4>2. SameContent(file, file')
          <5>1. CASE file' = file  BY <5>1 DEF SameContent
          <5>2. CASE ~Refused(c, file) /\ file' = Effect(c, file)
            BY <1>1, <2>3, <4>1, <5>2, EffectType DEF SameContent
          <5>3. QED  BY <2>4, <5>1, <5>2
        <4>3. SameContent(v[n], file)  BY <2>5, <3>3 DEF Leads
        <4>4. SameContent(v[n], file')  BY <4>2, <4>3 DEF SameContent
        <4>5. QED  BY <2>2, <2>7, <3>1, <3>3, <4>4 DEF Leads
      <3>4. QED  BY <3>2, <3>3
    <2>9. \A k \in 1..n : Leads(k, w[k], w[k + 1])
      <3> TAKE k \in 1..n
      <3>1. CASE k = n  BY <2>8, <3>1
      <3>2. CASE k # n
        <4>1. k \in 1..n /\ k + 1 \in 1..n  BY <1>1, <3>2
        <4>2. w[k] = v[k] /\ w[k + 1] = v[k + 1]  BY <2>7, <4>1
        <4>3. QED  BY <2>1, <4>2 DEF History
      <3>3. QED  BY <3>1, <3>2
    <2>10. w[1] = start'  BY <1>1, <2>1, <2>2, <2>7 DEF History
    <2>11. History(w)'  BY <2>2, <2>7, <2>9, <2>10, Static DEF History
    <2>12. QED  BY <2>2, <2>11
  <1>6. CASE CaptureAfter
    <2>1. PICK v \in Seq(Found) : History(v)
      <3>1. pc # "ready"  BY <1>6 DEF CaptureAfter
      <3>2. QED  BY <3>1
    <2>2. /\ UNCHANGED <<profile, file, start>> /\ pc = "apply" /\ pc \in Forward /\ pc' \in Forward
          /\ n = i /\ n > 0
      BY <1>6 DEF CaptureAfter, Forward, ShapeInv
    <2>3. Len(v) = n + 1 /\ v[n + 1] = file  BY <2>1, <2>2 DEF History
    <2>4. CASE UNCHANGED journal
      <3>1. History(v)'  BY <2>1, <2>2, <2>4, Static DEF History
      <3>2. QED  BY <2>2, <3>1
    <2>5. CASE \E seen \in {file, Gone} :
                 /\ IsTemplate(i) => seen = file
                 /\ journal' = [journal EXCEPT ![i].after = Snapshot(i, seen)]
      <3>1. PICK seen \in {file, Gone} :
                 /\ IsTemplate(i) => seen = file
                 /\ journal' = [journal EXCEPT ![i].after = Snapshot(i, seen)]
        BY <2>5
      <3> DEFINE s == Snapshot(i, seen)
                 e == [journal[i] EXCEPT !.after = s]
      <3>2. journal[n] \in Entry /\ seen \in Found  BY <1>1, <2>2 DEF Found
      <3>3. e \in Entry /\ e.before = journal[n].before /\ e.after = s
        BY <2>2, <3>2, SnapshotTypes DEF Entry
      <3>4. journal' = [journal EXCEPT ![n] = e]  BY <2>2, <3>1
      <3> HIDE DEF e, s
      <3>5. /\ Len(journal') = n /\ journal'[n] = e
            /\ \A k \in 1..n : k # n => journal'[k] = journal[k]
        BY <1>1, <2>2, <3>3, <3>4
      <3>6. \A k, f : Snapshot(k, f)' = Snapshot(k, f)  BY <2>2 DEF Snapshot, IsTemplate
      <3>7. \A k : IsTemplate(k)' = IsTemplate(k)  BY <2>2 DEF IsTemplate
      <3>8. s = Snapshot(n, file) \/ (s = Gone /\ ~IsTemplate(n))
        BY <2>2, <3>1, GoneSnapshot DEF s
      <3>9. \A k \in 1..n : Leads(k, v[k], v[k + 1])'
        <4> TAKE k \in 1..n
        <4>1. Leads(k, v[k], v[k + 1])  BY <2>1 DEF History
        <4>2. CASE k = n
          BY <2>3, <3>3, <3>5, <3>6, <3>7, <3>8, <4>1, <4>2 DEF Leads
        <4>3. CASE k # n
          <5>1. journal'[k] = journal[k]  BY <3>5, <4>3
          <5>2. QED  BY <3>6, <3>7, <4>1, <5>1 DEF Leads
        <4>4. QED  BY <4>2, <4>3
      <3>10. History(v)'  BY <2>1, <2>2, <2>3, <3>5, <3>9 DEF History
      <3>11. QED  BY <2>2, <3>10
    <2>6. QED  BY <1>6, <2>4, <2>5 DEF CaptureAfter
  <1>7. QED  BY <1>2, <1>3, <1>4, <1>5, <1>6

-----------------------------------------------------------------------------
(* Where a restoration of the path f may be, p being what is there and cs  *)
(* the commands that are left: a template's, after its install, which is   *)
(* undone on a path without locks, and file_meta's.                        *)
Putting(f, p, cs) ==
    /\ f # Gone /\ f.attrs = {} /\ p # Gone /\ p.attrs = {} /\ p.content = f.content
    /\ \/ cs = PutOwner(f) /\ p.mode = f.mode
       \/ cs = Chmod(f.mode) /\ p.owner = f.owner

Stamping(f, p, cs) ==
    /\ f # Gone /\ p # Gone
    /\ \/ cs = StampBack(f)
       \/ cs = StampMode(f) /\ p.attrs = {}
       \/ cs = StampOwner(f) /\ p.attrs = {} /\ p.mode = f.mode
       \/ /\ cs \in {StampLocks(f), Chattr("chattr+", f.attrs)}
          /\ p.attrs = {} /\ p.mode = Plain(f.mode) /\ p.owner = f.owner

LEMMA PutFirst ==
    ASSUME NEW f \in Found, NEW p \in Found, NEW cs, cs = IF f = Gone THEN Rm ELSE PutBack(f)
    PROVE  /\ Refused(Head(cs), p) <=> p # Gone /\ p.attrs # {}
           /\ f = Gone => Effect(Head(cs), p) = Gone /\ Tail(cs) = <<>>
           /\ f # Gone => /\ Effect(Head(cs), p) = Put(f) /\ Tail(cs) = PutOwner(f)
                          /\ PutOwner(f) # <<>>
                          /\ f.attrs = {} => Putting(f, Put(f), PutOwner(f))
  <1>1. CASE f = Gone
    <2>1. Head(cs) = [do |-> "rm", arg |-> Gone] /\ Tail(cs) = <<>>
      BY <1>1, Single DEF Rm
    <2>2. /\ Effect([do |-> "rm", arg |-> Gone], p) = Gone
          /\ Refused([do |-> "rm", arg |-> Gone], p) <=> p # Gone /\ p.attrs # {}
      <3>1. Gone \in Found  BY DEF Found
      <3>2. QED  BY <3>1, Installed
    <2>3. QED  BY <1>1, <2>1, <2>2
  <1>2. CASE f \in Files
    <2>1. f # Gone /\ Put(f) \in Files /\ Put(f) # Gone /\ Put(f) \in Found
      BY <1>2, Whole, FileFacts DEF Found
    <2>2. /\ Head(cs) = [do |-> "install", arg |-> Put(f)] /\ Tail(cs) = PutOwner(f)
          /\ PutOwner(f) # <<>>
      BY <1>2, <2>1, PutBackFacts
    <2>3. /\ Effect([do |-> "install", arg |-> Put(f)], p) = Put(f)
          /\ Refused([do |-> "install", arg |-> Put(f)], p) <=> p # Gone /\ p.attrs # {}
      BY <2>1, Installed
    <2>4. Put(f).attrs = {} /\ Put(f).content = f.content /\ Put(f).mode = f.mode  BY DEF Put
    <2>5. f.attrs = {} => Putting(f, Put(f), PutOwner(f))  BY <2>1, <2>4 DEF Putting
    <2>6. QED  BY <2>1, <2>2, <2>3, <2>5
  <1>3. QED  BY <1>1, <1>2 DEF Found

LEMMA PutNext ==
    ASSUME NEW f \in Found, NEW p \in Found, NEW cs, Putting(f, p, cs)
    PROVE  /\ ~Refused(Head(cs), p)
           /\ IF Tail(cs) = <<>> THEN Effect(Head(cs), p) = f
              ELSE Putting(f, Effect(Head(cs), p), Tail(cs))
  <1>1. f \in Files /\ p \in Files  BY DEF Putting, Found
  <1>2. f.mode \in Modes /\ f.owner \in Owners  BY <1>1, FileFacts
  <1>3. CASE cs = PutOwner(f) /\ p.mode = f.mode
    <2> DEFINE c == [do |-> "chown", arg |-> f.owner]
               g == Effect(c, p)
    <2>1. Head(cs) = c /\ Tail(cs) = PutMode(f)  BY <1>1, <1>3, PutBackFacts
    <2>2. /\ g \in Files /\ g.owner = f.owner /\ g.mode = Plain(f.mode) /\ g.content = f.content
          /\ g.attrs = {} /\ f.attrs = {} /\ ~Refused(c, p)
      BY <1>1, <1>2, <1>3, Chowned DEF Putting
    <2>3. g # Gone  BY <2>2, FileFacts
    <2> HIDE DEF c, g
    <2>4. CASE f.mode.suid
      <3>1. Tail(cs) = Chmod(f.mode) /\ Chmod(f.mode) # <<>>
        BY <2>1, <2>4 DEF PutMode, Chmod
      <3>2. Putting(f, g, Tail(cs))  BY <2>2, <2>3, <3>1 DEF Putting
      <3>3. QED  BY <2>1, <2>2, <3>1, <3>2 DEF g
    <2>5. CASE ~f.mode.suid
      <3>1. Tail(cs) = <<>>  BY <2>1, <2>5 DEF PutMode
      <3>2. Plain(f.mode) = f.mode
        <4>1. f.mode.suid = FALSE  BY <1>2, <2>5, PlainFacts
        <4>2. QED  BY <1>2, <4>1, PlainFacts
      <3>3. g = f  BY <1>1, <2>2, <3>2, SameFile
      <3>4. QED  BY <2>1, <2>2, <3>1, <3>3 DEF g
    <2>6. QED  BY <2>4, <2>5
  <1>4. CASE cs = Chmod(f.mode) /\ p.owner = f.owner
    <2> DEFINE c == [do |-> "chmod", arg |-> f.mode]
               g == Effect(c, p)
    <2>1. Head(cs) = c /\ Tail(cs) = <<>>  BY <1>4, Single DEF Chmod
    <2>2. /\ g \in Files /\ g.owner = f.owner /\ g.mode = f.mode /\ g.content = f.content
          /\ g.attrs = f.attrs /\ ~Refused(c, p)
      BY <1>1, <1>2, <1>4, Chmodded DEF Putting
    <2> HIDE DEF c, g
    <2>3. g = f  BY <1>1, <2>2, SameFile
    <2>4. QED  BY <2>1, <2>2, <2>3 DEF g
  <1>5. QED  BY <1>3, <1>4 DEF Putting

(* What file_meta restores has lost its set-user-ID bit.                   *)
Restamped(f, p) ==
    p # Gone /\ p.mode = Plain(f.mode) /\ p.owner = f.owner /\ p.attrs = f.attrs

LEMMA StampNext ==
    ASSUME NEW f \in Found, NEW p \in Found, NEW cs, Stamping(f, p, cs)
    PROVE  LET g == Effect(Head(cs), p) IN
           /\ ~Refused(Head(cs), p) /\ g \in Files /\ g.content = p.content
           /\ IF Tail(cs) = <<>> THEN Restamped(f, g) ELSE Stamping(f, g, Tail(cs))
  <1>1. f \in Files /\ p \in Files  BY DEF Stamping, Found
  <1>2. f.mode \in Modes /\ f.owner \in Owners /\ f.attrs \in SUBSET Letters  BY <1>1, FileFacts
  <1>3. CASE cs = StampBack(f)
    <2> DEFINE c == [do |-> "chattr-", arg |-> Letters]
               g == Effect(c, p)
    <2>1. Head(cs) = c /\ Tail(cs) = StampMode(f) /\ StampMode(f) # <<>>
      BY <1>1, <1>3, StampBackFacts
    <2>2. g \in Files /\ g.content = p.content /\ g.attrs = p.attrs \ Letters /\ ~Refused(c, p)
      <3>1. Letters \in SUBSET Letters  OBVIOUS
      <3>2. QED  BY <1>1, <3>1, Chattred
    <2>3. g.attrs = {} /\ g # Gone  BY <1>1, <2>2, FileFacts
    <2> HIDE DEF c, g
    <2>4. Stamping(f, g, Tail(cs))  BY <2>1, <2>3, <1>1, FileFacts DEF Stamping
    <2>5. QED  BY <2>1, <2>2, <2>4 DEF g
  <1>4. CASE cs = StampMode(f) /\ p.attrs = {}
    <2> DEFINE c == [do |-> "chmod", arg |-> f.mode]
               g == Effect(c, p)
    <2>1. Head(cs) = c /\ Tail(cs) = StampOwner(f) /\ StampOwner(f) # <<>>
      BY <1>1, <1>4, StampBackFacts
    <2>2. g \in Files /\ g.content = p.content /\ g.mode = f.mode /\ g.attrs = {} /\ ~Refused(c, p)
      BY <1>1, <1>2, <1>4, Chmodded
    <2>3. g # Gone /\ f # Gone  BY <1>1, <2>2, FileFacts
    <2> HIDE DEF c, g
    <2>4. Stamping(f, g, Tail(cs))  BY <2>1, <2>2, <2>3 DEF Stamping
    <2>5. QED  BY <2>1, <2>2, <2>4 DEF g
  <1>5. CASE cs = StampOwner(f) /\ p.attrs = {} /\ p.mode = f.mode
    <2> DEFINE c == [do |-> "chown", arg |-> f.owner]
               g == Effect(c, p)
    <2>1. Head(cs) = c /\ Tail(cs) = StampLocks(f)  BY <1>1, <1>5, StampBackFacts
    <2>2. /\ g \in Files /\ g.content = p.content /\ g.mode = Plain(f.mode) /\ g.owner = f.owner
          /\ g.attrs = {} /\ ~Refused(c, p)
      BY <1>1, <1>2, <1>5, Chowned
    <2>3. g # Gone /\ f # Gone  BY <1>1, <2>2, FileFacts
    <2> HIDE DEF c, g
    <2>4. Stamping(f, g, Tail(cs))  BY <2>1, <2>2, <2>3 DEF Stamping
    <2>5. Tail(cs) # <<>>
      <3>1. StampLocks(f) # <<>>  BY <1>1, <1>2, StampLocksFacts DEF Chattr
      <3>2. QED  BY <2>1, <3>1
    <2>6. QED  BY <2>1, <2>2, <2>4, <2>5 DEF g
  <1>6. ASSUME NEW do \in {"chattr-", "chattr+"}, NEW a \in SUBSET Letters,
               Head(cs) = [do |-> do, arg |-> a], p.attrs = {}
        PROVE  LET g == Effect(Head(cs), p) IN
               /\ ~Refused(Head(cs), p) /\ g \in Files /\ g # Gone /\ g.content = p.content
               /\ g.mode = p.mode /\ g.owner = p.owner
               /\ g.attrs = IF do = "chattr-" THEN {} ELSE a
    <2> DEFINE c == [do |-> do, arg |-> a]
               g == Effect(c, p)
    <2>1. /\ g \in Files /\ g.content = p.content /\ g.mode = p.mode /\ g.owner = p.owner
          /\ ~Refused(c, p)
          /\ g.attrs = IF do = "chattr-" THEN p.attrs \ a ELSE p.attrs \cup a
      <3>1. CASE do = "chattr-"  BY <1>1, <3>1, Chattred
      <3>2. CASE do = "chattr+"  BY <1>1, <3>2, Chattred
      <3>3. QED  BY <3>1, <3>2
    <2> HIDE DEF g
    <2>2. g # Gone /\ g.attrs = IF do = "chattr-" THEN {} ELSE a  BY <1>6, <2>1, FileFacts
    <2>3. QED  BY <1>6, <2>1, <2>2 DEF g
  <1>7. CASE /\ cs \in {StampLocks(f), Chattr("chattr+", f.attrs)}
             /\ p.attrs = {} /\ p.mode = Plain(f.mode) /\ p.owner = f.owner
    <2> DEFINE g == Effect(Head(cs), p)
    <2>1. CASE cs = Chattr("chattr+", f.attrs)
      <3>1. Head(cs) = [do |-> "chattr+", arg |-> f.attrs] /\ Tail(cs) = <<>>
        BY <2>1, Single DEF Chattr
      <3>2. /\ ~Refused(Head(cs), p) /\ g \in Files /\ g # Gone /\ g.content = p.content
            /\ g.mode = p.mode /\ g.owner = p.owner /\ g.attrs = f.attrs
        BY <1>2, <1>6, <1>7, <3>1
      <3> HIDE DEF g
      <3>3. Restamped(f, g)  BY <1>7, <3>2 DEF Restamped
      <3>4. QED  BY <3>1, <3>2, <3>3 DEF g
    <2>2. CASE f.attrs = {} /\ cs = StampLocks(f)
      <3>1. Head(cs) = [do |-> "chattr-", arg |-> Letters] /\ Tail(cs) = <<>>
        BY <1>1, <2>2, StampLocksFacts, Single DEF Chattr
      <3>2. /\ ~Refused(Head(cs), p) /\ g \in Files /\ g # Gone /\ g.content = p.content
            /\ g.mode = p.mode /\ g.owner = p.owner /\ g.attrs = {}
        <4>1. Letters \in SUBSET Letters  OBVIOUS
        <4>2. QED  BY <1>6, <1>7, <3>1, <4>1
      <3> HIDE DEF g
      <3>3. Restamped(f, g)  BY <1>7, <2>2, <3>2 DEF Restamped
      <3>4. QED  BY <3>1, <3>2, <3>3 DEF g
    <2>3. CASE f.attrs = Letters /\ cs = StampLocks(f)
      BY <1>1, <2>1, <2>3, StampLocksFacts
    <2>4. CASE f.attrs \notin {{}, Letters} /\ cs = StampLocks(f)
      <3>1. /\ Head(cs) = [do |-> "chattr-", arg |-> Letters \ f.attrs]
            /\ Tail(cs) = Chattr("chattr+", f.attrs)
        BY <1>1, <2>4, StampLocksFacts
      <3>2. /\ ~Refused(Head(cs), p) /\ g \in Files /\ g # Gone /\ g.content = p.content
            /\ g.mode = p.mode /\ g.owner = p.owner /\ g.attrs = {}
        <4>1. Letters \ f.attrs \in SUBSET Letters  OBVIOUS
        <4>2. QED  BY <1>6, <1>7, <3>1, <4>1
      <3> HIDE DEF g
      <3>3. Stamping(f, g, Tail(cs))  BY <1>1, <1>7, <3>1, <3>2, FileFacts DEF Stamping
      <3>4. Tail(cs) # <<>>  BY <3>1 DEF Chattr
      <3>5. QED  BY <3>2, <3>3, <3>4 DEF g
    <2>5. QED  BY <1>7, <2>1, <2>2, <2>3, <2>4
  <1>8. QED  BY <1>3, <1>4, <1>5, <1>7 DEF Stamping

-----------------------------------------------------------------------------
(* What a rollback that has undone the steps after the j-th one has made   *)
(* of the path, p, and where it is while it undoes step k.                 *)
Stamped == \E k \in DOMAIN profile : ~IsTemplate(k)
Alike(f, g) == f = g \/ (g # Gone /\ f \in OrPlain(g) /\ Stamped)

UndoneTo(v, j, p) ==
    /\ ToWrite(j) \/ SameContent(p, v[j + 1])
    /\ ToDo(j) \/ Alike(p, v[j + 1])
    /\ j = Len(journal) /\ ~Complete => p = v[j + 1]
    /\ faults = 0 => Alike(p, v[j + 1])

Restoring(v, k, p, cs) ==
    IF IsTemplate(k)
    THEN \/ /\ cs = IF v[k] = Gone THEN Rm ELSE PutBack(v[k])
            /\ \/ v[k] = Gone \/ v[k].attrs = {}
               \/ k = Len(journal) /\ ~Complete /\ p = v[k] /\ v[k + 1] = v[k]
            /\ faults = 0 => Alike(p, v[k + 1])
         \/ Putting(v[k], p, cs)
    ELSE /\ Stamping(v[k], p, cs)
         /\ ToWrite(k) \/ SameContent(p, v[k + 1])
         /\ faults = 0 => SameContent(p, v[k + 1])

Undoing == {"revert", "restored", "refused", "stuck", "undo failed"}

UndoInv(v) ==
    pc \in Undoing =>
      /\ ToWrite(Len(journal)) \/ SameContent(file, v[Len(journal) + 1])
      /\ ToDo(Len(journal)) \/ file = v[Len(journal) + 1]
      /\ pc = "revert" =>
           IF cmds = <<>> THEN UndoneTo(v, i, file)
           ELSE i < Len(journal) /\ Acts(i + 1) /\ Restoring(v, i + 1, file, cmds)
      /\ pc = "restored" => UndoneTo(v, 0, file)
      /\ faults = 0 =>
           /\ pc # "stuck"
           /\ pc = "refused" => Alike(file, v[Len(journal) + 1])
           /\ pc = "undo failed" /\ i < Len(journal) =>
                file # Gone /\ file.attrs # {} /\ IsTemplate(Len(journal))

LEMMA StaticUndo ==
    ASSUME UNCHANGED <<profile, journal>>, faults' = 0 => faults = 0
    PROVE  /\ Stamped' = Stamped
           /\ \A f, g : Alike(f, g)' = Alike(f, g)
           /\ \A v, j, p : UndoneTo(v, j, p) => UndoneTo(v, j, p)'
           /\ \A v, k, p, cs : Restoring(v, k, p, cs) => Restoring(v, k, p, cs)'
  <1>1. Stamped' = Stamped  BY DEF Stamped, IsTemplate
  <1>2. \A f, g : Alike(f, g)' = Alike(f, g)  BY <1>1 DEF Alike
  <1>3. \A v, j, p : UndoneTo(v, j, p) => UndoneTo(v, j, p)'
    BY <1>2, Static DEF UndoneTo
  <1>4. \A v, k, p, cs : Restoring(v, k, p, cs) => Restoring(v, k, p, cs)'
    BY <1>2, Static DEF Restoring
  <1>5. QED  BY <1>1, <1>2, <1>3, <1>4

LEMMA AlikeFacts ==
    ASSUME NEW f \in Found, NEW g \in Found
    PROVE  /\ Alike(f, f) /\ SameContent(f, f)
           /\ Alike(f, g) => /\ SameContent(f, g)
                             /\ g # Gone => f # Gone /\ f.attrs = g.attrs
  <1>1. Alike(f, f) /\ SameContent(f, f)  BY DEF Alike, SameContent
  <1>2. ASSUME Alike(f, g), g # Gone
        PROVE  SameContent(f, g) /\ f # Gone /\ f.attrs = g.attrs
    <2>1. CASE f = g  BY <1>2, <2>1 DEF SameContent
    <2>2. CASE f = [g EXCEPT !.mode = Plain(@)]
      <3> DEFINE m == Plain(g.mode)
      <3>1. g \in Files /\ f \in Files \cup {Gone}  BY <1>2 DEF Found
      <3>2. m \in Modes  BY <3>1, FileFacts, PlainFacts
      <3> HIDE DEF m
      <3>3. f = [g EXCEPT !.mode = m]  BY <2>2 DEF m
      <3>4. [g EXCEPT !.mode = m] \in Files  BY <3>1, <3>2 DEF Files
      <3>5. f # Gone  BY <3>3, <3>4, FileFacts
      <3>6. [g EXCEPT !.mode = m].content = g.content /\ [g EXCEPT !.mode = m].attrs = g.attrs
        BY <3>1 DEF Files
      <3>7. QED  BY <1>2, <3>3, <3>5, <3>6 DEF SameContent
    <2>3. QED  BY <1>2, <2>1, <2>2 DEF Alike, OrPlain
  <1>3. ASSUME Alike(f, g), g = Gone PROVE SameContent(f, g)
    BY <1>3 DEF Alike, SameContent
  <1>4. QED  BY <1>1, <1>2, <1>3

(* A step has been undone: what is there is what it found.                 *)
LEMMA UndonePut ==
    ASSUME TypeInv, NEW v \in Seq(Found), NEW k \in 1..Len(journal), Len(v) = Len(journal) + 1
    PROVE  UndoneTo(v, k - 1, v[k])
  <1>1. k - 1 + 1 = k /\ k - 1 # Len(journal) /\ v[k] \in Found
    BY DEF TypeInv
  <1>2. Alike(v[k], v[k]) /\ SameContent(v[k], v[k])  BY <1>1, AlikeFacts
  <1>3. QED  BY <1>1, <1>2 DEF UndoneTo

LEMMA UndoneStamp ==
    ASSUME TypeInv, ShapeInv, NEW v \in Seq(Found), NEW k \in 1..Len(journal), NEW p \in Found,
           History(v), ~IsTemplate(k), Acts(k), Restamped(v[k], p), v[k] # Gone,
           ToWrite(k) \/ SameContent(p, v[k + 1]), faults = 0 => SameContent(p, v[k + 1])
    PROVE  UndoneTo(v, k - 1, p)
  <1> DEFINE f == v[k]
  <1>1. /\ journal \in Seq(Entry) /\ Len(journal) \in Nat /\ Len(v) = Len(journal) + 1
        /\ Leads(k, v[k], v[k + 1])
    BY DEF TypeInv, Entry, History
  <1>2. k - 1 + 1 = k /\ k - 1 # Len(journal) /\ f \in Found /\ k \in DOMAIN profile
    BY <1>1, ProfileFacts DEF ShapeInv
  <1>3. f \in Files /\ p \in Files /\ p # Gone  BY <1>2 DEF Found, Restamped
  <1>4. SameContent(f, v[k + 1])  BY <1>1 DEF Leads
  <1>5. SameContent(p, v[k + 1]) => SameContent(p, f)  BY <1>4 DEF SameContent
  <1>6. SameContent(p, f) => Alike(p, f)
    <2> SUFFICES ASSUME SameContent(p, f) PROVE Alike(p, f)  OBVIOUS
    <2> DEFINE m == Plain(f.mode)
               g == [f EXCEPT !.mode = m]
    <2>1. m \in Modes  BY <1>3, FileFacts, PlainFacts
    <2>2. p.content = f.content /\ p.mode = m /\ p.owner = f.owner /\ p.attrs = f.attrs
      BY <1>3 DEF SameContent, Restamped
    <2> HIDE DEF m
    <2>3. g \in Files  BY <1>3, <2>1 DEF Files
    <2>4. g.content = f.content /\ g.mode = m /\ g.owner = f.owner /\ g.attrs = f.attrs
      BY <1>3 DEF Files
    <2> HIDE DEF g
    <2>5. p = g  BY <1>3, <2>2, <2>3, <2>4, SameFile
    <2>6. g \in OrPlain(f)  BY DEF OrPlain, g, m
    <2>7. Stamped  BY <1>2 DEF Stamped
    <2>8. QED  BY <2>5, <2>6, <2>7 DEF Alike
  <1>7. ToWrite(k) <=> ToWrite(k - 1)
    <2>1. \A m : m \in 1..k <=> m \in 1..(k - 1) \/ m = k  BY <1>1
    <2>2. QED  BY <2>1 DEF ToWrite
  <1>8. ToWrite(k - 1) => ToDo(k - 1)  BY DEF ToWrite, ToDo
  <1> HIDE DEF f
  <1>9. QED  BY <1>2, <1>5, <1>6, <1>7, <1>8 DEF UndoneTo, f

-----------------------------------------------------------------------------
(* Every step of a rollback undoes.                                        *)
LEMMA UndoHistory ==
    ASSUME NEW v, History(v), UNCHANGED <<profile, journal, start>>, pc' \notin Forward
    PROVE  History(v)'
  BY Static DEF History

LEMMA UndoFirst ==
    ASSUME TypeInv, ShapeInv, NEW v \in Seq(Found), History(v), UndoInv(v),
           Rollback \/ ForceRollback \/ Restored
    PROVE  UndoInv(v)'
  <1> DEFINE n == Len(journal)
             g == v[n + 1]
  <1>1. /\ journal \in Seq(Entry) /\ n \in Nat /\ Len(v) = n + 1
        /\ g \in Found /\ file \in Found
    BY DEF TypeInv, Entry, History
  <1>2. UNCHANGED <<profile, file, cmds, journal, start, misled, faults>> /\ cmds = <<>>
    BY DEF Rollback, ForceRollback, Restored, ShapeInv
  <1>3. CASE Restored
    <2>1. pc = "revert" /\ cmds = <<>> /\ i = 0 /\ pc' = "restored"  BY <1>3 DEF Restored
    <2>2. UndoneTo(v, 0, file)  BY <2>1 DEF UndoInv, Undoing
    <2>3. UndoneTo(v, 0, file)'  BY <1>2, <2>2, StaticUndo
    <2>4. (ToWrite(n) \/ SameContent(file, g)) /\ (ToDo(n) \/ file = g)
      BY <2>1 DEF UndoInv, Undoing
    <2>5. QED  BY <1>2, <2>1, <2>3, <2>4, Static DEF UndoInv
  <1>4. CASE Rollback \/ ForceRollback
    <2>1. /\ pc \in {"failed", "applied", "stuck", "refused"} /\ i' = n
          /\ pc' \in {"revert", "refused", "stuck", "undo failed"}
          /\ pc' = "stuck" => Complete
          /\ pc' = "stuck" => pc = "failed"
      BY <1>4 DEF Rollback, ForceRollback, Stuck
    <2>2. pc' # "stuck"  BY <2>1 DEF ShapeInv
    <2>3. /\ ToWrite(n) \/ SameContent(file, g)
          /\ ToDo(n) \/ file = g
          /\ ~Complete => file = g
          /\ faults = 0 => Alike(file, g)
      <3>1. CASE pc \in {"failed", "applied"}
        <4>1. file = g  BY <3>1 DEF History, Forward
        <4>2. QED  BY <1>1, <4>1, AlikeFacts
      <3>2. CASE pc \in {"stuck", "refused"}
        BY <3>2 DEF UndoInv, Undoing, ShapeInv
      <3>3. QED  BY <2>1, <3>1, <3>2
    <2>4. UndoneTo(v, n, file)
      <3>1. ToDo(n) \/ Alike(file, g)  BY <1>1, <2>3, AlikeFacts
      <3>2. QED  BY <2>3, <3>1 DEF UndoneTo
    <2>5. UndoneTo(v, n, file)'  BY <1>2, <2>4, StaticUndo
    <2>6. faults' = 0 => Alike(file, g)'  BY <1>2, <2>3, StaticUndo
    <2>7. (ToWrite(n) \/ SameContent(file, g))' /\ (ToDo(n) \/ file = g)'
      BY <1>2, <2>3, Static
    <2>8. ~(i' < Len(journal'))
      <3>1. Len(journal') = n /\ i' = n  BY <1>2, <2>1
      <3>2. QED  BY <1>1, <3>1
    <2>9. i' = n' /\ cmds' = <<>>  BY <1>2, <2>1
    <2> HIDE DEF g
    <2>10. QED  BY <2>1, <2>2, <2>5, <2>6, <2>7, <2>8, <2>9 DEF UndoInv, g
  <1>5. QED  BY <1>3, <1>4

LEMMA ReachStep ==
    ASSUME TypeInv, ShapeInv, NEW v \in Seq(Found), History(v), UndoInv(v), pc = "revert", i > 0,
           cmds = <<>>
    PROVE  /\ i \in 1..Len(journal) /\ i \in DOMAIN profile /\ UndoneTo(v, i, file)
           /\ v[i] \in Found /\ v[i + 1] \in Found /\ file \in Found
           /\ Leads(i, v[i], v[i + 1])
           /\ journal[i].before = Snapshot(i, v[i])
  <1>1. journal \in Seq(Entry) /\ Len(journal) \in Nat /\ Len(v) = Len(journal) + 1 /\ i \in Nat
    BY DEF TypeInv, Entry, History
  <1>2. i \in 1..Len(journal) /\ i \in DOMAIN profile  BY <1>1, ProfileFacts DEF ShapeInv
  <1>3. UndoneTo(v, i, file)  BY DEF UndoInv, Undoing
  <1>4. v[i] \in Found /\ v[i + 1] \in Found  BY <1>1, <1>2
  <1>5. Leads(i, v[i], v[i + 1])  BY <1>2 DEF History
  <1>6. journal[i].before = Snapshot(i, v[i])  BY <1>5 DEF Leads
  <1>7. file \in Found  BY DEF TypeInv
  <1>8. QED  BY <1>2, <1>3, <1>4, <1>5, <1>6, <1>7

LEMMA BeginStepBack ==
    ASSUME TypeInv, ShapeInv, NEW v \in Seq(Found), History(v), UndoInv(v),
           pc = "revert", i > 0, cmds = <<>>, Acts(i)
    PROVE  /\ IsTemplate(i) => Restoring(v, i, file, TP!RestoreCommands(journal[i].before))
           /\ ~IsTemplate(i) /\ file # Gone =>
                Restoring(v, i, file, FM!RestoreCommands(journal[i].before))
           /\ ~IsTemplate(i) /\ file = Gone => faults # 0
  <1> DEFINE f == v[i]
             g == v[i + 1]
  <1>1. /\ i \in 1..Len(journal) /\ i \in DOMAIN profile /\ UndoneTo(v, i, file)
        /\ f \in Found /\ g \in Found /\ file \in Found
        /\ Leads(i, f, g) /\ journal[i].before = Snapshot(i, f)
    BY ReachStep
  <1>2. /\ ToWrite(i) \/ SameContent(file, g)
        /\ i = Len(journal) /\ ~Complete => file = g
        /\ faults = 0 => Alike(file, g) /\ SameContent(file, g)
    BY <1>1, AlikeFacts DEF UndoneTo
  <1>3. CASE IsTemplate(i)
    <2>1. TP!RestoreCommands(journal[i].before) = IF f = Gone THEN Rm ELSE PutBack(f)
      <3>1. CASE f = Gone
        BY <1>1, <3>1, GoneSnapshot DEF TP!RestoreCommands, TP!Rm, Rm
      <3>2. CASE f \in Files
        <4>1. f # Gone /\ journal[i].before = TP!Snapshot(f)
          BY <1>1, <1>3, <3>2, FileFacts DEF Snapshot
        <4>2. QED  BY <3>2, <4>1, PutBackFacts
      <3>3. QED  BY <1>1, <3>1, <3>2 DEF Found
    <2>2. \/ f = Gone \/ f.attrs = {}
          \/ i = Len(journal) /\ ~Complete /\ file = f /\ g = f
      <3>1. CASE g # f  BY <1>1, <1>3, <3>1 DEF Leads
      <3>2. CASE g = f
        <4>1. journal[i].after # Snapshot(i, f)  BY <1>1 DEF Acts, Applies
        <4>2. journal[i].after = Uncaptured  BY <1>1, <1>3, <3>2, <4>1 DEF Leads
        <4>3. i = Len(journal)  BY <1>1, <4>2 DEF ShapeInv, TypeInv
        <4>4. ~Complete  BY <1>1, <4>2 DEF Complete
        <4>5. QED  BY <1>2, <3>2, <4>3, <4>4
      <3>3. QED  BY <3>1, <3>2
    <2> HIDE DEF f, g
    <2>3. Restoring(v, i, file, TP!RestoreCommands(journal[i].before))
      BY <1>2, <1>3, <2>1, <2>2 DEF Restoring, f, g
    <2>4. QED  BY <1>3, <2>3
  <1>4. CASE ~IsTemplate(i)
    <2>1. f # Gone  BY <1>1, <1>4, GoneSnapshot DEF Acts
    <2>2. f \in Files /\ journal[i].before = FM!Snapshot(f)
      BY <1>1, <1>4, <2>1 DEF Snapshot, Found
    <2>3. FM!RestoreCommands(journal[i].before) = StampBack(f)  BY <2>2, StampBackFacts
    <2>4. SameContent(f, g)  BY <1>1, <1>4 DEF Leads
    <2>5. file = Gone => faults # 0  BY <1>2, <2>1, <2>4 DEF SameContent
    <2>6. file # Gone => Stamping(f, file, StampBack(f))  BY <2>1 DEF Stamping
    <2> HIDE DEF f, g
    <2>7. file # Gone => Restoring(v, i, file, FM!RestoreCommands(journal[i].before))
      BY <1>2, <1>4, <2>3, <2>6 DEF Restoring, f, g
    <2>8. QED  BY <1>4, <2>5, <2>7
  <1>5. QED  BY <1>3, <1>4

LEMMA SkipStep ==
    ASSUME TypeInv, ShapeInv, NEW v \in Seq(Found), History(v), UndoInv(v),
           pc = "revert", i > 0, cmds = <<>>, ~Acts(i)
    PROVE  UndoneTo(v, i - 1, file)
  <1>1. /\ i \in 1..Len(journal) /\ UndoneTo(v, i, file)
        /\ v[i] \in Found /\ v[i + 1] \in Found /\ Leads(i, v[i], v[i + 1])
    BY ReachStep
  <1>2. v[i] = v[i + 1]  BY <1>1, NothingDone
  <1>3. i - 1 + 1 = i /\ i - 1 # Len(journal)  BY <1>1 DEF TypeInv
  <1>4. (ToDo(i) <=> ToDo(i - 1)) /\ (ToWrite(i) <=> ToWrite(i - 1))
    <2>1. \A m : m \in 1..i <=> m \in 1..(i - 1) \/ m = i  BY <1>1
    <2>2. QED  BY <2>1 DEF ToDo, ToWrite
  <1>5. QED  BY <1>1, <1>2, <1>3, <1>4 DEF UndoneTo

LEMMA PuttingRuns ==
    ASSUME NEW f \in Found, NEW p, NEW cs, Putting(f, p, cs)
    PROVE  cs # <<>>
  <1>1. f \in Files  BY DEF Found, Putting
  <1>2. PutOwner(f) # <<>>  BY <1>1, PutBackFacts
  <1>3. Chmod(f.mode) # <<>>  BY DEF Chmod
  <1>4. QED  BY <1>2, <1>3 DEF Putting

LEMMA StampingRuns ==
    ASSUME NEW f \in Found, NEW p, NEW cs, Stamping(f, p, cs)
    PROVE  cs # <<>>
  <1>1. f \in Files  BY DEF Found, Stamping
  <1>2. StampBack(f) # <<>> /\ StampMode(f) # <<>> /\ StampOwner(f) # <<>>
    BY <1>1, StampBackFacts
  <1>3. \A do, a : Chattr(do, a) # <<>>  BY DEF Chattr
  <1>4. StampLocks(f) # <<>>
    <2>1. CASE f.attrs = {}  BY <1>1, <1>3, <2>1, StampLocksFacts
    <2>2. CASE f.attrs = Letters  BY <1>1, <1>3, <2>2, StampLocksFacts
    <2>3. CASE f.attrs \notin {{}, Letters}  BY <1>1, <2>3, StampLocksFacts
    <2>4. QED  BY <2>1, <2>2, <2>3
  <1>5. QED  BY <1>2, <1>3, <1>4 DEF Stamping

LEMMA RestoringRuns ==
    ASSUME NEW v, NEW k, NEW p, NEW cs, v[k] \in Found, Restoring(v, k, p, cs)
    PROVE  cs # <<>>
  <1>1. CASE IsTemplate(k) /\ Putting(v[k], p, cs)  BY <1>1, PuttingRuns
  <1>2. CASE ~IsTemplate(k)
    <2>1. Stamping(v[k], p, cs)  BY <1>2 DEF Restoring
    <2>2. QED  BY <2>1, StampingRuns
  <1>3. CASE cs = IF v[k] = Gone THEN Rm ELSE PutBack(v[k])
    <2>1. Rm # <<>>  BY DEF Rm
    <2>2. v[k] \in Files => PutBack(v[k]) # <<>>  BY PutBackFacts
    <2>3. QED  BY <1>3, <2>1, <2>2 DEF Found
  <1>4. QED  BY <1>1, <1>2, <1>3 DEF Restoring

LEMMA UndoRevertStep ==
    ASSUME TypeInv, ShapeInv, NEW v \in Seq(Found), History(v), UndoInv(v), RevertStep
    PROVE  UndoInv(v)' /\ pc' \in Undoing
  <1> DEFINE n == Len(journal)
             g == v[n + 1]
  <1>1. /\ pc = "revert" /\ cmds = <<>> /\ i > 0 /\ i' = i - 1
        /\ UNCHANGED <<profile, file, journal, start, misled>>
        /\ n \in Nat /\ i \in 1..n
    BY RevertStepCases, ReachStep DEF TypeInv
  <1>2. (ToWrite(n) \/ SameContent(file, g)) /\ (ToDo(n) \/ file = g)
    BY <1>1 DEF UndoInv, Undoing
  <1>3. (ToWrite(n) \/ SameContent(file, g))' /\ (ToDo(n) \/ file = g)'
    BY <1>1, <1>2, Static
  <1>4. faults' = 0 => faults = 0
    <2>1. faults \in Nat /\ (Fault => faults' = faults + 1)  BY DEF TypeInv, Fault
    <2>2. QED  BY <2>1, RevertStepCases
  <1>5. i' + 1 = i /\ i' < n /\ Len(journal') = n  BY <1>1
  <1> HIDE DEF g
  <1>6. CASE ~Acts(i) /\ UNCHANGED <<pc, cmds, faults>>
    <2>1. UndoneTo(v, i - 1, file)  BY <1>1, <1>6, SkipStep
    <2>2. PICK j, p : j = i - 1 /\ p = file  OBVIOUS
    <2>3. UndoneTo(v, j, p)'  BY <1>1, <1>4, <2>1, <2>2, StaticUndo
    <2>4. j = i' /\ p = file'  BY <1>1, <2>2
    <2>5. UndoneTo(v, i, file)'  BY <2>3, <2>4
    <2>6. pc' = "revert" /\ cmds' = <<>>  BY <1>1, <1>6
    <2>7. QED  BY <1>3, <2>5, <2>6 DEF UndoInv, Undoing, g
  <1>7. CASE UNCHANGED <<pc, faults>> /\ Acts(i) /\ Restoring(v, i, file, cmds')
    <2>1. PICK k, p, cs : k = i /\ p = file /\ cs = cmds'  OBVIOUS
    <2>2. Restoring(v, k, p, cs)'  BY <1>1, <1>4, <1>7, <2>1, StaticUndo
    <2>3. k = i' + 1 /\ p = file' /\ cs = cmds'  BY <1>1, <1>5, <2>1
    <2>4. Restoring(v, i + 1, file, cmds)'  BY <2>2, <2>3
    <2>5. Acts(i + 1)'
      <3>1. Acts(k)'  BY <1>1, <1>7, <2>1, Static
      <3>2. QED  BY <2>3, <3>1
    <2>6. cmds' # <<>>
      <3>1. v[i] \in Found  BY <1>1, ReachStep
      <3>2. QED  BY <1>7, <3>1, RestoringRuns
    <2>7. pc' = "revert" /\ i' < Len(journal')  BY <1>1, <1>5, <1>7
    <2>8. QED  BY <1>3, <2>4, <2>5, <2>6, <2>7 DEF UndoInv, Undoing, g
  <1>8. CASE /\ Acts(i) /\ ~IsTemplate(i) /\ pc' = Stuck
             /\ IF file = Gone THEN UNCHANGED faults ELSE Fault
    <2>1. pc' \in {"stuck", "undo failed"}  BY <1>8 DEF Stuck
    <2>2. faults' # 0
      <3>1. file = Gone => faults # 0  BY <1>1, <1>8, BeginStepBack
      <3>2. Fault => faults' # 0  BY DEF Fault, TypeInv
      <3>3. QED  BY <1>8, <3>1, <3>2
    <2>3. QED  BY <1>3, <2>1, <2>2 DEF UndoInv, Undoing, g
  <1>9. \/ ~Acts(i) /\ UNCHANGED <<pc, cmds, faults>>
        \/ UNCHANGED <<pc, faults>> /\ Acts(i) /\ Restoring(v, i, file, cmds')
        \/ /\ Acts(i) /\ ~IsTemplate(i) /\ pc' = Stuck
           /\ IF file = Gone THEN UNCHANGED faults ELSE Fault
    <2>1. Acts(i) /\ IsTemplate(i) => Restoring(v, i, file, TP!RestoreCommands(journal[i].before))
      BY <1>1, BeginStepBack
    <2>2. Acts(i) /\ ~IsTemplate(i) /\ file # Gone =>
            Restoring(v, i, file, FM!RestoreCommands(journal[i].before))
      BY <1>1, BeginStepBack
    <2>3. Acts(i) <=> Applies(i) /\ (IsTemplate(i) \/ journal[i].before # Gone)  BY DEF Acts
    <2>4. QED  BY <2>1, <2>2, <2>3, RevertStepCases
  <1>10. QED  BY <1>1, <1>6, <1>7, <1>8, <1>9 DEF Undoing

(* A command of a restoration: where no command has failed, it is refused  *)
(* only by the lock that kept the last step, a template's, from writing.   *)
LEMMA RestoreStep ==
    ASSUME TypeInv, ShapeInv, NEW v \in Seq(Found), History(v), NEW k \in 1..Len(journal), Acts(k),
           NEW p \in Found, NEW cs, Restoring(v, k, p, cs)
    PROVE  LET q == Effect(Head(cs), p) IN
           /\ Refused(Head(cs), p) /\ faults = 0 =>
                IsTemplate(k) /\ k = Len(journal) /\ ~Complete /\ p # Gone /\ p.attrs # {}
           /\ ~Refused(Head(cs), p) =>
                /\ IF Tail(cs) = <<>> THEN UndoneTo(v, k - 1, q) ELSE Restoring(v, k, q, Tail(cs))
                /\ ~IsTemplate(k) => SameContent(q, p)
  <1> DEFINE c == Head(cs)
             f == v[k]
             g == v[k + 1]
             q == Effect(c, p)
  <1>1. /\ Len(v) = Len(journal) + 1 /\ f \in Found /\ g \in Found
        /\ Leads(k, f, g)
    BY DEF TypeInv, History
  <1>2. UndoneTo(v, k - 1, f)  BY <1>1, UndonePut
  <1>3. CASE IsTemplate(k) /\ Putting(f, p, cs)
    <2>1. /\ ~Refused(c, p)
          /\ IF Tail(cs) = <<>> THEN q = f ELSE Putting(f, q, Tail(cs))
      BY <1>1, <1>3, PutNext
    <2> HIDE DEF c, q
    <2>2. Tail(cs) # <<>> => Restoring(v, k, q, Tail(cs))  BY <1>3, <2>1 DEF Restoring, f
    <2>3. Tail(cs) = <<>> => UndoneTo(v, k - 1, q)  BY <1>2, <2>1
    <2>4. QED  BY <1>3, <2>1, <2>2, <2>3 DEF c, q
  <1>4. CASE /\ IsTemplate(k)
             /\ cs = IF f = Gone THEN Rm ELSE PutBack(f)
             /\ \/ f = Gone \/ f.attrs = {}
                \/ k = Len(journal) /\ ~Complete /\ p = f /\ g = f
             /\ faults = 0 => Alike(p, g)
    <2>1. /\ Refused(c, p) <=> p # Gone /\ p.attrs # {}
          /\ f = Gone => q = Gone /\ Tail(cs) = <<>>
          /\ f # Gone => /\ q = Put(f) /\ Tail(cs) = PutOwner(f) /\ PutOwner(f) # <<>>
                         /\ f.attrs = {} => Putting(f, Put(f), PutOwner(f))
      BY <1>1, <1>4, PutFirst
    <2> HIDE DEF c, q
    <2>2. ASSUME Refused(c, p), faults = 0
          PROVE  k = Len(journal) /\ ~Complete /\ p # Gone /\ p.attrs # {}
      <3>1. p # Gone /\ p.attrs # {} /\ Alike(p, g)  BY <1>4, <2>1, <2>2
      <3>2. g # Gone /\ g.attrs # {}
        <4>1. g # Gone  BY <3>1 DEF Alike
        <4>2. QED  BY <1>1, <3>1, <4>1, AlikeFacts
      <3>3. f = g  BY <1>1, <1>4, <3>2 DEF Leads
      <3>4. QED  BY <1>4, <3>1, <3>2, <3>3
    <2>3. ASSUME ~Refused(c, p)
          PROVE  IF Tail(cs) = <<>> THEN UndoneTo(v, k - 1, q) ELSE Restoring(v, k, q, Tail(cs))
      <3>1. CASE f = Gone  BY <1>2, <2>1, <3>1
      <3>2. CASE f # Gone
        <4>1. f.attrs = {}  BY <1>4, <2>1, <2>3, <3>2
        <4>2. Putting(f, q, Tail(cs)) /\ Tail(cs) # <<>>  BY <2>1, <3>2, <4>1
        <4>3. Restoring(v, k, q, Tail(cs))  BY <1>4, <4>2 DEF Restoring, f
        <4>4. QED  BY <4>2, <4>3
      <3>3. QED  BY <3>1, <3>2
    <2>4. QED  BY <1>4, <2>2, <2>3 DEF c, q
  <1>5. CASE ~IsTemplate(k)
    <2>1. /\ Stamping(f, p, cs)
          /\ ToWrite(k) \/ SameContent(p, g)
          /\ faults = 0 => SameContent(p, g)
      BY <1>5 DEF Restoring
    <2>2. /\ ~Refused(c, p) /\ q \in Files /\ q.content = p.content
          /\ IF Tail(cs) = <<>> THEN Restamped(f, q) ELSE Stamping(f, q, Tail(cs))
      BY <1>1, <2>1, StampNext
    <2>3. p # Gone /\ f # Gone /\ q # Gone  BY <2>1, <2>2, FileFacts DEF Stamping
    <2> HIDE DEF c, q
    <2>4. SameContent(q, p) /\ (SameContent(p, g) => SameContent(q, g))
      BY <2>2, <2>3 DEF SameContent
    <2>5. Tail(cs) # <<>> => Restoring(v, k, q, Tail(cs))
      BY <1>5, <2>1, <2>2, <2>4 DEF Restoring, f, g
    <2>6. Tail(cs) = <<>> => UndoneTo(v, k - 1, q)
      <3> SUFFICES ASSUME Tail(cs) = <<>> PROVE UndoneTo(v, k - 1, q)  OBVIOUS
      <3>1. Restamped(f, q) /\ q \in Found  BY <2>2 DEF Found
      <3>2. (ToWrite(k) \/ SameContent(q, g)) /\ (faults = 0 => SameContent(q, g))
        BY <2>1, <2>4
      <3>3. QED  BY <1>5, <2>3, <3>1, <3>2, UndoneStamp
    <2>7. QED  BY <1>5, <2>2, <2>4, <2>5, <2>6 DEF c, q
  <1>6. QED  BY <1>3, <1>4, <1>5 DEF Restoring

LEMMA UndoCommand ==
    ASSUME TypeInv, ShapeInv, TypeInv', NEW v \in Seq(Found), History(v), UndoInv(v),
           Command, pc = "revert"
    PROVE  UndoInv(v)' /\ pc' \in Undoing
  <1> DEFINE n == Len(journal)
             g == v[n + 1]
             c == Head(cmds)
  <1>1. /\ n \in Nat /\ i \in Nat /\ cmds # <<>> /\ file \in Found /\ g \in Found
        /\ UNCHANGED <<profile, i, journal, start, misled>>
    BY DEF TypeInv, Command, History
  <1>2. /\ ToWrite(n) \/ SameContent(file, g)
        /\ i < n /\ Acts(i + 1) /\ Restoring(v, i + 1, file, cmds)
    BY <1>1 DEF UndoInv, Undoing
  <1>3. i + 1 \in 1..n /\ i + 1 - 1 = i  BY <1>1, <1>2
  <1>4. /\ Refused(c, file) /\ faults = 0 =>
             IsTemplate(i + 1) /\ i + 1 = n /\ ~Complete /\ file # Gone /\ file.attrs # {}
        /\ ~Refused(c, file) =>
             /\ IF Tail(cmds) = <<>> THEN UndoneTo(v, i, Effect(c, file))
                ELSE Restoring(v, i + 1, Effect(c, file), Tail(cmds))
             /\ ~IsTemplate(i + 1) => SameContent(Effect(c, file), file)
    BY <1>1, <1>2, <1>3, RestoreStep
  <1>5. ToDo(n) /\ (IsTemplate(i + 1) => ToWrite(n))  BY <1>2, <1>3 DEF ToDo, ToWrite
  <1>6. (ToWrite(n) \/ SameContent(file, g))' /\ ToDo(n)'
    <2>1. file' = file \/ (~Refused(c, file) /\ file' = Effect(c, file))  BY DEF Command
    <2>2. ToWrite(n) \/ SameContent(file', file)
      <3>1. SameContent(file, file)  BY DEF SameContent
      <3> HIDE DEF c
      <3>2. QED  BY <1>4, <1>5, <2>1, <3>1
    <2>3. ToWrite(n) \/ SameContent(file', g)  BY <1>2, <2>2 DEF SameContent
    <2>4. n' = n /\ (g' = g)  BY <1>1
    <2>5. ToWrite(n)' = ToWrite(n) /\ ToDo(n)' = ToDo(n)  BY <1>1, Static
    <2>6. SameContent(file, g)' <=> SameContent(file', g)  BY <2>4 DEF SameContent
    <2>7. QED  BY <1>5, <2>3, <2>5, <2>6
  <1> HIDE DEF g, c
  <1>7. CASE ~Refused(c, file) /\ NoFault /\ file' = Effect(c, file) /\ cmds' = Tail(cmds) /\ UNCHANGED pc
    <2>1. PICK j, k, p, cs : j = i /\ k = i + 1 /\ p = file' /\ cs = cmds'  OBVIOUS
    <2>2. (faults' = 0 => faults = 0) /\ i' = i  BY <1>1, <1>7 DEF NoFault
    <2>3. IF cmds' = <<>> THEN UndoneTo(v, j, p) ELSE Restoring(v, k, p, cs) /\ Acts(k)
      BY <1>2, <1>4, <1>7, <2>1
    <2>4. IF cmds' = <<>> THEN UndoneTo(v, j, p)' ELSE Restoring(v, k, p, cs)' /\ Acts(k)'
      BY <1>1, <2>2, <2>3, Static, StaticUndo
    <2>5. j = i' /\ k = i' + 1 /\ p = file' /\ cs = cmds'  BY <2>1, <2>2
    <2>6. IF cmds' = <<>> THEN UndoneTo(v, i, file)' ELSE Restoring(v, i + 1, file, cmds)' /\ Acts(i + 1)'
      BY <2>4, <2>5
    <2>7. pc' = "revert" /\ i' < Len(journal')  BY <1>1, <1>2, <1>7, <2>2
    <2>8. QED  BY <1>6, <2>6, <2>7 DEF UndoInv, Undoing, g
  <1>8. CASE /\ Refused(c, file) /\ UNCHANGED file /\ NoFault
             /\ pc' = Stuck
    <2>1. pc' \in {"stuck", "undo failed"} /\ (pc' = "stuck" => Complete)  BY <1>8 DEF Stuck
    <2>2. faults' = 0 => IsTemplate(n) /\ ~Complete /\ file # Gone /\ file.attrs # {}
      BY <1>4, <1>8 DEF NoFault
    <2>3. n' = n /\ (IsTemplate(n)' <=> IsTemplate(n)) /\ file' = file
      BY <1>1, <1>8, Static
    <2>4. faults' = 0 => pc' # "stuck" /\ file' # Gone /\ file'.attrs # {} /\ IsTemplate(n)'
      BY <2>1, <2>2, <2>3
    <2>5. QED  BY <1>6, <2>1, <2>4 DEF UndoInv, Undoing, g
  <1>9. CASE Fault /\ pc' = Stuck
    <2>1. pc' \in {"stuck", "undo failed"} /\ faults' # 0
      <3>1. pc' \in {"stuck", "undo failed"}  BY <1>9 DEF Stuck
      <3>2. faults' = faults + 1 /\ faults \in Nat  BY <1>9 DEF Fault, TypeInv
      <3>3. faults' # 0  BY <3>2
      <3>4. QED  BY <3>1, <3>3
    <2>2. QED  BY <1>6, <2>1 DEF UndoInv, Undoing, g
  <1>10. pc' \in Undoing  BY <1>7, <1>8, <1>9 DEF Command, Undoing, Stuck, c
  <1>11. QED  BY <1>7, <1>8, <1>9, <1>10 DEF Command, c

-----------------------------------------------------------------------------
(* The inductive invariant, and what it says of a path that was undone.    *)
Past ==
    ~misled /\ pc # "ready" => \E v \in Seq(Found) : History(v) /\ UndoInv(v)

Inv == TypeInv /\ ShapeInv /\ Past

LEMMA NextPast ==
    ASSUME Inv, Next, TypeInv', ShapeInv'
    PROVE  Past'
  <1> SUFFICES ASSUME ~misled', pc' # "ready"
               PROVE  (\E v \in Seq(Found) : History(v) /\ UndoInv(v))'
    BY DEF Past
  <1>1. CASE Begin \/ CaptureBefore \/ Inspect \/ (Command /\ pc = "apply") \/ CaptureAfter
    <2>1. pc # "ready" => ~misled
      BY <1>1 DEF Begin, CaptureBefore, Inspect, Command, CaptureAfter, Inv, TypeInv
    <2>2. pc # "ready" => \E v \in Seq(Found) : History(v)  BY <2>1 DEF Inv, Past
    <2>3. (\E v \in Seq(Found) : History(v)') /\ pc' \in Forward
      BY <1>1, <2>1, <2>2, ForwardHistory DEF Inv
    <2>4. \A v : UndoInv(v)'  BY <2>3 DEF UndoInv, Undoing, Forward
    <2>5. QED  BY <2>3, <2>4
  <1>2. CASE Rollback \/ ForceRollback \/ Restored
    <2>1. ~misled /\ pc # "ready" /\ pc' \notin Forward
          /\ UNCHANGED <<profile, journal, start>>
      <3>1. pc # "ready" /\ UNCHANGED <<profile, journal, start, misled>>
        BY <1>2 DEF Rollback, ForceRollback, Restored
      <3>2. pc' \in {"revert", "restored", "refused", "stuck", "undo failed"}
        BY <1>2 DEF Rollback, ForceRollback, Restored, Stuck
      <3>3. QED  BY <3>1, <3>2 DEF Forward
    <2>2. PICK v \in Seq(Found) : History(v) /\ UndoInv(v)  BY <2>1 DEF Inv, Past
    <2>3. History(v)'  BY <2>1, <2>2, UndoHistory
    <2>4. UndoInv(v)'  BY <1>2, <2>2, UndoFirst DEF Inv
    <2>5. QED  BY <2>3, <2>4
  <1>3. CASE RevertStep
    <2>1. ~misled /\ pc # "ready" /\ UNCHANGED <<profile, journal, start>>
      BY <1>3 DEF RevertStep
    <2>2. PICK v \in Seq(Found) : History(v) /\ UndoInv(v)  BY <2>1 DEF Inv, Past
    <2>3. UndoInv(v)' /\ pc' \in Undoing  BY <1>3, <2>2, UndoRevertStep DEF Inv
    <2>4. History(v)'  BY <2>1, <2>2, <2>3, UndoHistory DEF Undoing, Forward
    <2>5. QED  BY <2>3, <2>4
  <1>4. CASE Command /\ pc = "revert"
    <2>1. ~misled /\ pc # "ready" /\ UNCHANGED <<profile, journal, start>>
      BY <1>4 DEF Command
    <2>2. PICK v \in Seq(Found) : History(v) /\ UndoInv(v)  BY <2>1 DEF Inv, Past
    <2>3. UndoInv(v)' /\ pc' \in Undoing  BY <1>4, <2>2, UndoCommand DEF Inv
    <2>4. History(v)'  BY <2>1, <2>2, <2>3, UndoHistory DEF Undoing, Forward
    <2>5. QED  BY <2>3, <2>4
  <1>5. ~StartOver /\ ~Vanish  BY DEF StartOver, Vanish
  <1>6. Command => pc \in {"apply", "revert"}  BY DEF Command
  <1>7. QED  BY <1>1, <1>2, <1>3, <1>4, <1>5, <1>6 DEF Next

LEMMA Invariant == Spec => []Inv
  <1>1. Init => Inv
    <2> SUFFICES ASSUME Init PROVE Inv  OBVIOUS
    <2>1. pc = "ready"  BY DEF Init
    <2>2. QED  BY <2>1, InitShape DEF Inv, Past
  <1>2. Inv /\ [Next]_vars => Inv'
    <2> SUFFICES ASSUME Inv, [Next]_vars PROVE Inv'  OBVIOUS
    <2>1. TypeInv' /\ ShapeInv'  BY NextShape DEF Inv
    <2>2. CASE Next  BY <2>1, <2>2, NextPast DEF Inv
    <2>3. CASE UNCHANGED vars
      <3>1. /\ UNCHANGED <<profile, journal, start, file, pc, i, cmds, misled, faults>>
        BY <2>3 DEF vars
      <3>2. \A v : History(v)' <=> History(v)  BY <3>1, Static DEF History
      <3>3. \A v : UndoInv(v) => UndoInv(v)'
        <4> SUFFICES ASSUME NEW v, UndoInv(v) PROVE UndoInv(v)'  OBVIOUS
        <4>1. /\ UndoneTo(v, i, file) => UndoneTo(v, i, file)'
              /\ UndoneTo(v, 0, file) => UndoneTo(v, 0, file)'
              /\ Restoring(v, i + 1, file, cmds) => Restoring(v, i + 1, file, cmds)'
              /\ Acts(i + 1) => Acts(i + 1)'
              /\ \A f, g : Alike(f, g) => Alike(f, g)'
          BY <3>1, Static, StaticUndo
        <4>2. /\ ToWrite(Len(journal))' = ToWrite(Len(journal))
              /\ ToDo(Len(journal))' = ToDo(Len(journal))
              /\ IsTemplate(Len(journal))' = IsTemplate(Len(journal))
          BY <3>1, Static
        <4>3. QED  BY <3>1, <4>1, <4>2 DEF UndoInv, SameContent
      <3>4. QED  BY <2>1, <3>1, <3>2, <3>3 DEF Inv, Past
    <2>4. QED  BY <2>2, <2>3
  <1>3. QED  BY <1>1, <1>2, PTL DEF Spec

(* A rollback that ended well has left the path as the run found it, but   *)
(* for the set-user-ID bit of what file_meta restores: of any profile, any *)
(* number of steps of both plugins on the path, forced or not, begun again *)
(* or the first, whatever commands failed on the way.                      *)
THEOREM UndonePathIsBefore == Spec => []UndoneMeansBefore
  <1>1. Inv => UndoneMeansBefore
    <2> SUFFICES ASSUME Inv, pc = "restored", ~misled
                 PROVE  \/ file = start
                        \/ start # Gone /\ file \in OrPlain(start)
                           /\ \E k \in DOMAIN profile : ~IsTemplate(k)
      BY DEF UndoneMeansBefore
    <2>1. PICK v \in Seq(Found) : History(v) /\ UndoInv(v)  BY DEF Inv, Past
    <2>2. UndoneTo(v, 0, file)  BY <2>1 DEF UndoInv, Undoing
    <2>3. ~ToDo(0)  BY DEF ToDo
    <2>4. Alike(file, v[1])  BY <2>2, <2>3 DEF UndoneTo
    <2>5. v[1] = start  BY <2>1 DEF History
    <2>6. QED  BY <2>4, <2>5 DEF Alike, Stamped
  <1>2. QED  BY <1>1, Invariant, PTL

(* Where no command fails no restoration is refused, but that of a last    *)
(* step, a template's, that a lock on the path kept from being applied.    *)
THEOREM LocksAreLifted == Spec => []UndoSucceeds
  <1>1. Inv => UndoSucceeds
    <2> SUFFICES ASSUME Inv, pc \in {"stuck", "undo failed"}, i < Len(journal), faults = 0
                 PROVE  file # Gone /\ file.attrs # {} /\ IsTemplate(Len(journal))
      BY DEF UndoSucceeds
    <2>1. ~misled  BY DEF Inv, TypeInv
    <2>2. PICK v \in Seq(Found) : History(v) /\ UndoInv(v)  BY <2>1 DEF Inv, Past
    <2>3. QED  BY <2>2 DEF UndoInv, Undoing
  <1>2. QED  BY <1>1, Invariant, PTL

-----------------------------------------------------------------------------
(* A profile that a plan of the path calls unchanged: no step acts, but    *)
(* perhaps, until it is captured again or fails, the last one begun.       *)
Foreseen == faults = 0 /\ \A k \in DOMAIN profile : ~WillChange(k, start)

Idle ==
    /\ cmds = <<>> /\ file = start
    /\ \A k \in 1..Len(journal) :
         /\ journal[k].before = Snapshot(k, start)
         /\ ~Acts(k) \/ (k = Len(journal) /\ pc \in {"inspect", "apply"})

LEMMA StaticChange ==
    ASSUME UNCHANGED <<profile, start>>
    PROVE  (\A k \in DOMAIN profile : ~WillChange(k, start))' <=> \A k \in DOMAIN profile : ~WillChange(k, start)
  BY DEF WillChange, IsTemplate

LEMMA IdleRun ==
    ASSUME TypeInv, ShapeInv, Foreseen, Idle, faults' = 0,
           CaptureBefore \/ Inspect \/ CaptureAfter
    PROVE  Idle'
  <1> DEFINE n == Len(journal)
  <1>1. /\ journal \in Seq(Entry) /\ n \in Nat /\ file \in Found /\ file = start /\ ~Fault
        /\ profile \in Profiles /\ faults \in Nat /\ faults = 0 /\ cmds = <<>>
    BY DEF TypeInv, Entry, Idle, Fault, Foreseen
  <1>2. \A k : IsTemplate(k)' = IsTemplate(k)
    BY DEF IsTemplate, CaptureBefore, Inspect, CaptureAfter
  <1>3. \A k, f : Snapshot(k, f)' = Snapshot(k, f)
    BY DEF Snapshot, IsTemplate, CaptureBefore, Inspect, CaptureAfter
  <1>4. CASE CaptureBefore
    <2>1. /\ UNCHANGED <<profile, file, i, cmds, start>> /\ pc = "capture" /\ i = n + 1
          /\ pc' = "inspect"
          /\ journal' = Append(journal, [before |-> Snapshot(i, file), after |-> Uncaptured])
      BY <1>1, <1>4 DEF CaptureBefore, Probe, ShapeInv
    <2> DEFINE e == [before |-> Snapshot(i, file), after |-> Uncaptured]
    <2>2. e \in Entry /\ e.before = Snapshot(i, start)  BY <1>1, SnapshotTypes DEF Entry
    <2> HIDE DEF e
    <2>3. /\ Len(journal') = n + 1 /\ journal'[n + 1] = e
          /\ \A k \in 1..n : journal'[k] = journal[k]
      BY <1>1, <2>1, <2>2 DEF e
    <2>4. \A k \in 1..n : journal[k].before = Snapshot(k, start) /\ ~Acts(k)
      BY <2>1 DEF Idle
    <2>5. \A k \in 1..Len(journal') :
            journal'[k].before = Snapshot(k, start)' /\ (~Acts(k)' \/ k = Len(journal'))
      <3> TAKE k \in 1..Len(journal')
      <3>1. CASE k = n + 1  BY <1>3, <2>1, <2>2, <2>3, <3>1
      <3>2. CASE k \in 1..n
        <4>1. ~Acts(k)'  BY <1>2, <2>3, <2>4, <3>2 DEF Acts, Applies
        <4>2. QED  BY <1>3, <2>1, <2>3, <2>4, <3>2, <4>1
      <3>3. QED  BY <1>1, <2>3, <3>1, <3>2
    <2>6. cmds' = <<>> /\ file' = start' /\ pc' \in {"inspect", "apply"}  BY <1>1, <2>1
    <2>7. QED  BY <2>5, <2>6 DEF Idle
  <1>5. CASE Inspect
    <2>1. /\ UNCHANGED <<profile, file, i, journal, start>> /\ pc = "inspect" /\ i = n
          /\ IF file = Gone /\ ~IsTemplate(i)
             THEN pc' = "failed" /\ UNCHANGED cmds
             ELSE pc' = "apply" /\ cmds' = ApplyCommands(i, file)
      BY <1>1, <1>5 DEF Inspect, Probe, ShapeInv
    <2>2. i \in DOMAIN profile /\ ~WillChange(i, file)
      <3>1. i > 0 /\ i <= Len(profile)  BY <2>1 DEF ShapeInv
      <3>2. i \in DOMAIN profile  BY <1>1, <2>1, <3>1, ProfileFacts
      <3>3. QED  BY <1>1, <3>2 DEF Foreseen
    <2>3. cmds' = <<>>
      <3>1. CASE file = Gone /\ ~IsTemplate(i)  BY <1>1, <2>1, <3>1
      <3>2. CASE file # Gone \/ IsTemplate(i)
        <4>1. ApplyCommands(i, file) = <<>>  BY <1>1, <2>2, <3>2, UnchangedRunsNothing
        <4>2. QED  BY <2>1, <3>2, <4>1
      <3>3. QED  BY <3>1, <3>2
    <2>4. pc' = "failed" => ~Acts(n)
      <3>1. pc' = "failed" => file = Gone /\ ~IsTemplate(n)  BY <2>1
      <3>2. n \in 1..n /\ journal[n].before = Snapshot(n, file)
        BY <1>1, <2>1 DEF Idle, ShapeInv
      <3>3. QED  BY <3>1, <3>2, GoneSnapshot DEF Acts
    <2>5. pc' \in {"failed", "apply"}  BY <2>1
    <2>6. \A k \in 1..n : /\ journal[k].before = Snapshot(k, start)
                          /\ ~Acts(k) \/ (k = n /\ pc' = "apply")
      BY <2>1, <2>4, <2>5 DEF Idle
    <2>7. \A k : Acts(k)' = Acts(k)  BY <2>1, Static
    <2>8. QED  BY <1>1, <1>3, <2>1, <2>3, <2>6, <2>7 DEF Idle
  <1>6. CASE CaptureAfter
    <2>1. /\ UNCHANGED <<profile, file, cmds, start>> /\ i = n /\ n > 0
          /\ journal' = [journal EXCEPT ![i].after = Snapshot(i, file)]
      BY <1>1, <1>6 DEF CaptureAfter, Probe, ShapeInv
    <2> DEFINE s == Snapshot(n, file)
               e == [journal[n] EXCEPT !.after = s]
    <2>2. journal[n] \in Entry /\ s \in Snapshots  BY <1>1, <2>1, SnapshotTypes
    <2> HIDE DEF s
    <2>3. e \in Entry /\ e.before = journal[n].before /\ e.after = s
      BY <2>2 DEF Entry
    <2>4. journal' = [journal EXCEPT ![n] = e]  BY <2>1 DEF s
    <2> HIDE DEF e
    <2>5. /\ Len(journal') = n /\ journal'[n] = e
          /\ \A k \in 1..n : k # n => journal'[k] = journal[k]
      BY <1>1, <2>1, <2>3, <2>4
    <2>6. \A k \in 1..n : journal'[k].before = Snapshot(k, start) /\ ~Acts(k)'
      <3> TAKE k \in 1..n
      <3>1. journal[k].before = Snapshot(k, start)  BY DEF Idle
      <3>2. CASE k = n
        BY <1>1, <2>3, <2>5, <3>1, <3>2 DEF Acts, Applies, s
      <3>3. CASE k # n
        <4>1. ~Acts(k)  BY <3>3 DEF Idle
        <4>2. QED  BY <1>2, <2>5, <3>1, <3>3, <4>1 DEF Acts, Applies
      <3>4. QED  BY <3>2, <3>3
    <2>7. QED  BY <1>1, <1>3, <2>1, <2>5, <2>6 DEF Idle
  <1>7. QED  BY <1>4, <1>5, <1>6

LEMMA IdleRollback ==
    ASSUME TypeInv, ShapeInv, Idle, faults' = 0, TypeInv',
           Rollback \/ ForceRollback \/ RevertStep \/ Restored \/ StartOver \/ UNCHANGED vars
    PROVE  Idle'
  <1>1. CASE StartOver
    <2>1. Len(journal') = 0 /\ cmds' = <<>> /\ file' = start'
      BY <1>1 DEF StartOver, Idle
    <2>2. QED  BY <2>1 DEF Idle
  <1>2. CASE UNCHANGED vars
    <2>1. UNCHANGED <<profile, journal, start, file, cmds, pc>>  BY <1>2 DEF vars
    <2>2. \A k : Acts(k)' = Acts(k) /\ Snapshot(k, start)' = Snapshot(k, start)
      BY <2>1, Static DEF Snapshot, IsTemplate
    <2>3. QED  BY <2>1, <2>2 DEF Idle
  <1>3. CASE Rollback \/ ForceRollback \/ RevertStep \/ Restored
    <2>1. /\ UNCHANGED <<profile, journal, start, file>>
          /\ pc \in {"failed", "applied", "stuck", "refused", "revert"}
      BY <1>3 DEF Rollback, ForceRollback, RevertStep, Restored
    <2>2. \A k \in 1..Len(journal) : ~Acts(k) /\ journal[k].before = Snapshot(k, start)
      BY <2>1 DEF Idle
    <2>3. cmds' = <<>>
      <3>1. CASE RevertStep
        <4>1. i \in 1..Len(journal)  BY <3>1, RevertStepCases DEF ShapeInv, TypeInv
        <4>2. ~Acts(i)  BY <2>2, <4>1
        <4>3. QED  BY <3>1, <4>2, RevertStepCases DEF Acts
      <3>2. CASE Rollback \/ ForceRollback \/ Restored
        BY <3>2 DEF Rollback, ForceRollback, Restored, Idle
      <3>3. QED  BY <1>3, <3>1, <3>2
    <2>4. \A k : Acts(k)' = Acts(k) /\ Snapshot(k, start)' = Snapshot(k, start)
      BY <2>1, Static DEF Snapshot, IsTemplate
    <2>5. QED  BY <2>1, <2>2, <2>3, <2>4 DEF Idle
  <1>4. QED  BY <1>1, <1>2, <1>3

(* A profile that a plan of the path calls unchanged, however many steps   *)
(* it has, runs no command when it is applied, nor when it is undone.      *)
THEOREM PlanOfPathForesees == Spec => []PlanForesees
  <1> DEFINE I == Inv /\ (Foreseen => Idle)
  <1>1. Init => (Foreseen => Idle)
    <2> SUFFICES ASSUME Init PROVE Idle  OBVIOUS
    <2>1. Len(journal) = 0  BY DEF Init
    <2>2. QED  BY <2>1 DEF Init, Idle
  <1>2. Inv /\ Inv' /\ (Foreseen => Idle) /\ [Next]_vars => (Foreseen => Idle)'
    <2> SUFFICES ASSUME Inv, Inv', Foreseen => Idle, [Next]_vars, Foreseen'
                 PROVE  Idle'
      OBVIOUS
    <2>1. TypeInv /\ ShapeInv /\ TypeInv' /\ faults \in Nat /\ faults' = 0  BY DEF Inv, TypeInv, Foreseen
    <2>2. faults = 0 /\ ~Fault
      <3>1. faults' \in {faults, faults + 1}
        BY DEF Next, vars, Begin, CaptureBefore, Inspect, Command, CaptureAfter, Rollback,
               ForceRollback, RevertStep, Restored, StartOver, Vanish, Probe, NoFault, Fault
      <3>2. Fault => faults' = faults + 1  BY DEF Fault
      <3>3. QED  BY <2>1, <3>1, <3>2
    <2>3. CASE Begin
      <3>1. Len(journal') = 0 /\ cmds' = <<>> /\ file' = start'
        BY <2>1, <2>3 DEF Begin, ShapeInv
      <3>2. QED  BY <3>1 DEF Idle
    <2>4. CASE ~Begin
      <3>1. UNCHANGED <<profile, start>>
        BY <2>4 DEF Next, vars, CaptureBefore, Inspect, Command, CaptureAfter, Rollback,
               ForceRollback, RevertStep, Restored, StartOver, Vanish
      <3>2. Foreseen  BY <2>2, <3>1, StaticChange DEF Foreseen
      <3>3. Idle  BY <3>2
      <3>4. ~Command  BY <3>3 DEF Command, Idle
      <3>5. ~Vanish  BY <2>2 DEF Vanish
      <3>6. QED  BY <2>1, <2>4, <3>2, <3>3, <3>4, <3>5, IdleRun, IdleRollback DEF Next
    <2>5. QED  BY <2>3, <2>4
  <1>3. (Foreseen => Idle) => PlanForesees  BY DEF Foreseen, Idle, PlanForesees
  <1>4. QED  BY <1>1, <1>2, <1>3, Invariant, PTL DEF Spec

-----------------------------------------------------------------------------
(* That the recursion of Left defines what it says, by induction on the    *)
(* number of steps.                                                        *)
LEMMA LeastNumber ==
    ASSUME NEW T \in SUBSET Nat, T # {}
    PROVE  \E n \in T : \A m \in T : n <= m
  <1> DEFINE R == OpToRel(<, Nat)
  <1>1. PICK n \in T : \A m \in T : ~ (<<m, n>> \in R)
    BY NatLessThanWellFounded, WFMin
  <1>2. \A m \in T : m < n => <<m, n>> \in R  BY DEF OpToRel
  <1> HIDE DEF R
  <1>3. ASSUME NEW m \in T PROVE n <= m
    <2>1. m \in Nat /\ n \in Nat  OBVIOUS
    <2>2. ~ (m < n)  BY <1>1, <1>2
    <2>3. QED  BY <2>1, <2>2
  <1>4. QED  BY <1>3

LeftBy(steps, f, k, S) ==
    IF k = 0 THEN {f} ELSE UNION {Outcomes(g, steps[k]) : g \in S}

IsLeft(F, steps, f, n) == F = [k \in 0..n |-> LeftBy(steps, f, k, F[k - 1])]

LEMMA LeftExists ==
    ASSUME NEW steps, NEW f, NEW n \in Nat
    PROVE  \E F : IsLeft(F, steps, f, n)
  <1> DEFINE By(k, S) == LeftBy(steps, f, k, S)
             None == {m \in Nat : ~ \E F : F = [k \in 0..m |-> By(k, F[k - 1])]}
  <1>1. \A S, T : By(0, S) = By(0, T)  BY DEF LeftBy
  <1> HIDE DEF By
  <1>2. SUFFICES ASSUME None # {} PROVE FALSE  BY DEF By, IsLeft
  <1>3. PICK m \in None : \A other \in None : m <= other
    <2>1. None \in SUBSET Nat  OBVIOUS
    <2> HIDE DEF None
    <2>2. QED  BY <1>2, <2>1, LeastNumber
  <1>4. m \in Nat  OBVIOUS
  <1>5. CASE m = 0
    <2> DEFINE F == [k \in 0..m |-> By(0, {})]
    <2>1. F = [k \in 0..m |-> By(k, F[k - 1])]
      <3>1. \A k \in 0..m : By(0, {}) = By(k, F[k - 1])  BY <1>1, <1>5
      <3>2. QED  BY <3>1
    <2>2. QED  BY <2>1
  <1>6. CASE m # 0
    <2> DEFINE b == m - 1
    <2>1. b \in Nat /\ m = b + 1 /\ b \notin None  BY <1>3, <1>4, <1>6
    <2>2. PICK G : G = [k \in 0..b |-> By(k, G[k - 1])]  BY <2>1
    <2> DEFINE F == [k \in 0..m |-> IF k = m THEN By(m, G[b]) ELSE G[k]]
    <2>3. \A k \in 0..b : F[k] = G[k]  BY <2>1
    <2>4. ASSUME NEW k \in 0..m
          PROVE  F[k] = By(k, F[k - 1])
      <3> HIDE DEF F
      <3>1. CASE k = m
        <4>1. F[k] = By(m, G[b]) /\ F[b] = G[b]  BY <2>1, <2>3, <3>1 DEF F
        <4>2. QED  BY <2>1, <3>1, <4>1
      <3>2. CASE k # m
        <4>1. k \in 0..b /\ F[k] = G[k] /\ G[k] = By(k, G[k - 1])
          BY <2>1, <2>2, <2>3, <3>2
        <4>2. CASE k = 0  BY <1>1, <4>1, <4>2
        <4>3. CASE k # 0
          <5>1. k - 1 \in 0..b  BY <2>1, <4>1, <4>3
          <5>2. F[k - 1] = G[k - 1]  BY <2>3, <5>1
          <5>3. QED  BY <4>1, <5>2
        <4>4. QED  BY <4>2, <4>3
      <3>3. QED  BY <3>1, <3>2
    <2>5. F = [k \in 0..m |-> F[k]]  OBVIOUS
    <2> HIDE DEF F
    <2>6. F = [k \in 0..m |-> By(k, F[k - 1])]  BY <2>4, <2>5
    <2>7. QED  BY <2>6
  <1>7. QED  BY <1>5, <1>6

LEMMA LeftFacts ==
    ASSUME NEW S, NEW steps \in Seq(S), NEW f
    PROVE  /\ Left(steps, f)[0] = {f}
           /\ \A k \in 1..Len(steps) :
                Left(steps, f)[k] = UNION {Outcomes(g, steps[k]) : g \in Left(steps, f)[k - 1]}
  <1> DEFINE n == Len(steps)
             L == Left(steps, f)
  <1>1. n \in Nat  OBVIOUS
  <1>2. L = [k \in 0..n |-> LeftBy(steps, f, k, L[k - 1])]
    <2>1. L = CHOOSE F : IsLeft(F, steps, f, n)  BY DEF Left, LeftBy, IsLeft
    <2> HIDE DEF L, n
    <2>2. \E F : IsLeft(F, steps, f, n)  BY <1>1, LeftExists
    <2>3. IsLeft(L, steps, f, n)  BY <2>1, <2>2, Zenon
    <2>4. QED  BY <2>3 DEF IsLeft
  <1> HIDE DEF L, n
  <1>3. \A k \in 0..n : L[k] = LeftBy(steps, f, k, L[k - 1])  BY <1>2
  <1>4. L[0] = {f}
    <2>1. 0 \in 0..n  BY <1>1
    <2>2. L[0] = LeftBy(steps, f, 0, L[0 - 1])  BY <1>3, <2>1
    <2>3. \A S1 : LeftBy(steps, f, 0, S1) = {f}  BY DEF LeftBy
    <2>4. QED  BY <2>2, <2>3
  <1>5. ASSUME NEW k \in 1..n
        PROVE  L[k] = UNION {Outcomes(g, steps[k]) : g \in L[k - 1]}
    <2>1. k \in 0..n /\ k # 0  BY <1>1
    <2>2. QED  BY <1>3, <2>1 DEF LeftBy
  <1>6. QED  BY <1>4, <1>5 DEF L, n

-----------------------------------------------------------------------------
(* Stamping the path f as step s asks: what is left of the commands of     *)
(* FM!ApplyCommands after each of them.                                    *)
Lifts(f, s) ==
    LET w == FM!Wanted(f, s)
    IN (w.mode # f.mode \/ w.owner # f.owner) /\ FM!Manages(s) /\ f.attrs # {}

Relocks(f, s) == Lifts(f, s) \/ FM!Wanted(f, s).attrs # f.attrs

MarkLocks(f, s) == If(Relocks(f, s), FM!ManagedAttrs(FM!Wanted(f, s).attrs))
MarkOwner(f, s) ==
    If(FM!Wanted(f, s).owner # f.owner, Chown(FM!Wanted(f, s).owner)) \o MarkLocks(f, s)
MarkMode(f, s) ==
    If(FM!Wanted(f, s).mode # f.mode, Chmod(FM!Wanted(f, s).mode)) \o MarkOwner(f, s)
MarkAll(f, s) == If(Lifts(f, s), Chattr("chattr-", Letters)) \o MarkMode(f, s)

LEMMA WantedFile ==
    ASSUME NEW f \in Files, NEW s \in FM!Specs
    PROVE  FM!Wanted(f, s) \in Files /\ FM!Wanted(f, s).content = f.content
  <1> DEFINE m == FM!Or(s.mode, f.mode)
             o == FM!Or(s.owner, f.owner)
             a == IF FM!Manages(s) THEN FM!DesiredManagedAttrs(f.attrs, s) ELSE f.attrs
  <1>1. FM!Wanted(f, s) = [f EXCEPT !.mode = m, !.owner = o, !.attrs = a]  BY DEF FM!Wanted
  <1>2. m \in Modes /\ o \in Owners /\ a \in SUBSET Letters  BY WantedFacts
  <1> HIDE DEF m, o, a
  <1>3. /\ [f EXCEPT !.mode = m, !.owner = o, !.attrs = a] \in Files
        /\ [f EXCEPT !.mode = m, !.owner = o, !.attrs = a].content = f.content
    BY <1>2 DEF Files
  <1>4. QED  BY <1>1, <1>3

LEMMA MarkFacts ==
    ASSUME NEW f \in Files, NEW s \in FM!Specs
    PROVE  LET w == FM!Wanted(f, s) IN
           /\ FM!ApplyCommands(f, s) = MarkAll(f, s)
           /\ IF Lifts(f, s)
              THEN /\ MarkAll(f, s) # <<>> /\ Tail(MarkAll(f, s)) = MarkMode(f, s)
                   /\ Head(MarkAll(f, s)) = [do |-> "chattr-", arg |-> Letters]
              ELSE MarkAll(f, s) = MarkMode(f, s)
           /\ IF w.mode # f.mode
              THEN /\ MarkMode(f, s) # <<>> /\ Tail(MarkMode(f, s)) = MarkOwner(f, s)
                   /\ Head(MarkMode(f, s)) = [do |-> "chmod", arg |-> w.mode]
              ELSE MarkMode(f, s) = MarkOwner(f, s)
           /\ IF w.owner # f.owner
              THEN /\ MarkOwner(f, s) # <<>> /\ Tail(MarkOwner(f, s)) = MarkLocks(f, s)
                   /\ Head(MarkOwner(f, s)) = [do |-> "chown", arg |-> w.owner]
              ELSE MarkOwner(f, s) = MarkLocks(f, s)
  <1> DEFINE w == FM!Wanted(f, s)
             unlock == [do |-> "chattr-", arg |-> Letters]
             chmod == [do |-> "chmod", arg |-> w.mode]
             chown == [do |-> "chown", arg |-> w.owner]
             p1 == If(Lifts(f, s), <<unlock>>)
             p2 == If(w.mode # f.mode, <<chmod>>)
             p3 == If(w.owner # f.owner, <<chown>>)
             p4 == MarkLocks(f, s)
  <1>1. w.mode \in Modes /\ w.owner \in Owners /\ w.attrs \in SUBSET Letters  BY WantedFacts
  <1>2. unlock \in Commands /\ chmod \in Commands /\ chown \in Commands
    BY <1>1 DEF Commands
  <1>3. p4 \in Seq(Commands)
    <2> DEFINE S == [do : {"chattr-", "chattr+"}, arg : SUBSET Letters]
    <2>1. S \subseteq Commands  BY DEF Commands
    <2>2. FM!ManagedAttrs(w.attrs) \in Seq(S)  BY <1>1, ManagedFacts
    <2> HIDE DEF S
    <2>3. FM!ManagedAttrs(w.attrs) \in Seq(Commands)  BY <2>1, <2>2, WiderSeq
    <2>4. QED  BY <2>3, CommandSeqs DEF MarkLocks, If
  <1>4. FM!ApplyCommands(f, s) = p1 \o p2 \o p3 \o p4
    <2>1. FM!ManagedAttrs({}) = <<unlock>>
      BY ManagedFacts DEF Chattr
    <2>2. QED
      BY <2>1 DEF FM!ApplyCommands, FM!If, If, FM!Chmod, FM!Chown, MarkLocks, Relocks, Lifts
  <1>5. /\ MarkOwner(f, s) = p3 \o p4 /\ MarkMode(f, s) = p2 \o MarkOwner(f, s)
        /\ MarkAll(f, s) = p1 \o MarkMode(f, s)
    BY DEF MarkOwner, MarkMode, MarkAll, Chown, Chmod, Chattr
  <1> HIDE DEF unlock, chmod, chown, p4, w
  <1>6. p1 \in Seq(Commands) /\ p2 \in Seq(Commands) /\ p3 \in Seq(Commands)
    BY <1>2, CommandSeqs DEF If
  <1> HIDE DEF p1, p2, p3
  <1>7. MarkOwner(f, s) \in Seq(Commands)  BY <1>3, <1>5, <1>6, CommandSeqs
  <1>8. MarkMode(f, s) \in Seq(Commands)  BY <1>5, <1>6, <1>7, CommandSeqs
  <1>9. FM!ApplyCommands(f, s) = MarkAll(f, s)
    <2>1. p1 \o p2 \in Seq(Commands) /\ p3 \o p4 \in Seq(Commands)  BY <1>3, <1>6
    <2>2. (p1 \o p2) \o p3 \o p4 = (p1 \o p2) \o (p3 \o p4)  BY <1>3, <1>6, <2>1
    <2>3. (p1 \o p2) \o (p3 \o p4) = p1 \o (p2 \o (p3 \o p4))  BY <1>6, <2>1
    <2>4. QED  BY <1>4, <1>5, <2>2, <2>3
  <1>10. IF Lifts(f, s)
         THEN MarkAll(f, s) # <<>> /\ Tail(MarkAll(f, s)) = MarkMode(f, s) /\ Head(MarkAll(f, s)) = unlock
         ELSE MarkAll(f, s) = MarkMode(f, s)
    <2>1. CASE Lifts(f, s)
      <3>1. MarkAll(f, s) = <<unlock>> \o MarkMode(f, s)  BY <1>5, <2>1 DEF If, p1, p2, p3
      <3>2. QED  BY <1>2, <1>8, <2>1, <3>1, HeadOf
    <2>2. CASE ~Lifts(f, s)
      <3>1. MarkAll(f, s) = <<>> \o MarkMode(f, s)  BY <1>5, <2>2 DEF If, p1, p2, p3
      <3>2. QED  BY <1>8, <2>2, <3>1, CommandSeqs
    <2>3. QED  BY <2>1, <2>2
  <1>11. IF w.mode # f.mode
         THEN MarkMode(f, s) # <<>> /\ Tail(MarkMode(f, s)) = MarkOwner(f, s) /\ Head(MarkMode(f, s)) = chmod
         ELSE MarkMode(f, s) = MarkOwner(f, s)
    <2>1. CASE w.mode # f.mode
      <3>1. MarkMode(f, s) = <<chmod>> \o MarkOwner(f, s)  BY <1>5, <2>1 DEF If, p1, p2, p3
      <3>2. QED  BY <1>2, <1>7, <2>1, <3>1, HeadOf
    <2>2. CASE w.mode = f.mode
      <3>1. MarkMode(f, s) = <<>> \o MarkOwner(f, s)  BY <1>5, <2>2 DEF If, p1, p2, p3
      <3>2. QED  BY <1>7, <2>2, <3>1, CommandSeqs
    <2>3. QED  BY <2>1, <2>2
  <1>12. IF w.owner # f.owner
         THEN MarkOwner(f, s) # <<>> /\ Tail(MarkOwner(f, s)) = p4 /\ Head(MarkOwner(f, s)) = chown
         ELSE MarkOwner(f, s) = p4
    <2>1. CASE w.owner # f.owner
      <3>1. MarkOwner(f, s) = <<chown>> \o p4  BY <1>5, <2>1 DEF If, p1, p2, p3
      <3>2. QED  BY <1>2, <1>3, <2>1, <3>1, HeadOf
    <2>2. CASE w.owner = f.owner
      <3>1. MarkOwner(f, s) = <<>> \o p4  BY <1>5, <2>2 DEF If, p1, p2, p3
      <3>2. QED  BY <1>3, <2>2, <3>1, CommandSeqs
    <2>3. QED  BY <2>1, <2>2
  <1>13. QED  BY <1>9, <1>10, <1>11, <1>12 DEF w, unlock, chmod, chown, p4

(* Where the stamping of f may be, p being what is there and cs the        *)
(* commands that are left.                                                 *)
Owned(f, s, p) ==
    LET w == FM!Wanted(f, s)
    IN /\ p.owner = w.owner
       /\ p.mode = w.mode \/ (w.owner # f.owner /\ p.mode = Plain(w.mode))

Lockable(f, s, p) == Relocks(f, s) \/ p.attrs = FM!Wanted(f, s).attrs

AtAll(f, s, p, cs) == cs = MarkAll(f, s) /\ p = f
AtMode(f, s, p, cs) ==
    cs = MarkMode(f, s) /\ p.mode = f.mode /\ p.owner = f.owner /\ Lockable(f, s, p)
AtOwner(f, s, p, cs) ==
    /\ cs = MarkOwner(f, s)
    /\ p.mode = FM!Wanted(f, s).mode /\ p.owner = f.owner /\ Lockable(f, s, p)
AtLocks(f, s, p, cs) == cs = MarkLocks(f, s) /\ Owned(f, s, p) /\ Lockable(f, s, p)
AtLast(f, s, p, cs) ==
    LET w == FM!Wanted(f, s)
    IN cs = Chattr("chattr+", w.attrs) /\ Owned(f, s, p) /\ p.attrs \subseteq w.attrs
AtEnd(f, s, p, cs) == cs = <<>> /\ Owned(f, s, p) /\ p.attrs = FM!Wanted(f, s).attrs

Marking(f, s, p, cs) ==
    /\ p.content = f.content
    /\ \/ AtAll(f, s, p, cs) \/ AtMode(f, s, p, cs) \/ AtOwner(f, s, p, cs)
       \/ AtLocks(f, s, p, cs) \/ AtLast(f, s, p, cs) \/ AtEnd(f, s, p, cs)

LEMMA MarkOn ==
    ASSUME NEW f \in Files, NEW s \in FM!Specs, NEW p \in Files, NEW cs
    PROVE  LET w == FM!Wanted(f, s) IN
           /\ AtAll(f, s, p, cs) /\ ~Lifts(f, s) => AtMode(f, s, p, cs)
           /\ AtMode(f, s, p, cs) /\ w.mode = f.mode => AtOwner(f, s, p, cs)
           /\ AtOwner(f, s, p, cs) /\ w.owner = f.owner => AtLocks(f, s, p, cs)
           /\ AtLocks(f, s, p, cs) /\ ~Relocks(f, s) => AtEnd(f, s, p, cs)
  <1> DEFINE w == FM!Wanted(f, s)
  <1>1. ASSUME AtAll(f, s, p, cs), ~Lifts(f, s) PROVE AtMode(f, s, p, cs)
    <2>1. cs = MarkMode(f, s)  BY <1>1, MarkFacts DEF AtAll
    <2>2. Lockable(f, s, p)  BY <1>1 DEF AtAll, Lockable, Relocks
    <2>3. QED  BY <1>1, <2>1, <2>2 DEF AtAll, AtMode
  <1>2. ASSUME AtMode(f, s, p, cs), w.mode = f.mode PROVE AtOwner(f, s, p, cs)
    <2>1. cs = MarkOwner(f, s)  BY <1>2, MarkFacts DEF AtMode
    <2>2. QED  BY <1>2, <2>1 DEF AtMode, AtOwner
  <1>3. ASSUME AtOwner(f, s, p, cs), w.owner = f.owner PROVE AtLocks(f, s, p, cs)
    <2>1. cs = MarkLocks(f, s)  BY <1>3, MarkFacts DEF AtOwner
    <2>2. QED  BY <1>3, <2>1 DEF AtOwner, AtLocks, Owned
  <1>4. ASSUME AtLocks(f, s, p, cs), ~Relocks(f, s) PROVE AtEnd(f, s, p, cs)
    BY <1>4 DEF AtLocks, AtEnd, Lockable, MarkLocks, If
  <1>5. QED  BY <1>1, <1>2, <1>3, <1>4

LEMMA MarkNext ==
    ASSUME NEW f \in Files, NEW s \in FM!Specs, NEW p \in Files, NEW cs,
           Marking(f, s, p, cs), cs # <<>>, ~Refused(Head(cs), p)
    PROVE  Marking(f, s, Effect(Head(cs), p), Tail(cs))
  <1> DEFINE w == FM!Wanted(f, s)
             c == Head(cs)
             g == Effect(c, p)
  <1>1. /\ w.mode \in Modes /\ w.owner \in Owners /\ w.attrs \in SUBSET Letters
        /\ f.attrs \in SUBSET Letters /\ p.attrs \in SUBSET Letters
        /\ Letters \in SUBSET Letters
    BY WantedFacts, FileFacts
  <1>2. p.content = f.content  BY DEF Marking
  <1>3. CASE AtAll(f, s, p, cs) /\ Lifts(f, s)
    <2>1. cs = MarkAll(f, s) /\ p = f  BY <1>3 DEF AtAll
    <2>2. c = [do |-> "chattr-", arg |-> Letters] /\ Tail(cs) = MarkMode(f, s)
      BY <1>3, <2>1, MarkFacts
    <2>3. g.content = f.content /\ g.mode = f.mode /\ g.owner = f.owner
      <3> DEFINE h == Effect([do |-> "chattr-", arg |-> Letters], f)
      <3>1. h.content = f.content /\ h.mode = f.mode /\ h.owner = f.owner
        BY <1>1, Chattred
      <3>2. g = h  BY <2>1, <2>2
      <3> HIDE DEF g, h
      <3>3. QED  BY <3>1, <3>2
    <2>4. Lockable(f, s, g)  BY <1>3 DEF Lockable, Relocks
    <2> HIDE DEF g
    <2>5. QED  BY <2>2, <2>3, <2>4 DEF Marking, AtMode, g
  <1>4. CASE AtMode(f, s, p, cs) /\ w.mode # f.mode
    <2>1. cs = MarkMode(f, s) /\ p.owner = f.owner /\ Lockable(f, s, p)  BY <1>4 DEF AtMode
    <2>2. c = [do |-> "chmod", arg |-> w.mode] /\ Tail(cs) = MarkOwner(f, s)
      BY <1>4, <2>1, MarkFacts
    <2>3. g.content = p.content /\ g.mode = w.mode /\ g.owner = p.owner /\ g.attrs = p.attrs
      <3> DEFINE h == Effect([do |-> "chmod", arg |-> w.mode], p)
      <3>1. h.content = p.content /\ h.mode = w.mode /\ h.owner = p.owner /\ h.attrs = p.attrs
        BY <1>1, Chmodded
      <3>2. g = h  BY <2>2
      <3> HIDE DEF g, h
      <3>3. QED  BY <3>1, <3>2
    <2> HIDE DEF g
    <2>4. Lockable(f, s, g)  BY <2>1, <2>3 DEF Lockable
    <2>5. AtOwner(f, s, g, Tail(cs))  BY <2>1, <2>2, <2>3, <2>4 DEF AtOwner
    <2>6. QED  BY <1>2, <2>3, <2>5 DEF Marking, g
  <1>5. CASE AtOwner(f, s, p, cs) /\ w.owner # f.owner
    <2>1. cs = MarkOwner(f, s) /\ p.mode = w.mode /\ Lockable(f, s, p)  BY <1>5 DEF AtOwner
    <2>2. c = [do |-> "chown", arg |-> w.owner] /\ Tail(cs) = MarkLocks(f, s)
      BY <1>5, <2>1, MarkFacts
    <2>3. /\ g.content = p.content /\ g.mode = Plain(p.mode) /\ g.owner = w.owner
          /\ g.attrs = p.attrs
      <3> DEFINE h == Effect([do |-> "chown", arg |-> w.owner], p)
      <3>1. /\ h.content = p.content /\ h.mode = Plain(p.mode) /\ h.owner = w.owner
            /\ h.attrs = p.attrs
        BY <1>1, Chowned
      <3>2. g = h  BY <2>2
      <3> HIDE DEF g, h
      <3>3. QED  BY <3>1, <3>2
    <2> HIDE DEF g
    <2>4. Lockable(f, s, g)  BY <2>1, <2>3 DEF Lockable
    <2>5. Owned(f, s, g)  BY <1>5, <2>1, <2>3 DEF Owned
    <2>6. AtLocks(f, s, g, Tail(cs))  BY <2>2, <2>4, <2>5 DEF AtLocks
    <2>7. QED  BY <1>2, <2>3, <2>6 DEF Marking, g
  <1>6. ASSUME NEW do \in {"chattr-", "chattr+"}, NEW a \in SUBSET Letters,
               c = [do |-> do, arg |-> a], Owned(f, s, p)
        PROVE  /\ g.content = f.content /\ Owned(f, s, g)
               /\ g.attrs = IF do = "chattr-" THEN p.attrs \ a ELSE p.attrs \cup a
    <2>1. /\ g.content = p.content /\ g.mode = p.mode /\ g.owner = p.owner
          /\ g.attrs = IF do = "chattr-" THEN p.attrs \ a ELSE p.attrs \cup a
      <3> DEFINE h == Effect([do |-> do, arg |-> a], p)
      <3>1. /\ h.content = p.content /\ h.mode = p.mode /\ h.owner = p.owner
            /\ h.attrs = IF do = "chattr-" THEN p.attrs \ a ELSE p.attrs \cup a
        <4>1. CASE do = "chattr-"  BY <4>1, Chattred
        <4>2. CASE do = "chattr+"  BY <4>2, Chattred
        <4>3. QED  BY <4>1, <4>2
      <3>2. g = h  BY <1>6
      <3> HIDE DEF g, h
      <3>3. QED  BY <3>1, <3>2
    <2> HIDE DEF g
    <2>2. Owned(f, s, g)  BY <1>6, <2>1 DEF Owned
    <2>3. QED  BY <1>2, <2>1, <2>2
  <1>7. CASE AtLast(f, s, p, cs)
    <2>1. cs = Chattr("chattr+", w.attrs) /\ Owned(f, s, p) /\ p.attrs \subseteq w.attrs
      BY <1>7 DEF AtLast
    <2>2. c = [do |-> "chattr+", arg |-> w.attrs] /\ Tail(cs) = <<>>
      BY <2>1, Single DEF Chattr
    <2>3. g.content = f.content /\ Owned(f, s, g) /\ g.attrs = p.attrs \cup w.attrs
      BY <1>1, <1>6, <2>1, <2>2
    <2> HIDE DEF g
    <2>4. AtEnd(f, s, g, Tail(cs))  BY <2>1, <2>2, <2>3 DEF AtEnd
    <2>5. QED  BY <2>3, <2>4 DEF Marking, g
  <1>8. CASE AtLocks(f, s, p, cs) /\ Relocks(f, s)
    <2>1. cs = FM!ManagedAttrs(w.attrs) /\ Owned(f, s, p)
      BY <1>8 DEF AtLocks, MarkLocks, If
    <2>2. CASE w.attrs = {}
      <3>1. cs = Chattr("chattr-", Letters)  BY <1>1, <2>1, <2>2, ManagedFacts
      <3>2. c = [do |-> "chattr-", arg |-> Letters] /\ Tail(cs) = <<>>
        BY <3>1, Single DEF Chattr
      <3>3. g.content = f.content /\ Owned(f, s, g) /\ g.attrs = p.attrs \ Letters
        BY <1>1, <1>6, <2>1, <3>2
      <3> HIDE DEF g
      <3>4. AtEnd(f, s, g, Tail(cs))  BY <1>1, <2>2, <3>2, <3>3 DEF AtEnd
      <3>5. QED  BY <3>3, <3>4 DEF Marking, g
    <2>3. CASE w.attrs = Letters
      <3>1. cs = Chattr("chattr+", w.attrs)  BY <1>1, <2>1, <2>3, ManagedFacts
      <3>2. AtLast(f, s, p, cs)  BY <1>1, <2>1, <2>3, <3>1 DEF AtLast
      <3>3. QED  BY <1>7, <3>2
    <2>4. CASE w.attrs \notin {{}, Letters}
      <3> DEFINE minus == [do |-> "chattr-", arg |-> Letters \ w.attrs]
                 plus == [do |-> "chattr+", arg |-> w.attrs]
      <3>1. cs = <<minus>> \o <<plus>>  BY <1>1, <2>1, <2>4, ManagedFacts DEF Chattr
      <3>2. minus \in Commands /\ <<plus>> \in Seq(Commands)
        <4>1. minus \in Commands /\ plus \in Commands  BY <1>1 DEF Commands
        <4> HIDE DEF minus, plus
        <4>2. QED  BY <4>1, CommandSeqs
      <3>3. c = minus /\ Tail(cs) = <<plus>>
        <4> HIDE DEF minus, plus
        <4>1. QED  BY <3>1, <3>2, HeadOf
      <3>4. g.content = f.content /\ Owned(f, s, g) /\ g.attrs = p.attrs \ (Letters \ w.attrs)
        <4>1. Letters \ w.attrs \in SUBSET Letters  OBVIOUS
        <4>2. QED  BY <1>6, <2>1, <3>3, <4>1
      <3> HIDE DEF g
      <3>5. g.attrs \subseteq w.attrs  BY <1>1, <3>4
      <3>6. AtLast(f, s, g, Tail(cs))  BY <3>3, <3>4, <3>5 DEF AtLast, Chattr
      <3>7. QED  BY <3>4, <3>6 DEF Marking, g
    <2>5. QED  BY <2>2, <2>3, <2>4
  <1>9. ~AtEnd(f, s, p, cs)  BY DEF AtEnd
  <1>10. AtLocks(f, s, p, cs) => Relocks(f, s)  BY <1>9, MarkOn
  <1>11. QED  BY <1>3, <1>4, <1>5, <1>7, <1>8, <1>9, <1>10, MarkOn DEF Marking

(* A stamping that has no command left has made what Outcomes says.        *)
LEMMA MarkEnd ==
    ASSUME NEW f \in Files, NEW s \in FM!Specs, s.plugin # "template", NEW p \in Files,
           Marking(f, s, p, <<>>)
    PROVE  p \in Outcomes(f, s)
  <1> DEFINE w == FM!Wanted(f, s)
  <1>1. w \in Files /\ w.content = f.content /\ w.attrs \in SUBSET Letters
    BY WantedFile, WantedFacts
  <1>2. ~(AtLocks(f, s, p, <<>>) /\ Relocks(f, s)) /\ ~AtLast(f, s, p, <<>>)
    <2>1. FM!ManagedAttrs(w.attrs) # <<>>
      <3>1. CASE w.attrs \in {{}, Letters}
        <4>1. FM!ManagedAttrs(w.attrs) = Chattr("chattr-", Letters) \/ FM!ManagedAttrs(w.attrs) = Chattr("chattr+", w.attrs)
          BY <1>1, <3>1, ManagedFacts
        <4>2. QED  BY <4>1 DEF Chattr
      <3>2. CASE w.attrs \notin {{}, Letters}
        <4>1. FM!ManagedAttrs(w.attrs) = Chattr("chattr-", Letters \ w.attrs) \o Chattr("chattr+", w.attrs)
          BY <1>1, <3>2, ManagedFacts
        <4>2. QED  BY <4>1 DEF Chattr
      <3>3. QED  BY <3>1, <3>2
    <2>2. QED  BY <2>1 DEF AtLocks, AtLast, MarkLocks, If, Chattr
  <1>3. /\ ~(AtAll(f, s, p, <<>>) /\ Lifts(f, s))
        /\ ~(AtMode(f, s, p, <<>>) /\ w.mode # f.mode)
        /\ ~(AtOwner(f, s, p, <<>>) /\ w.owner # f.owner)
    BY MarkFacts DEF AtAll, AtMode, AtOwner
  <1>4. AtEnd(f, s, p, <<>>)  BY <1>2, <1>3, MarkOn DEF Marking
  <1>5. /\ p.content = w.content /\ p.owner = w.owner /\ p.attrs = w.attrs
        /\ p.mode = w.mode \/ (w.owner # f.owner /\ p.mode = Plain(w.mode))
    BY <1>1, <1>4 DEF AtEnd, Owned, Marking
  <1>6. f # Gone  BY FileFacts
  <1>7. Outcomes(f, s) = IF w.owner = f.owner THEN {w} ELSE OrPlain(w)
    BY <1>6 DEF Outcomes
  <1> HIDE DEF w
  <1>8. CASE p.mode = w.mode
    <2>1. p = w  BY <1>1, <1>5, <1>8, SameFile
    <2>2. QED  BY <1>7, <2>1 DEF OrPlain
  <1>9. CASE p.mode = Plain(w.mode) /\ w.owner # f.owner
    <2>1. [w EXCEPT !.mode = Plain(@)]
            = [content |-> w.content, mode |-> Plain(w.mode), owner |-> w.owner, attrs |-> w.attrs]
      BY <1>1 DEF Files
    <2>2. p = [content |-> p.content, mode |-> p.mode, owner |-> p.owner, attrs |-> p.attrs]
      BY DEF Files
    <2>3. p = [w EXCEPT !.mode = Plain(@)]  BY <1>5, <1>9, <2>1, <2>2
    <2>4. QED  BY <1>7, <1>9, <2>3 DEF OrPlain
  <1>10. QED  BY <1>5, <1>8, <1>9

-----------------------------------------------------------------------------
(* What a run has made of the path: after the first k steps it is what     *)
(* they may leave, unless somebody deleted it since.                       *)
Reached(k, p) ==
    LET S == Left(profile, start)[k] IN S # {} /\ (p = Gone \/ p \in S)

Working(f) ==
    LET s == profile[i] IN
    IF IsTemplate(i)
    THEN \/ cmds = WriteRootFile(s.content, s.mode)
         \/ cmds = <<>> /\ (file = Gone \/ file \in Outcomes(f, s))
    ELSE f \in Files /\ (file = Gone \/ Marking(f, s, file, cmds))

DesiredInv ==
    /\ pc \in {"capture", "inspect"} => Reached(i - 1, file)
    /\ pc = "apply" => \E f \in Left(profile, start)[i - 1] : Working(f)
    /\ pc = "applied" => Reached(Len(profile), file)

LEMMA SomeOutcome ==
    ASSUME NEW f, NEW s,
           \/ s.plugin = "template"
           \/ s.plugin # "template" /\ f # Gone
    PROVE  /\ Outcomes(f, s) # {}
           /\ s.plugin = "template" =>
                [content |-> s.content, mode |-> s.mode, owner |-> Root, attrs |-> {}] \in Outcomes(f, s)
  BY DEF Outcomes, OrPlain

LEMMA NextLeft ==
    ASSUME profile \in Profiles, NEW k \in 1..Len(profile),
           NEW f \in Left(profile, start)[k - 1]
    PROVE  /\ Outcomes(f, profile[k]) \subseteq Left(profile, start)[k]
           /\ IsTemplate(k) \/ f # Gone => Left(profile, start)[k] # {}
  <1>1. profile \in Seq(FM!Specs \cup TP!Specs)  BY PathsAssumption
  <1>2. Left(profile, start)[k]
          = UNION {Outcomes(g, profile[k]) : g \in Left(profile, start)[k - 1]}
    BY <1>1, LeftFacts
  <1>3. IsTemplate(k) \/ f # Gone => Outcomes(f, profile[k]) # {}
    BY SomeOutcome DEF IsTemplate
  <1>4. QED  BY <1>2, <1>3

LEMMA StaticLeft ==
    ASSUME UNCHANGED <<profile, start>>
    PROVE  /\ Left(profile, start)' = Left(profile, start)
           /\ \A k, p : Reached(k, p)' = Reached(k, p)
           /\ \A k : IsTemplate(k)' = IsTemplate(k)
           /\ UNCHANGED <<i, cmds, file>> => \A f : Working(f)' = Working(f)
  <1>1. Left(profile, start)' = Left(profile, start)  BY DEF Left
  <1>2. \A k : IsTemplate(k)' = IsTemplate(k)  BY DEF IsTemplate
  <1>3. \A k, p : Reached(k, p)' = Reached(k, p)  BY <1>1 DEF Reached
  <1>4. UNCHANGED <<i, cmds, file>> => \A f : Working(f)' = Working(f)
    BY <1>2 DEF Working
  <1>5. QED  BY <1>1, <1>2, <1>3, <1>4

LEMMA InspectDesired ==
    ASSUME TypeInv, ShapeInv, DesiredInv, Inspect
    PROVE  DesiredInv'
  <1>1. pc = "inspect" /\ UNCHANGED <<profile, file, i, start>> /\ pc' \in {"failed", "apply"}
    BY DEF Inspect
  <1>2. CASE pc' = "failed"  BY <1>2 DEF DesiredInv
  <1>3. CASE pc' = "apply"
    <2> DEFINE s == profile[i]
    <2>1. PICK seen \in {file, Gone} : /\ seen # Gone \/ IsTemplate(i)
                                       /\ cmds' = ApplyCommands(i, seen)
      BY <1>3 DEF Inspect
    <2>2. Reached(i - 1, file)  BY <1>1 DEF DesiredInv
    <2>3. i \in DOMAIN profile /\ profile \in Profiles /\ file \in Found
      <3>1. i \in 1..Len(profile)  BY <1>1 DEF ShapeInv, TypeInv
      <3>2. profile \in Seq(FM!Specs \cup TP!Specs)  BY PathsAssumption DEF TypeInv
      <3>3. QED  BY <3>1, <3>2 DEF TypeInv
    <2>4. CASE IsTemplate(i)
      <3>1. cmds' = IF ~TP!Matches(seen, s) THEN WriteRootFile(s.content, s.mode) ELSE <<>>
        BY <2>1, <2>4 DEF ApplyCommands, TP!ApplyCommands, TP!If, TP!WriteRootFile, WriteRootFile
      <3>2. CASE ~TP!Matches(seen, s)
        <4>1. PICK f : f \in Left(profile, start)[i - 1]  BY <2>2 DEF Reached
        <4>2. cmds' = WriteRootFile(s.content, s.mode)  BY <3>1, <3>2
        <4>3. Working(f)'  BY <1>1, <2>4, <4>2, StaticLeft DEF Working
        <4>4. QED  BY <1>1, <1>3, <4>1, <4>3, StaticLeft DEF DesiredInv
      <3>3. CASE TP!Matches(seen, s)
        <4>1. seen # Gone /\ seen = file  BY <2>1, <3>3 DEF TP!Matches
        <4>2. file \in Left(profile, start)[i - 1]  BY <2>2, <4>1 DEF Reached
        <4>3. file \in Outcomes(file, s)  BY <2>4, <3>3, <4>1 DEF Outcomes, IsTemplate
        <4>4. Working(file)'  BY <1>1, <2>4, <3>1, <3>3, <4>3, StaticLeft DEF Working
        <4>5. QED  BY <1>1, <1>3, <4>2, <4>4, StaticLeft DEF DesiredInv
      <3>4. QED  BY <3>2, <3>3
    <2>5. CASE ~IsTemplate(i)
      <3>1. seen = file /\ file # Gone  BY <2>1, <2>5
      <3>2. s \in FM!Specs /\ file \in Files  BY <2>3, <2>5, <3>1, StepTypes DEF Found
      <3>3. cmds' = MarkAll(file, s)  BY <2>1, <2>5, <3>1, <3>2, MarkFacts DEF ApplyCommands
      <3>4. Marking(file, s, file, cmds')  BY <3>3 DEF Marking, AtAll
      <3>5. Working(file)'  BY <1>1, <2>5, <3>2, <3>4, StaticLeft DEF Working
      <3>6. file \in Left(profile, start)[i - 1]  BY <2>2, <3>1 DEF Reached
      <3>7. QED  BY <1>1, <1>3, <3>5, <3>6, StaticLeft DEF DesiredInv
    <2>6. QED  BY <2>4, <2>5
  <1>4. QED  BY <1>1, <1>2, <1>3

LEMMA CommandDesired ==
    ASSUME TypeInv, ShapeInv, DesiredInv, Command
    PROVE  DesiredInv'
  <1> DEFINE c == Head(cmds)
             s == profile[i]
  <1>1. UNCHANGED <<profile, i, start>> /\ cmds # <<>>  BY DEF Command
  <1>2. CASE pc' # "apply"
    <2>1. pc' \in {"failed", "revert", Stuck}  BY <1>2 DEF Command
    <2>2. QED  BY <1>2, <2>1 DEF DesiredInv, Stuck
  <1>3. CASE pc' = "apply"
    <2>1. /\ pc = "apply" /\ ~Refused(c, file)
          /\ file' = Effect(c, file) /\ cmds' = Tail(cmds)
      BY <1>3 DEF Command, Stuck
    <2>2. PICK f \in Left(profile, start)[i - 1] : Working(f)  BY <2>1 DEF DesiredInv
    <2>3. i \in DOMAIN profile /\ profile \in Profiles /\ file \in Found
      <3>1. i \in 1..Len(profile)  BY <2>1 DEF ShapeInv, TypeInv
      <3>2. profile \in Seq(FM!Specs \cup TP!Specs)  BY PathsAssumption DEF TypeInv
      <3>3. QED  BY <3>1, <3>2 DEF TypeInv
    <2>4. Working(f)'
      <3>1. CASE IsTemplate(i)
        <4> DEFINE g == [content |-> s.content, mode |-> s.mode, owner |-> Root, attrs |-> {}]
        <4>1. cmds = WriteRootFile(s.content, s.mode)  BY <1>1, <2>2, <3>1 DEF Working
        <4>2. c = [do |-> "install", arg |-> g] /\ Tail(cmds) = <<>>
          BY <4>1, Single DEF WriteRootFile
        <4>3. file' = g  BY <2>1, <4>2 DEF Effect
        <4>4. g \in Outcomes(f, s)  BY <3>1, SomeOutcome DEF IsTemplate
        <4>5. QED  BY <1>1, <2>1, <3>1, <4>2, <4>3, <4>4, StaticLeft DEF Working
      <3>2. CASE ~IsTemplate(i)
        <4>1. f \in Files /\ (file = Gone \/ Marking(f, s, file, cmds))
          BY <2>2, <3>2 DEF Working
        <4>2. s \in FM!Specs  BY <2>3, <3>2, StepTypes
        <4>3. file # Gone
          <5>1. cmds \in Seq(Allowed(i))  BY <2>1 DEF ShapeInv
          <5>2. c \in Allowed(i)  BY <1>1, <5>1
          <5>3. c.do \notin {"install", "rm"}  BY <3>2, <5>2 DEF Allowed
          <5>4. QED  BY <2>1, <5>3 DEF Refused
        <4>4. file \in Files /\ Marking(f, s, file, cmds)  BY <2>3, <4>1, <4>3 DEF Found
        <4>5. Marking(f, s, Effect(c, file), Tail(cmds))
          BY <1>1, <2>1, <4>1, <4>2, <4>4, MarkNext
        <4>6. QED  BY <1>1, <2>1, <3>2, <4>1, <4>5, StaticLeft DEF Working
      <3>3. QED  BY <3>1, <3>2
    <2>5. QED  BY <1>1, <1>3, <2>2, <2>4, StaticLeft DEF DesiredInv
  <1>4. QED  BY <1>2, <1>3

LEMMA CaptureAfterDesired ==
    ASSUME TypeInv, ShapeInv, DesiredInv, CaptureAfter
    PROVE  DesiredInv'
  <1> DEFINE s == profile[i]
  <1>1. pc = "apply" /\ cmds = <<>> /\ UNCHANGED <<profile, file, start>>  BY DEF CaptureAfter
  <1>2. i \in DOMAIN profile /\ i \in 1..Len(profile) /\ profile \in Profiles /\ file \in Found
    <2>1. i \in 1..Len(profile)  BY <1>1 DEF ShapeInv, TypeInv
    <2>2. profile \in Seq(FM!Specs \cup TP!Specs)  BY PathsAssumption DEF TypeInv
    <2>3. QED  BY <2>1, <2>2 DEF TypeInv
  <1>3. Reached(i, file)
    <2>1. PICK f \in Left(profile, start)[i - 1] : Working(f)  BY <1>1 DEF DesiredInv
    <2>2. IsTemplate(i) \/ f # Gone  BY <2>1, FileFacts DEF Working
    <2>3. /\ Outcomes(f, s) \subseteq Left(profile, start)[i]
          /\ Left(profile, start)[i] # {}
      BY <1>2, <2>1, <2>2, NextLeft
    <2>4. file = Gone \/ file \in Outcomes(f, s)
      <3>1. CASE IsTemplate(i)
        <4>1. WriteRootFile(s.content, s.mode) # <<>>  BY DEF WriteRootFile
        <4>2. QED  BY <1>1, <2>1, <3>1, <4>1 DEF Working
      <3>2. CASE ~IsTemplate(i) /\ file # Gone
        <4>1. f \in Files /\ Marking(f, s, file, <<>>)  BY <1>1, <2>1, <3>2 DEF Working
        <4>2. s \in FM!Specs /\ s.plugin # "template" /\ file \in Files
          BY <1>2, <3>2, StepTypes DEF IsTemplate, Found
        <4>3. QED  BY <4>1, <4>2, MarkEnd
      <3>3. QED  BY <3>1, <3>2
    <2>5. QED  BY <2>3, <2>4 DEF Reached
  <1>4. \/ pc' = "failed"
        \/ i = Len(profile) /\ pc' = "applied"
        \/ pc' = "capture" /\ i' = i + 1
    BY DEF CaptureAfter
  <1>5. CASE i = Len(profile) /\ pc' = "applied"
    BY <1>1, <1>3, <1>5, StaticLeft DEF DesiredInv, Reached
  <1>6. CASE pc' = "capture" /\ i' = i + 1
    <2>1. i' - 1 = i  BY <1>2, <1>6
    <2>2. Reached(i - 1, file)'
      <3>1. Left(profile, start)' = Left(profile, start)  BY <1>1, StaticLeft
      <3>2. QED  BY <1>1, <1>3, <2>1, <3>1 DEF Reached
    <2>3. QED  BY <1>6, <2>2 DEF DesiredInv
  <1>7. QED  BY <1>4, <1>5, <1>6 DEF DesiredInv

(* A run that succeeded left exactly what its steps ask for: of any        *)
(* profile, on any file, whatever was retried, failed or vanished before.  *)
THEOREM DonePathIsDesired == Spec => []DoneMeansDesired
  <1>1. Init => DesiredInv  BY DEF Init, DesiredInv
  <1>2. Inv /\ DesiredInv /\ [Next]_vars => DesiredInv'
    <2> SUFFICES ASSUME Inv, DesiredInv, [Next]_vars PROVE DesiredInv'
      OBVIOUS
    <2>1. TypeInv /\ ShapeInv  BY DEF Inv
    <2>2. CASE Begin
      <3>1. pc' = "capture" /\ i' = 1 /\ start' = file' /\ profile' \in Profiles
        BY <2>1, <2>2 DEF Begin, ShapeInv, TypeInv
      <3>2. profile' \in Seq(FM!Specs \cup TP!Specs)  BY <3>1, PathsAssumption
      <3>3. Left(profile', start')[0] = {start'}  BY <3>2, LeftFacts
      <3>4. Left(profile', start')[i' - 1] = {file'}  BY <3>1, <3>3
      <3>5. Reached(i - 1, file)'  BY <3>4 DEF Reached
      <3>6. QED  BY <3>1, <3>5 DEF DesiredInv
    <2>3. CASE CaptureBefore
      <3>1. /\ pc = "capture" /\ pc' \in {"inspect", "failed"}
            /\ UNCHANGED <<profile, file, i, start>>
        BY <2>3 DEF CaptureBefore
      <3>2. QED  BY <3>1, StaticLeft DEF DesiredInv, Reached
    <2>4. CASE Inspect \/ Command \/ CaptureAfter
      BY <2>1, <2>4, InspectDesired, CommandDesired, CaptureAfterDesired
    <2>5. CASE Rollback \/ ForceRollback \/ RevertStep \/ Restored \/ StartOver
      <3>1. pc' \in {"revert", "refused", "restored", "ready", Stuck}
        BY <2>5 DEF Rollback, ForceRollback, RevertStep, Restored, StartOver
      <3>2. QED  BY <3>1 DEF DesiredInv, Stuck
    <2>6. CASE Vanish
      <3>1. UNCHANGED <<profile, pc, i, cmds, start>> /\ file' = Gone  BY <2>6 DEF Vanish
      <3>2. Left(profile, start)' = Left(profile, start) /\ \A k : IsTemplate(k)' = IsTemplate(k)
        BY <3>1, StaticLeft
      <3>3. pc = "apply" => \E f \in Left(profile, start)[i - 1] : Working(f)'
        <4> SUFFICES ASSUME pc = "apply"
                     PROVE  \E f \in Left(profile, start)[i - 1] : Working(f)'
          OBVIOUS
        <4>1. PICK f \in Left(profile, start)[i - 1] : Working(f)  BY DEF DesiredInv
        <4>2. Working(f)'  BY <3>1, <3>2, <4>1 DEF Working
        <4>3. QED  BY <4>1, <4>2
      <3>4. \A k : Reached(k, file) => Reached(k, file)'  BY <3>1, <3>2 DEF Reached
      <3>5. QED  BY <3>1, <3>2, <3>3, <3>4 DEF DesiredInv, Reached
    <2>7. CASE UNCHANGED vars
      <3>1. UNCHANGED <<profile, pc, i, cmds, start, file>>  BY <2>7 DEF vars
      <3>2. QED  BY <3>1, StaticLeft DEF DesiredInv, Reached, Working
    <2>8. QED  BY <2>2, <2>3, <2>4, <2>5, <2>6, <2>7 DEF Next
  <1>3. DesiredInv => DoneMeansDesired  BY DEF DesiredInv, DoneMeansDesired, Reached
  <1>4. QED  BY <1>1, <1>2, <1>3, Invariant, PTL DEF Spec

-----------------------------------------------------------------------------
(* The diff of two texts.  LineDiff computes it with recursive functions:  *)
(* first, that each is what its body says.  Then by induction over what is *)
(* left of the texts at a place of the comparison: the edits from there on *)
(* lead from the one rest to the other and keep Kept lines, and two rests  *)
(* with more lines in common there are none.                               *)
(*                                                                         *)
(* Recursion.  A function of D whose value at x follows from its values at *)
(* what ranks below x is what the functions for the lower ranks agree on.  *)
Solves(F, D, V, G, rank, n) ==
    F \in [D -> V] /\ \A x \in D : rank[x] < n => F[x] = G[<<x, F>>]

Lower(D, V, G, rank) ==
    \A x \in D : \A F, H \in [D -> V] :
        (\A y \in D : rank[y] < rank[x] => F[y] = H[y]) => G[<<x, F>>] = G[<<x, H>>]

Recursive(D, V, G, rank) ==
    V # {} /\ rank \in [D -> Nat] /\ G \in [D \X [D -> V] -> V] /\ Lower(D, V, G, rank)

Fixed(F, D, V, G) == F \in [D -> V] /\ \A x \in D : F[x] = G[<<x, F>>]

(* What holds at x when it holds at all that ranks below x, holds.         *)
LEMMA ByRank ==
    ASSUME NEW D, NEW rank \in [D -> Nat], NEW Good \in SUBSET D,
           \A x \in D : (\A y \in D : rank[y] < rank[x] => y \in Good) => x \in Good
    PROVE  Good = D
  <1> DEFINE Bad == D \ Good
             T == {rank[x] : x \in Bad}
  <1>1. SUFFICES ASSUME Bad # {} PROVE FALSE
    OBVIOUS
  <1>2. T \in SUBSET Nat /\ T # {}  BY <1>1
  <1> HIDE DEF T
  <1>3. PICK k \in T : \A m \in T : k <= m  BY <1>2, LeastNumber
  <1>4. PICK x \in Bad : rank[x] = k  BY <1>3 DEF T
  <1>5. \A y \in Bad : rank[x] <= rank[y]  BY <1>3, <1>4 DEF T
  <1>6. \A y \in D : rank[y] < rank[x] => y \in Good
    <2>1. \A y \in D : rank[y] \in Nat  OBVIOUS
    <2>2. QED  BY <1>4, <1>5, <2>1
  <1>7. QED  BY <1>4, <1>6

LEMMA SolutionsAgree ==
    ASSUME NEW D, NEW V, NEW rank \in [D -> Nat], NEW G, Lower(D, V, G, rank),
           NEW n \in Nat, NEW F, NEW H,
           Solves(F, D, V, G, rank, n), Solves(H, D, V, G, rank, n)
    PROVE  \A x \in D : rank[x] < n => F[x] = H[x]
  <1> DEFINE Good == {x \in D : rank[x] < n => F[x] = H[x]}
  <1>1. ASSUME NEW x \in D, \A y \in D : rank[y] < rank[x] => y \in Good
        PROVE  x \in Good
    <2>1. SUFFICES ASSUME rank[x] < n PROVE F[x] = H[x]
      OBVIOUS
    <2>2. \A y \in D : rank[y] < rank[x] => F[y] = H[y]
      <3>1. \A y \in D : rank[y] \in Nat  OBVIOUS
      <3>2. QED  BY <1>1, <2>1, <3>1
    <2>3. F \in [D -> V] /\ H \in [D -> V]  BY DEF Solves
    <2>4. G[<<x, F>>] = G[<<x, H>>]  BY <2>2, <2>3 DEF Lower
    <2>5. F[x] = G[<<x, F>>] /\ H[x] = G[<<x, H>>]  BY <2>1 DEF Solves
    <2>6. QED  BY <2>4, <2>5
  <1>2. Good \in SUBSET D  OBVIOUS
  <1> HIDE DEF Good
  <1>3. Good = D  BY <1>1, <1>2, ByRank
  <1>4. QED  BY <1>3 DEF Good

LEMMA Recursion ==
    ASSUME NEW D, NEW V, NEW rank, NEW G, Recursive(D, V, G, rank)
    PROVE  \E F : Fixed(F, D, V, G)
  <1>0. /\ V # {} /\ rank \in [D -> Nat] /\ G \in [D \X [D -> V] -> V]
        /\ Lower(D, V, G, rank)
    BY DEF Recursive
  <1> USE <1>0
  <1> DEFINE Sol(F, n) == Solves(F, D, V, G, rank, n)
             None == {n \in Nat : ~ \E F : Sol(F, n)}
  <1>1. \A n \in Nat : \E F : Sol(F, n)
    <2>1. SUFFICES ASSUME None # {} PROVE FALSE
      OBVIOUS
    <2>2. PICK n \in None : \A m \in None : n <= m
      <3>1. None \in SUBSET Nat  OBVIOUS
      <3> HIDE DEF None
      <3>2. QED  BY <2>1, <3>1, LeastNumber
    <2>3. n # 0
      <3>1. SUFFICES ASSUME n = 0 PROVE FALSE
        OBVIOUS
      <3>2. PICK v \in V : TRUE  OBVIOUS
      <3> DEFINE F == [x \in D |-> v]
      <3>3. F \in [D -> V]  OBVIOUS
      <3>4. \A x \in D : ~(rank[x] < 0)  OBVIOUS
      <3>5. Sol(F, 0)  BY <3>3, <3>4 DEF Solves
      <3>6. QED  BY <3>1, <3>5
    <2> DEFINE b == n - 1
    <2>4. b \in Nat /\ n = b + 1 /\ b \notin None  BY <2>2, <2>3
    <2>5. PICK F : Sol(F, b)  BY <2>4
    <2>6. F \in [D -> V]  BY <2>5 DEF Solves
    <2> DEFINE H == [x \in D |-> IF rank[x] = b THEN G[<<x, F>>] ELSE F[x]]
    <2>7. H \in [D -> V]  BY <2>6
    <2>8. \A x \in D : rank[x] < b => H[x] = F[x]  BY <2>4
    <2>9. \A x \in D : rank[x] = b => H[x] = G[<<x, F>>]  OBVIOUS
    <2> HIDE DEF H
    <2>10. ASSUME NEW x \in D, rank[x] < n
           PROVE  H[x] = G[<<x, H>>]
      <3>1. rank[x] \in Nat  OBVIOUS
      <3>2. rank[x] = b \/ rank[x] < b  BY <2>4, <2>10, <3>1
      <3>3. \A y \in D : rank[y] < rank[x] => F[y] = H[y]
        <4>1. \A y \in D : rank[y] \in Nat  OBVIOUS
        <4>2. QED  BY <2>4, <2>8, <3>1, <3>2, <4>1
      <3>4. G[<<x, F>>] = G[<<x, H>>]  BY <2>6, <2>7, <3>3 DEF Lower
      <3>5. CASE rank[x] = b  BY <2>9, <3>4, <3>5
      <3>6. CASE rank[x] < b
        <4>1. H[x] = F[x]  BY <2>8, <3>6
        <4>2. F[x] = G[<<x, F>>]  BY <2>5, <3>6 DEF Solves
        <4>3. QED  BY <3>4, <4>1, <4>2
      <3>7. QED  BY <3>2, <3>5, <3>6
    <2>11. Sol(H, n)  BY <2>7, <2>10 DEF Solves
    <2>12. QED  BY <2>2, <2>11
  <1> DEFINE At(n) == CHOOSE F : Sol(F, n)
             F == [x \in D |-> At(rank[x] + 1)[x]]
  <1>2. \A n \in Nat : Sol(At(n), n)  BY <1>1
  <1> HIDE DEF At
  <1>3. \A x \in D : rank[x] + 1 \in Nat  OBVIOUS
  <1>4. F \in [D -> V]
    <2>1. ASSUME NEW x \in D PROVE F[x] \in V
      <3>1. At(rank[x] + 1) \in [D -> V]  BY <1>2, <1>3 DEF Solves
      <3>2. QED  BY <3>1
    <2>2. QED  BY <2>1
  <1>5. ASSUME NEW x \in D PROVE F[x] = G[<<x, F>>]
    <2> DEFINE n == rank[x] + 1
               H == At(n)
    <2>1. n \in Nat /\ rank[x] < n  OBVIOUS
    <2>2. Sol(H, n)  BY <1>2, <2>1
    <2>3. F[x] = H[x]  OBVIOUS
    <2> HIDE DEF H
    <2>4. H[x] = G[<<x, H>>]  BY <2>1, <2>2 DEF Solves
    <2>5. ASSUME NEW y \in D, rank[y] < rank[x] PROVE F[y] = H[y]
      <3> DEFINE m == rank[y] + 1
                 K == At(m)
      <3>1. m \in Nat /\ rank[y] < m /\ rank[y] \in Nat /\ rank[x] \in Nat  OBVIOUS
      <3>2. Sol(K, m)  BY <1>2, <3>1
      <3>3. F[y] = K[y]  OBVIOUS
      <3> HIDE DEF K
      <3>4. \A z \in D : rank[z] < m => rank[z] < n
        <4>1. \A z \in D : rank[z] \in Nat  OBVIOUS
        <4>2. QED  BY <2>5, <3>1, <4>1
      <3>5. Sol(H, m)  BY <2>2, <3>4 DEF Solves
      <3>6. H[y] = K[y]  BY <3>1, <3>2, <3>5, SolutionsAgree
      <3>7. QED  BY <3>3, <3>6
    <2>6. H \in [D -> V]  BY <2>2 DEF Solves
    <2> HIDE DEF F
    <2>7. G[<<x, F>>] = G[<<x, H>>]  BY <1>4, <2>5, <2>6 DEF Lower
    <2>8. QED  BY <2>3, <2>4, <2>7
  <1>6. QED  BY <1>4, <1>5 DEF Fixed

(* The function that is chosen is the one there is.                        *)
LEMMA FixpointTyped ==
    ASSUME NEW D, NEW V, NEW rank, NEW G, Recursive(D, V, G, rank), NEW N,
           \A x \in D : \A F \in [D -> V] :
             (\A y \in D : rank[y] < rank[x] => F[y] = N[y]) => N[x] = G[<<x, F>>]
    PROVE  \A x \in D : N[x] \in V
  <1>1. PICK F : Fixed(F, D, V, G)  BY Recursion
  <1>2. F \in [D -> V] /\ \A x \in D : F[x] = G[<<x, F>>]  BY <1>1 DEF Fixed
  <1> DEFINE Good == {x \in D : F[x] = N[x]}
  <1>3. ASSUME NEW x \in D, \A y \in D : rank[y] < rank[x] => y \in Good
        PROVE  x \in Good
    BY <1>2, <1>3
  <1>4. rank \in [D -> Nat] /\ Good \in SUBSET D  BY DEF Recursive
  <1> HIDE DEF Good
  <1>5. Good = D  BY <1>3, <1>4, ByRank
  <1>6. QED  BY <1>2, <1>5 DEF Good

-----------------------------------------------------------------------------
(* Sequences.                                                              *)
LEMMA Cons ==
    ASSUME NEW S, NEW e \in S, NEW s \in Seq(S)
    PROVE  /\ <<e>> \o s \in Seq(S) /\ <<e>> \o s # <<>>
           /\ Head(<<e>> \o s) = e /\ Tail(<<e>> \o s) = s
           /\ Len(<<e>> \o s) = Len(s) + 1
  <1> DEFINE t == <<e>> \o s
  <1>1. <<e>> \in Seq(S) /\ Len(<<e>>) = 1 /\ <<e>>[1] = e  OBVIOUS
  <1>2. t \in Seq(S) /\ Len(t) = Len(s) + 1  BY <1>1
  <1>3. t[1] = e /\ \A k \in 1..Len(s) : t[k + 1] = s[k]  BY <1>1
  <1>4. Head(t) = e  BY <1>2, <1>3
  <1>5. Tail(t) = s
    <2>1. Tail(t) \in Seq(S) /\ Len(Tail(t)) = Len(s)  BY <1>2
    <2>2. \A k \in 1..Len(s) : Tail(t)[k] = s[k]  BY <1>2, <1>3
    <2>3. QED  BY <2>1, <2>2, SeqEqual
  <1>6. t # <<>>  BY <1>2
  <1>7. QED  BY <1>2, <1>4, <1>5, <1>6

LEMMA Shorter ==
    ASSUME NEW S, NEW s \in Seq(S), s # <<>>
    PROVE  /\ Head(s) \in S /\ Tail(s) \in Seq(S) /\ Len(Tail(s)) < Len(s)
           /\ Len(Tail(s)) = Len(s) - 1 /\ s = <<Head(s)>> \o Tail(s)
  BY HeadTailProperties

LEMMA LowerFacts ==
    ASSUME NEW D, NEW V, NEW rank, NEW G,
           \A x \in D : \A F, H \in [D -> V] :
             (\A y \in D : rank[y] < rank[x] => F[y] = H[y]) => G[<<x, F>>] = G[<<x, H>>]
    PROVE  Lower(D, V, G, rank)
  BY DEF Lower

(* Each recursive function of LineDiff has the value its body gives it.    *)
(* The bodies:                                                             *)
NormalizedBy(F, s) ==
    IF s = <<>> THEN <<>>
    ELSE IF Head(s) # CR THEN <<Head(s)>> \o F[Tail(s)]
    ELSE IF Tail(s) # <<>> /\ Head(Tail(s)) = LF THEN F[Tail(s)]
    ELSE <<LF>> \o F[Tail(s)]

SplitBy(F, s) ==
    IF s = <<>> THEN << <<>> >>
    ELSE IF Head(s) = LF THEN << <<>> >> \o F[Tail(s)]
    ELSE << <<Head(s)>> \o Head(F[Tail(s)]) >> \o Tail(F[Tail(s)])

OfKindBy(kinds, F, s) ==
    IF s = <<>> THEN <<>>
    ELSE IF Head(s).kind \in kinds THEN <<Head(s)>> \o F[Tail(s)]
    ELSE F[Tail(s)]

KeptBy(x, y, F, at) ==
    LET m == at[1]
        n == at[2]
    IN IF m > Len(x) \/ n > Len(y) THEN 0
       ELSE IF x[m] = y[n] THEN F[<<m + 1, n + 1>>] + 1
       ELSE IF F[<<m + 1, n>>] >= F[<<m, n + 1>>] THEN F[<<m + 1, n>>]
       ELSE F[<<m, n + 1>>]

EditsBy(x, y, kept, F, at) ==
    LET m == at[1]
        n == at[2]
    IN IF m > Len(x) /\ n > Len(y) THEN <<>>
       ELSE IF m <= Len(x) /\ n <= Len(y) /\ x[m] = y[n]
            THEN <<Edit("same", x[m])>> \o F[<<m + 1, n + 1>>]
       ELSE IF m <= Len(x) /\ (n > Len(y) \/ kept[<<m + 1, n>>] >= kept[<<m, n + 1>>])
            THEN <<Edit("removed", x[m])>> \o F[<<m + 1, n>>]
       ELSE <<Edit("added", y[n])>> \o F[<<m, n + 1>>]

IsNormalized(F) == F = [s \in Seq(Characters) |-> NormalizedBy(F, s)]
IsSplit(F) == F = [s \in Seq(Characters) |-> SplitBy(F, s)]
IsOfKind(F, kinds) == F = [s \in Seq(AllEdits) |-> OfKindBy(kinds, F, s)]
IsKept(F, x, y) == F = [at \in Places(x, y) |-> KeptBy(x, y, F, at)]
IsEdits(F, x, y, kept) == F = [at \in Places(x, y) |-> EditsBy(x, y, kept, F, at)]

LEMMA NormalizedText ==
    ASSUME NEW t \in Seq(Characters)
    PROVE  Normalized(t) \in Seq(Characters)
  <1> DEFINE D == Seq(Characters)
             V == Seq(Characters)
             rank == [s \in D |-> Len(s)]
             G == [z \in D \X [D -> V] |-> NormalizedBy(z[2], z[1])]
  <1>1. rank \in [D -> Nat] /\ V # {}  OBVIOUS
  <1>2. ASSUME NEW F \in [D -> V], NEW s \in D PROVE NormalizedBy(F, s) \in V
    <2>1. CASE s = <<>>  BY <2>1 DEF NormalizedBy
    <2>2. CASE s # <<>>
      <3>1. Head(s) \in Characters /\ F[Tail(s)] \in V  BY <2>2, Shorter
      <3>2. LF \in Characters  BY LineDiffAssumption
      <3>3. <<Head(s)>> \o F[Tail(s)] \in V /\ <<LF>> \o F[Tail(s)] \in V
        BY <3>1, <3>2, Cons
      <3>4. QED  BY <2>2, <3>1, <3>3 DEF NormalizedBy
    <2>3. QED  BY <2>1, <2>2
  <1>3. G \in [D \X [D -> V] -> V]  BY <1>2
  <1>4. \A s \in D, F \in [D -> V] : G[<<s, F>>] = NormalizedBy(F, s)  OBVIOUS
  <1>5. ASSUME NEW s \in D, NEW F, NEW H, \A w \in D : rank[w] < rank[s] => F[w] = H[w]
        PROVE  NormalizedBy(F, s) = NormalizedBy(H, s)
    <2>1. s # <<>> => F[Tail(s)] = H[Tail(s)]  BY <1>5, Shorter
    <2>2. QED  BY <2>1 DEF NormalizedBy
  <1> HIDE DEF G, D, V, rank
  <1>6. Recursive(D, V, G, rank)
    <2>1. ASSUME NEW s \in D, NEW F \in [D -> V], NEW H \in [D -> V],
                 \A w \in D : rank[w] < rank[s] => F[w] = H[w]
          PROVE  G[<<s, F>>] = G[<<s, H>>]
      BY <1>4, <1>5, <2>1
    <2>2. Lower(D, V, G, rank)  BY <2>1, LowerFacts
    <2>3. QED  BY <1>1, <1>3, <2>2 DEF Recursive
  <1>7. PICK F : Fixed(F, D, V, G)  BY <1>6, Recursion
  <1>8. F \in [D -> V] /\ \A s \in D : F[s] = NormalizedBy(F, s)  BY <1>4, <1>7 DEF Fixed
  <1>9. IsNormalized(F)
    <2>1. F = [s \in D |-> NormalizedBy(F, s)]  BY <1>8
    <2>2. QED  BY <2>1 DEF IsNormalized, D
  <1> DEFINE N == CHOOSE H : IsNormalized(H)
  <1>10. Normalized(t) = N[t]  BY DEF Normalized, IsNormalized, NormalizedBy
  <1>11. IsNormalized(N)  BY <1>9, Zenon
  <1> HIDE DEF N
  <1>12. \A s \in D : N[s] = NormalizedBy(N, s)  BY <1>11 DEF IsNormalized, D
  <1>13. \A s \in D : N[s] \in V
    <2>1. ASSUME NEW s \in D, NEW F1 \in [D -> V],
                 \A w \in D : rank[w] < rank[s] => F1[w] = N[w]
          PROVE  N[s] = G[<<s, F1>>]
      BY <1>4, <1>5, <1>12, <2>1
    <2>2. QED  BY <1>6, <2>1, FixpointTyped
  <1>14. QED  BY <1>10, <1>13 DEF D, V

LEMMA SplitText ==
    ASSUME NEW t \in Seq(Characters)
    PROVE  Split(t) \in Seq(Line) \ {<<>>}
  <1> DEFINE D == Seq(Characters)
             V == Seq(Line) \ {<<>>}
             rank == [s \in D |-> Len(s)]
             G == [z \in D \X [D -> V] |-> SplitBy(z[2], z[1])]
  <1>1. rank \in [D -> Nat] /\ V # {}  
    <2>1. << <<>> >> \in V  BY DEF Line
    <2>2. V # {}  BY <2>1
    <2>3. rank \in [D -> Nat]  OBVIOUS
    <2>4. QED  BY <2>2, <2>3
  <1>2. ASSUME NEW F \in [D -> V], NEW s \in D PROVE SplitBy(F, s) \in V
    <2>1. <<>> \in Line /\ << <<>> >> \in V  BY DEF Line
    <2>2. CASE s = <<>>  BY <2>1, <2>2 DEF SplitBy
    <2>3. CASE s # <<>>
      <3> DEFINE rest == F[Tail(s)]
      <3>1. Head(s) \in Characters /\ rest \in V  BY <2>3, Shorter
      <3> HIDE DEF rest
      <3>2. Head(rest) \in Line /\ Tail(rest) \in Seq(Line)  BY <3>1, Shorter
      <3>3. <<Head(s)>> \o Head(rest) \in Line  BY <3>1, <3>2, Cons DEF Line
      <3>4. << <<Head(s)>> \o Head(rest) >> \o Tail(rest) \in V  BY <3>2, <3>3, Cons
      <3>5. << <<>> >> \o rest \in V  BY <2>1, <3>1, Cons
      <3>6. QED  BY <2>3, <3>4, <3>5 DEF SplitBy, rest
    <2>4. QED  BY <2>2, <2>3
  <1>3. G \in [D \X [D -> V] -> V]  BY <1>2
  <1>4. \A s \in D, F \in [D -> V] : G[<<s, F>>] = SplitBy(F, s)  OBVIOUS
  <1>5. ASSUME NEW s \in D, NEW F, NEW H, \A w \in D : rank[w] < rank[s] => F[w] = H[w]
        PROVE  SplitBy(F, s) = SplitBy(H, s)
    <2>1. s # <<>> => F[Tail(s)] = H[Tail(s)]  BY <1>5, Shorter
    <2>2. QED  BY <2>1 DEF SplitBy
  <1> HIDE DEF G, D, V, rank
  <1>6. Recursive(D, V, G, rank)
    <2>1. ASSUME NEW s \in D, NEW F \in [D -> V], NEW H \in [D -> V],
                 \A w \in D : rank[w] < rank[s] => F[w] = H[w]
          PROVE  G[<<s, F>>] = G[<<s, H>>]
      BY <1>4, <1>5, <2>1
    <2>2. Lower(D, V, G, rank)  BY <2>1, LowerFacts
    <2>3. QED  BY <1>1, <1>3, <2>2 DEF Recursive
  <1>7. PICK F : Fixed(F, D, V, G)  BY <1>6, Recursion
  <1>8. F \in [D -> V] /\ \A s \in D : F[s] = SplitBy(F, s)  BY <1>4, <1>7 DEF Fixed
  <1>9. IsSplit(F)
    <2>1. F = [s \in D |-> SplitBy(F, s)]  BY <1>8
    <2>2. QED  BY <2>1 DEF IsSplit, D
  <1> DEFINE N == CHOOSE H : IsSplit(H)
  <1>10. Split(t) = N[t]  BY DEF Split, IsSplit, SplitBy
  <1>11. IsSplit(N)  BY <1>9, Zenon
  <1> HIDE DEF N
  <1>12. \A s \in D : N[s] = SplitBy(N, s)  BY <1>11 DEF IsSplit, D
  <1>13. \A s \in D : N[s] \in V
    <2>1. ASSUME NEW s \in D, NEW F1 \in [D -> V],
                 \A w \in D : rank[w] < rank[s] => F1[w] = N[w]
          PROVE  N[s] = G[<<s, F1>>]
      BY <1>4, <1>5, <1>12, <2>1
    <2>2. QED  BY <1>6, <2>1, FixpointTyped
  <1>14. QED  BY <1>10, <1>13 DEF D, V

LEMMA OfKindFacts ==
    ASSUME NEW kinds
    PROVE  /\ OfKind(<<>>, kinds) = <<>>
           /\ \A s \in Seq(AllEdits) : OfKind(s, kinds) \in Seq(AllEdits)
           /\ \A e \in AllEdits, s \in Seq(AllEdits) :
                OfKind(<<e>> \o s, kinds) = IF e.kind \in kinds THEN <<e>> \o OfKind(s, kinds)
                                            ELSE OfKind(s, kinds)
  <1> DEFINE D == Seq(AllEdits)
             V == Seq(AllEdits)
             rank == [s \in D |-> Len(s)]
             G == [z \in D \X [D -> V] |-> OfKindBy(kinds, z[2], z[1])]
  <1>1. rank \in [D -> Nat] /\ V # {}
    <2>1. <<>> \in V  OBVIOUS
    <2>2. V # {}  BY <2>1
    <2>3. rank \in [D -> Nat]  OBVIOUS
    <2>4. QED  BY <2>2, <2>3
  <1>2. ASSUME NEW F \in [D -> V], NEW s \in D PROVE OfKindBy(kinds, F, s) \in V
    <2>1. CASE s = <<>>  BY <2>1 DEF OfKindBy
    <2>2. CASE s # <<>>
      <3>1. Head(s) \in AllEdits /\ F[Tail(s)] \in V  BY <2>2, Shorter
      <3>2. <<Head(s)>> \o F[Tail(s)] \in V  BY <3>1, Cons
      <3>3. QED  BY <2>2, <3>1, <3>2 DEF OfKindBy
    <2>3. QED  BY <2>1, <2>2
  <1>3. G \in [D \X [D -> V] -> V]  BY <1>2
  <1>4. \A s \in D, F \in [D -> V] : G[<<s, F>>] = OfKindBy(kinds, F, s)  OBVIOUS
  <1>5. ASSUME NEW s \in D, NEW F, NEW H, \A w \in D : rank[w] < rank[s] => F[w] = H[w]
        PROVE  OfKindBy(kinds, F, s) = OfKindBy(kinds, H, s)
    <2>1. s # <<>> => F[Tail(s)] = H[Tail(s)]  BY <1>5, Shorter
    <2>2. QED  BY <2>1 DEF OfKindBy
  <1> HIDE DEF G, D, V, rank
  <1>6. Recursive(D, V, G, rank)
    <2>1. ASSUME NEW s \in D, NEW F \in [D -> V], NEW H \in [D -> V],
                 \A w \in D : rank[w] < rank[s] => F[w] = H[w]
          PROVE  G[<<s, F>>] = G[<<s, H>>]
      BY <1>4, <1>5, <2>1
    <2>2. Lower(D, V, G, rank)  BY <2>1, LowerFacts
    <2>3. QED  BY <1>1, <1>3, <2>2 DEF Recursive
  <1>7. PICK F : Fixed(F, D, V, G)  BY <1>6, Recursion
  <1>8. F \in [D -> V] /\ \A s \in D : F[s] = OfKindBy(kinds, F, s)  BY <1>4, <1>7 DEF Fixed
  <1>9. IsOfKind(F, kinds)
    <2>1. F = [s \in D |-> OfKindBy(kinds, F, s)]  BY <1>8
    <2>2. QED  BY <2>1 DEF IsOfKind, D
  <1> DEFINE N == CHOOSE H : IsOfKind(H, kinds)
  <1>10. \A s : OfKind(s, kinds) = N[s]  BY DEF OfKind, IsOfKind, OfKindBy
  <1>11. IsOfKind(N, kinds)  BY <1>9, Zenon
  <1> HIDE DEF N
  <1>12. \A s \in D : N[s] = OfKindBy(kinds, N, s)  BY <1>11 DEF IsOfKind, D
  <1>13. \A s \in D : N[s] \in V
    <2>1. ASSUME NEW s \in D, NEW F1 \in [D -> V],
                 \A w \in D : rank[w] < rank[s] => F1[w] = N[w]
          PROVE  N[s] = G[<<s, F1>>]
      BY <1>4, <1>5, <1>12, <2>1
    <2>2. QED  BY <1>6, <2>1, FixpointTyped
  <1>14. OfKind(<<>>, kinds) = <<>>
    <2>1. <<>> \in D  BY DEF D
    <2>2. N[<<>>] = OfKindBy(kinds, N, <<>>)  BY <1>12, <2>1
    <2>3. OfKindBy(kinds, N, <<>>) = <<>>  BY DEF OfKindBy
    <2>4. QED  BY <1>10, <2>2, <2>3
  <1>15. ASSUME NEW e \in AllEdits, NEW s \in Seq(AllEdits)
         PROVE  OfKind(<<e>> \o s, kinds) = IF e.kind \in kinds THEN <<e>> \o OfKind(s, kinds)
                                            ELSE OfKind(s, kinds)
    <2> DEFINE t == <<e>> \o s
    <2>1. t \in D /\ t # <<>> /\ Head(t) = e /\ Tail(t) = s  BY Cons DEF D
    <2> HIDE DEF t
    <2>2. N[t] = IF e.kind \in kinds THEN <<e>> \o N[s] ELSE N[s]
      BY <1>12, <2>1 DEF OfKindBy
    <2>3. QED  BY <1>10, <2>2 DEF t
  <1>16. \A s \in Seq(AllEdits) : OfKind(s, kinds) \in Seq(AllEdits)  BY <1>10, <1>13 DEF D, V
  <1>17. QED  BY <1>14, <1>15, <1>16

(* A place: whether lines of the one and of the other text are left there, *)
(* which come next, and the places that follow it.                         *)
OldLeft(x, at) == at[1] <= Len(x)
NewLeft(y, at) == at[2] <= Len(y)
Old(x, at) == x[at[1]]
New(y, at) == y[at[2]]
SameNext(x, y, at) == OldLeft(x, at) /\ NewLeft(y, at) /\ Old(x, at) = New(y, at)
Down(at) == <<at[1] + 1, at[2]>>
Over(at) == <<at[1], at[2] + 1>>
Both(at) == <<at[1] + 1, at[2] + 1>>
Better(kept, at) == kept[Down(at)] >= kept[Over(at)]
ToGo(x, y) == [at \in Places(x, y) |-> (Len(x) + 1 - at[1]) + (Len(y) + 1 - at[2])]

LEMMA PlaceFacts ==
    ASSUME NEW x, NEW y, Len(x) \in Nat, Len(y) \in Nat, NEW at \in Places(x, y)
    PROVE  /\ at[1] \in Nat /\ 1 <= at[1] /\ at[1] <= Len(x) + 1
           /\ at[2] \in Nat /\ 1 <= at[2] /\ at[2] <= Len(y) + 1
           /\ at = <<at[1], at[2]>>
           /\ OldLeft(x, at) => at[1] \in 1..Len(x) /\ Down(at) \in Places(x, y)
           /\ NewLeft(y, at) => at[2] \in 1..Len(y) /\ Over(at) \in Places(x, y)
           /\ OldLeft(x, at) /\ NewLeft(y, at) => Both(at) \in Places(x, y)
  <1>1. at \in (1..Len(x) + 1) \X (1..Len(y) + 1)  BY DEF Places
  <1>2. at[1] \in 1..Len(x) + 1 /\ at[2] \in 1..Len(y) + 1 /\ at = <<at[1], at[2]>>
    BY <1>1
  <1>3. at[1] <= Len(x) => at[1] + 1 \in 1..Len(x) + 1 /\ at[1] \in 1..Len(x)  BY <1>2
  <1>4. at[2] <= Len(y) => at[2] + 1 \in 1..Len(y) + 1 /\ at[2] \in 1..Len(y)  BY <1>2
  <1>5. QED  BY <1>2, <1>3, <1>4 DEF Places, OldLeft, NewLeft, Down, Over, Both

LEMMA ToGoFacts ==
    ASSUME NEW x, NEW y, Len(x) \in Nat, Len(y) \in Nat
    PROVE  /\ ToGo(x, y) \in [Places(x, y) -> Nat]
           /\ \A at \in Places(x, y) :
                /\ OldLeft(x, at) => ToGo(x, y)[Down(at)] < ToGo(x, y)[at]
                /\ NewLeft(y, at) => ToGo(x, y)[Over(at)] < ToGo(x, y)[at]
                /\ OldLeft(x, at) /\ NewLeft(y, at) => ToGo(x, y)[Both(at)] < ToGo(x, y)[at]
  <1> DEFINE a == Len(x)
             b == Len(y)
  <1>1. \A m, n : <<m, n>> \in Places(x, y) => ToGo(x, y)[<<m, n>>] = (a + 1 - m) + (b + 1 - n)
    BY DEF ToGo
  <1>2. a \in Nat /\ b \in Nat  OBVIOUS
  <1> HIDE DEF a, b
  <1>3. ASSUME NEW at \in Places(x, y)
        PROVE  /\ ToGo(x, y)[at] \in Nat
               /\ OldLeft(x, at) => ToGo(x, y)[Down(at)] < ToGo(x, y)[at]
               /\ NewLeft(y, at) => ToGo(x, y)[Over(at)] < ToGo(x, y)[at]
               /\ OldLeft(x, at) /\ NewLeft(y, at) => ToGo(x, y)[Both(at)] < ToGo(x, y)[at]
    <2> DEFINE m == at[1]
               n == at[2]
    <2>1. /\ m \in Nat /\ m <= a + 1 /\ n \in Nat /\ n <= b + 1
          /\ at = <<m, n>>
          /\ OldLeft(x, at) => <<m + 1, n>> \in Places(x, y)
          /\ NewLeft(y, at) => <<m, n + 1>> \in Places(x, y)
          /\ OldLeft(x, at) /\ NewLeft(y, at) => <<m + 1, n + 1>> \in Places(x, y)
      BY PlaceFacts DEF a, b, Down, Over, Both
    <2> HIDE DEF m, n
    <2>2. ToGo(x, y)[at] = (a + 1 - m) + (b + 1 - n)  BY <1>1, <2>1
    <2>3. OldLeft(x, at) => ToGo(x, y)[<<m + 1, n>>] = (a + 1 - (m + 1)) + (b + 1 - n)
      BY <1>1, <2>1
    <2>4. NewLeft(y, at) => ToGo(x, y)[<<m, n + 1>>] = (a + 1 - m) + (b + 1 - (n + 1))
      BY <1>1, <2>1
    <2>5. OldLeft(x, at) /\ NewLeft(y, at) =>
            ToGo(x, y)[<<m + 1, n + 1>>] = (a + 1 - (m + 1)) + (b + 1 - (n + 1))
      BY <1>1, <2>1
    <2>6. ToGo(x, y)[at] \in Nat  BY <1>2, <2>1, <2>2
    <2>7. OldLeft(x, at) => ToGo(x, y)[<<m + 1, n>>] < ToGo(x, y)[at]
      BY <1>2, <2>1, <2>2, <2>3
    <2>8. NewLeft(y, at) => ToGo(x, y)[<<m, n + 1>>] < ToGo(x, y)[at]
      BY <1>2, <2>1, <2>2, <2>4
    <2>9. OldLeft(x, at) /\ NewLeft(y, at) => ToGo(x, y)[<<m + 1, n + 1>>] < ToGo(x, y)[at]
      BY <1>2, <2>1, <2>2, <2>5
    <2>10. QED  BY <2>6, <2>7, <2>8, <2>9 DEF m, n, Down, Over, Both
  <1>4. ToGo(x, y) \in [Places(x, y) -> Nat]  BY <1>3 DEF ToGo
  <1>5. QED  BY <1>3, <1>4 DEF a, b

(* What is kept and what is edited from a place on, by what is from the    *)
(* places after it.                                                        *)
KeptStep(x, y, F, at) ==
    IF ~ OldLeft(x, at) \/ ~ NewLeft(y, at) THEN 0
    ELSE IF SameNext(x, y, at) THEN F[Both(at)] + 1
    ELSE IF Better(F, at) THEN F[Down(at)]
    ELSE F[Over(at)]

Then(e, s) == <<e>> \o s

EditStep(x, y, kept, F, at) ==
    IF ~ OldLeft(x, at) /\ ~ NewLeft(y, at) THEN <<>>
    ELSE IF SameNext(x, y, at) THEN Then(Edit("same", Old(x, at)), F[Both(at)])
    ELSE IF OldLeft(x, at) /\ (~ NewLeft(y, at) \/ Better(kept, at))
         THEN Then(Edit("removed", Old(x, at)), F[Down(at)])
    ELSE Then(Edit("added", New(y, at)), F[Over(at)])

LEMMA Steps ==
    ASSUME NEW x, NEW y, Len(x) \in Nat, Len(y) \in Nat, NEW at \in Places(x, y),
           NEW kept, NEW F
    PROVE  /\ KeptBy(x, y, F, at) = KeptStep(x, y, F, at)
           /\ EditsBy(x, y, kept, F, at) = EditStep(x, y, kept, F, at)
  <1>1. at[1] \in Nat /\ at[2] \in Nat  BY PlaceFacts
  <1>2. at[1] > Len(x) <=> ~ OldLeft(x, at)  BY <1>1 DEF OldLeft
  <1>3. at[2] > Len(y) <=> ~ NewLeft(y, at)  BY <1>1 DEF NewLeft
  <1>4. at[1] <= Len(x) <=> OldLeft(x, at)  BY DEF OldLeft
  <1>5. at[2] <= Len(y) <=> NewLeft(y, at)  BY DEF NewLeft
  <1>6. x[at[1]] = y[at[2]] <=> Old(x, at) = New(y, at)  BY DEF Old, New
  <1>7. KeptBy(x, y, F, at) = KeptStep(x, y, F, at)
    BY <1>2, <1>3, <1>4, <1>5, <1>6, Zenon DEF KeptBy, KeptStep, SameNext, Better, Down, Over, Both
  <1>8. EditsBy(x, y, kept, F, at) = EditStep(x, y, kept, F, at)
    BY <1>2, <1>3, <1>4, <1>5, <1>6, Zenon
    DEF EditsBy, EditStep, Then, SameNext, Better, Old, New, Down, Over, Both
  <1>9. QED  BY <1>7, <1>8

LEMMA KeptFacts ==
    ASSUME NEW S, NEW x \in Seq(S), NEW y \in Seq(S)
    PROVE  \A at \in Places(x, y) : /\ Kept(x, y)[at] \in Nat
                                    /\ Kept(x, y)[at] = KeptStep(x, y, Kept(x, y), at)
  <1> DEFINE D == Places(x, y)
             V == Nat
             rank == ToGo(x, y)
             G == [z \in D \X [D -> V] |-> KeptStep(x, y, z[2], z[1])]
  <1>0. Len(x) \in Nat /\ Len(y) \in Nat  OBVIOUS
  <1>1. rank \in [D -> Nat] /\ V # {}  BY <1>0, ToGoFacts
  <1>2. ASSUME NEW F \in [D -> V], NEW at \in D PROVE KeptStep(x, y, F, at) \in V
    <2>1. /\ OldLeft(x, at) => Down(at) \in D
          /\ NewLeft(y, at) => Over(at) \in D
          /\ OldLeft(x, at) /\ NewLeft(y, at) => Both(at) \in D
      BY <1>0, PlaceFacts
    <2> HIDE DEF D
    <2>2. QED  BY <2>1 DEF KeptStep, SameNext
  <1>3. G \in [D \X [D -> V] -> V]  BY <1>2
  <1>4. \A at \in D, F \in [D -> V] : G[<<at, F>>] = KeptStep(x, y, F, at)  OBVIOUS
  <1>5. ASSUME NEW at \in D, NEW F, NEW H, \A w \in D : rank[w] < rank[at] => F[w] = H[w]
        PROVE  KeptStep(x, y, F, at) = KeptStep(x, y, H, at)
    <2>1. /\ OldLeft(x, at) => F[Down(at)] = H[Down(at)]
          /\ NewLeft(y, at) => F[Over(at)] = H[Over(at)]
          /\ OldLeft(x, at) /\ NewLeft(y, at) => F[Both(at)] = H[Both(at)]
      BY <1>0, <1>5, PlaceFacts, ToGoFacts
    <2>2. QED  BY <2>1 DEF KeptStep, SameNext, Better
  <1> HIDE DEF G, D, V, rank
  <1>6. Recursive(D, V, G, rank)
    <2>1. ASSUME NEW at \in D, NEW F \in [D -> V], NEW H \in [D -> V],
                 \A w \in D : rank[w] < rank[at] => F[w] = H[w]
          PROVE  G[<<at, F>>] = G[<<at, H>>]
      BY <1>4, <1>5, <2>1
    <2>2. Lower(D, V, G, rank)  BY <2>1, LowerFacts
    <2>3. QED  BY <1>1, <1>3, <2>2 DEF Recursive
  <1>7. PICK F : Fixed(F, D, V, G)  BY <1>6, Recursion
  <1>8. F \in [D -> V] /\ \A at \in D : F[at] = KeptStep(x, y, F, at)  BY <1>4, <1>7 DEF Fixed
  <1>9. \A H : \A at \in D : KeptBy(x, y, H, at) = KeptStep(x, y, H, at)  BY <1>0, Steps DEF D
  <1>10. IsKept(F, x, y)
    <2>1. \A at \in D : F[at] = KeptBy(x, y, F, at)
      <3>1. \A at \in D : KeptBy(x, y, F, at) = KeptStep(x, y, F, at)  BY <1>9
      <3>2. QED  BY <1>8, <3>1
    <2>2. F = [at \in D |-> KeptBy(x, y, F, at)]  BY <1>8, <2>1
    <2>3. QED  BY <2>2 DEF IsKept, D
  <1> DEFINE N == CHOOSE H : IsKept(H, x, y)
  <1>11. Kept(x, y) = N  BY DEF Kept, IsKept, KeptBy
  <1>12. IsKept(N, x, y)  BY <1>10, Zenon
  <1> HIDE DEF N
  <1>13. \A at \in D : N[at] = KeptStep(x, y, N, at)
    <2>1. \A at \in D : N[at] = KeptBy(x, y, N, at)  BY <1>12 DEF IsKept, D
    <2>2. \A at \in D : KeptBy(x, y, N, at) = KeptStep(x, y, N, at)  BY <1>9
    <2>3. QED  BY <2>1, <2>2
  <1>14. \A at \in D : N[at] \in V
    <2>1. ASSUME NEW at \in D, NEW F1 \in [D -> V],
                 \A w \in D : rank[w] < rank[at] => F1[w] = N[w]
          PROVE  N[at] = G[<<at, F1>>]
      BY <1>4, <1>5, <1>13, <2>1
    <2>2. QED  BY <1>6, <2>1, FixpointTyped
  <1>15. QED  BY <1>11, <1>13, <1>14 DEF D, V

LEMMA EditsFacts ==
    ASSUME NEW x \in Seq(Line), NEW y \in Seq(Line)
    PROVE  \E N : /\ Edits(x, y) = N[<<1, 1>>]
                  /\ \A at \in Places(x, y) : /\ N[at] \in Seq(AllEdits)
                                              /\ N[at] = EditStep(x, y, Kept(x, y), N, at)
  <1> DEFINE kept == Kept(x, y)
  <1> HIDE DEF kept
  <1> DEFINE D == Places(x, y)
             V == Seq(AllEdits)
             rank == ToGo(x, y)
             G == [z \in D \X [D -> V] |-> EditStep(x, y, kept, z[2], z[1])]
  <1>0. Len(x) \in Nat /\ Len(y) \in Nat  OBVIOUS
  <1>1. rank \in [D -> Nat] /\ V # {}
    <2>1. <<>> \in V  OBVIOUS
    <2>2. V # {}  BY <2>1
    <2>3. rank \in [D -> Nat]  BY <1>0, ToGoFacts
    <2>4. QED  BY <2>2, <2>3
  <1>2. ASSUME NEW F \in [D -> V], NEW at \in D PROVE EditStep(x, y, kept, F, at) \in V
    <2>1. /\ OldLeft(x, at) => Down(at) \in D /\ Old(x, at) \in Line
          /\ NewLeft(y, at) => Over(at) \in D /\ New(y, at) \in Line
          /\ OldLeft(x, at) /\ NewLeft(y, at) => Both(at) \in D
      BY <1>0, PlaceFacts DEF Old, New
    <2>2. \A l \in Line, k \in {"same", "removed", "added"} : Edit(k, l) \in AllEdits
      BY DEF Edit, AllEdits
    <2> HIDE DEF D
    <2>3. ASSUME NEW e \in AllEdits, NEW p \in D PROVE Then(e, F[p]) \in V  BY Cons DEF Then
    <2>4. <<>> \in V  OBVIOUS
    <2> HIDE DEF V
    <2>5. OldLeft(x, at) /\ NewLeft(y, at) => Then(Edit("same", Old(x, at)), F[Both(at)]) \in V
      BY <2>1, <2>2, <2>3
    <2>6. OldLeft(x, at) => Then(Edit("removed", Old(x, at)), F[Down(at)]) \in V
      BY <2>1, <2>2, <2>3
    <2>7. NewLeft(y, at) => Then(Edit("added", New(y, at)), F[Over(at)]) \in V
      BY <2>1, <2>2, <2>3
    <2>8. QED  BY <2>4, <2>5, <2>6, <2>7 DEF EditStep, SameNext
  <1>3. G \in [D \X [D -> V] -> V]  BY <1>2
  <1>4. \A at \in D, F \in [D -> V] : G[<<at, F>>] = EditStep(x, y, kept, F, at)  OBVIOUS
  <1>5. ASSUME NEW at \in D, NEW F, NEW H, \A w \in D : rank[w] < rank[at] => F[w] = H[w]
        PROVE  EditStep(x, y, kept, F, at) = EditStep(x, y, kept, H, at)
    <2>1. /\ OldLeft(x, at) => F[Down(at)] = H[Down(at)]
          /\ NewLeft(y, at) => F[Over(at)] = H[Over(at)]
          /\ OldLeft(x, at) /\ NewLeft(y, at) => F[Both(at)] = H[Both(at)]
      BY <1>0, <1>5, PlaceFacts, ToGoFacts
    <2>2. QED  BY <2>1 DEF EditStep, SameNext
  <1> HIDE DEF G, D, V, rank
  <1>6. Recursive(D, V, G, rank)
    <2>1. ASSUME NEW at \in D, NEW F \in [D -> V], NEW H \in [D -> V],
                 \A w \in D : rank[w] < rank[at] => F[w] = H[w]
          PROVE  G[<<at, F>>] = G[<<at, H>>]
      BY <1>4, <1>5, <2>1
    <2>2. Lower(D, V, G, rank)  BY <2>1, LowerFacts
    <2>3. QED  BY <1>1, <1>3, <2>2 DEF Recursive
  <1>7. PICK F : Fixed(F, D, V, G)  BY <1>6, Recursion
  <1>8. F \in [D -> V] /\ \A at \in D : F[at] = EditStep(x, y, kept, F, at)
    BY <1>4, <1>7 DEF Fixed
  <1>9. \A H : \A at \in D : EditsBy(x, y, kept, H, at) = EditStep(x, y, kept, H, at)
    BY <1>0, Steps DEF D
  <1>10. IsEdits(F, x, y, kept)
    <2>1. \A at \in D : F[at] = EditsBy(x, y, kept, F, at)
      <3>1. \A at \in D : EditsBy(x, y, kept, F, at) = EditStep(x, y, kept, F, at)  BY <1>9
      <3>2. QED  BY <1>8, <3>1
    <2>2. F = [at \in D |-> EditsBy(x, y, kept, F, at)]  BY <1>8, <2>1
    <2>3. QED  BY <2>2 DEF IsEdits, D
  <1> DEFINE N == CHOOSE H : IsEdits(H, x, y, kept)
  <1>11. Edits(x, y) = N[<<1, 1>>]  BY DEF Edits, IsEdits, EditsBy, kept
  <1>12. IsEdits(N, x, y, kept)  BY <1>10, Zenon
  <1> HIDE DEF N
  <1>13. \A at \in D : N[at] = EditStep(x, y, kept, N, at)
    <2>1. \A at \in D : N[at] = EditsBy(x, y, kept, N, at)  BY <1>12 DEF IsEdits, D
    <2>2. \A at \in D : EditsBy(x, y, kept, N, at) = EditStep(x, y, kept, N, at)  BY <1>9
    <2>3. QED  BY <2>1, <2>2
  <1>14. \A at \in D : N[at] \in V
    <2>1. ASSUME NEW at \in D, NEW F1 \in [D -> V],
                 \A w \in D : rank[w] < rank[at] => F1[w] = N[w]
          PROVE  N[at] = G[<<at, F1>>]
      BY <1>4, <1>5, <1>13, <2>1
    <2>2. QED  BY <1>6, <2>1, FixpointTyped
  <1>15. QED  BY <1>11, <1>13, <1>14 DEF D, V, kept

LEMMA LinesText ==
    ASSUME NEW t \in Seq(Characters)
    PROVE  SplitLines(t) \in Seq(Line)
  <1> DEFINE lines == Split(Normalized(t))
  <1>1. lines \in Seq(Line) \ {<<>>}  BY NormalizedText, SplitText
  <1>2. SplitLines(t) = IF lines[Len(lines)] = <<>> THEN SubSeq(lines, 1, Len(lines) - 1) ELSE lines
    BY DEF SplitLines
  <1> HIDE DEF lines
  <1>3. SubSeq(lines, 1, Len(lines) - 1) \in Seq(Line)
    <2>1. Len(lines) \in Nat /\ Len(lines) # 0  BY <1>1
    <2>2. \A k \in 1..Len(lines) - 1 : lines[k] \in Line  BY <1>1, <2>1
    <2>3. QED  BY <1>1, <2>1, <2>2, SubSeqProperties
  <1>4. QED  BY <1>1, <1>2, <1>3

(* The lines of some edits follow from the first edit and the rest.        *)
LEMMA LinesFacts ==
    ASSUME NEW kinds
    PROVE  /\ LinesOf(<<>>, kinds) = <<>>
           /\ \A s \in Seq(AllEdits) : /\ LinesOf(s, kinds) \in Seq(Line)
                                       /\ Len(LinesOf(s, kinds)) = Len(OfKind(s, kinds))
           /\ \A e \in AllEdits, s \in Seq(AllEdits) :
                LinesOf(Then(e, s), kinds) = IF e.kind \in kinds
                                             THEN <<e.line>> \o LinesOf(s, kinds)
                                             ELSE LinesOf(s, kinds)
  <1>1. LinesOf(<<>>, kinds) = <<>>
    <2>1. OfKind(<<>>, kinds) = <<>>  BY OfKindFacts
    <2>2. LinesOf(<<>>, kinds) = [k \in 1..Len(<<>>) |-> (<<>>)[k].line]
      BY <2>1 DEF LinesOf
    <2> DEFINE f == [k \in 1..Len(<<>>) |-> (<<>>)[k].line]
    <2>3. f = <<>>
      <3>1. f \in Seq(Line) /\ Len(f) = 0  BY IsASeq
      <3>2. QED  BY <3>1, EmptySeq
    <2>4. QED  BY <2>2, <2>3
  <1>2. ASSUME NEW s \in Seq(AllEdits)
        PROVE  /\ LinesOf(s, kinds) \in Seq(Line)
               /\ Len(LinesOf(s, kinds)) = Len(OfKind(s, kinds))
    <2> DEFINE those == OfKind(s, kinds)
    <2>1. those \in Seq(AllEdits)  BY OfKindFacts
    <2>2. LinesOf(s, kinds) = [k \in 1..Len(those) |-> those[k].line]  BY DEF LinesOf
    <2> HIDE DEF those
    <2>3. Len(those) \in Nat  BY <2>1
    <2>4. ASSUME NEW k \in 1..Len(those) PROVE those[k].line \in Line
      <3>1. those[k] \in AllEdits  BY <2>1
      <3>2. QED  BY <3>1 DEF AllEdits
    <2>5. QED  BY <2>2, <2>3, <2>4, IsASeq DEF those
  <1>3. ASSUME NEW e \in AllEdits, NEW s \in Seq(AllEdits)
        PROVE  LinesOf(Then(e, s), kinds) = IF e.kind \in kinds
                                            THEN <<e.line>> \o LinesOf(s, kinds)
                                            ELSE LinesOf(s, kinds)
    <2> DEFINE those == OfKind(s, kinds)
               all == OfKind(Then(e, s), kinds)
    <2>1. /\ those \in Seq(AllEdits)
          /\ all = IF e.kind \in kinds THEN <<e>> \o those ELSE those
      BY OfKindFacts DEF Then
    <2>2. LinesOf(s, kinds) = [k \in 1..Len(those) |-> those[k].line]  BY DEF LinesOf
    <2>3. LinesOf(Then(e, s), kinds) = [k \in 1..Len(all) |-> all[k].line]  BY DEF LinesOf
    <2> HIDE DEF those, all
    <2>4. CASE e.kind \notin kinds  BY <2>1, <2>2, <2>3, <2>4
    <2>5. CASE e.kind \in kinds
      <3> DEFINE rest == LinesOf(s, kinds)
                 whole == LinesOf(Then(e, s), kinds)
      <3>1. rest \in Seq(Line) /\ Len(rest) = Len(those)  BY <1>2 DEF those
      <3>2. e.line \in Line  BY DEF AllEdits
      <3>3. all = <<e>> \o those /\ Len(all) = Len(those) + 1 /\ all \in Seq(AllEdits)
        BY <2>1, <2>5, Cons
      <3>4. all[1] = e /\ \A k \in 1..Len(those) : all[k + 1] = those[k]
        BY <2>1, <3>3
      <3> HIDE DEF rest, whole
      <3>5. <<e.line>> \o rest \in Seq(Line) /\ Len(<<e.line>> \o rest) = Len(those) + 1
        BY <3>1, <3>2, Cons
      <3>6. whole \in Seq(Line) /\ Len(whole) = Len(those) + 1
        <4>1. Len(all) \in Nat  BY <3>3
        <4>2. ASSUME NEW k \in 1..Len(all) PROVE all[k].line \in Line
          <5>1. all[k] \in AllEdits  BY <3>3
          <5>2. QED  BY <5>1 DEF AllEdits
        <4>3. QED  BY <2>3, <3>3, <4>1, <4>2, IsASeq DEF whole
      <3>7. ASSUME NEW k \in 1..Len(those) + 1 PROVE whole[k] = (<<e.line>> \o rest)[k]
        <4>1. Len(those) \in Nat  BY <2>1
        <4>2. whole[k] = all[k].line  BY <2>3, <3>3, <3>7 DEF whole
        <4>3. CASE k = 1
          <5>1. (<<e.line>> \o rest)[1] = e.line  BY <3>1, <3>2
          <5>2. QED  BY <3>4, <4>2, <4>3, <5>1
        <4>4. CASE k # 1
          <5> DEFINE j == k - 1
          <5>1. j \in 1..Len(those) /\ k = j + 1  BY <4>1, <4>4
          <5>2. all[k] = those[j]  BY <3>4, <5>1
          <5>3. rest[j] = those[j].line  BY <2>2, <5>1 DEF rest
          <5>4. (<<e.line>> \o rest)[k] = rest[j]  BY <3>1, <3>2, <5>1
          <5>5. QED  BY <4>2, <5>2, <5>3, <5>4
        <4>5. QED  BY <4>3, <4>4
      <3>8. whole = <<e.line>> \o rest  BY <3>5, <3>6, <3>7, SeqEqual
      <3>9. QED  BY <2>5, <3>8 DEF rest, whole
    <2>6. QED  BY <2>4, <2>5
  <1>4. QED  BY <1>1, <1>2, <1>3

(* The lines of a text from one on.                                        *)
From(x, m) == SubSeq(x, m, Len(x))

LEMMA FromFacts ==
    ASSUME NEW S, NEW x \in Seq(S)
    PROVE  /\ From(x, 1) = x /\ From(x, Len(x) + 1) = <<>>
           /\ \A m \in 1..Len(x) + 1 : From(x, m) \in Seq(S)
           /\ \A m \in 1..Len(x) : From(x, m) = <<x[m]>> \o From(x, m + 1)
  <1>1. Len(x) \in Nat  OBVIOUS
  <1>2. ASSUME NEW m \in 1..Len(x) + 1
        PROVE  /\ From(x, m) \in Seq(S) /\ Len(From(x, m)) = Len(x) - m + 1
               /\ \A k \in 1..Len(x) - m + 1 : From(x, m)[k] = x[m + k - 1]
    <2>1. \A k \in m..Len(x) : x[k] \in S  BY <1>1
    <2>2. QED  BY <1>1, <2>1, SubSeqProperties DEF From
  <1>3. From(x, 1) = x
    <2>1. /\ From(x, 1) \in Seq(S) /\ Len(From(x, 1)) = Len(x)
          /\ \A k \in 1..Len(x) : From(x, 1)[k] = x[k]
      BY <1>1, <1>2
    <2>2. QED  BY <2>1, SeqEqual
  <1>4. From(x, Len(x) + 1) = <<>>
    <2>1. From(x, Len(x) + 1) \in Seq(S) /\ Len(From(x, Len(x) + 1)) = 0  BY <1>1, <1>2
    <2>2. QED  BY <2>1, EmptySeq
  <1>5. ASSUME NEW m \in 1..Len(x)
        PROVE  From(x, m) = <<x[m]>> \o From(x, m + 1)
    <2> DEFINE s == From(x, m)
               r == From(x, m + 1)
               n == Len(x) - m
    <2>1. /\ s \in Seq(S) /\ Len(s) = n + 1
          /\ \A k \in 1..n + 1 : s[k] = x[m + k - 1]
      BY <1>1, <1>2
    <2>2. /\ r \in Seq(S) /\ Len(r) = n
          /\ \A k \in 1..n : r[k] = x[m + 1 + k - 1]
      BY <1>1, <1>2
    <2>3. n \in Nat /\ x[m] \in S  BY <1>1
    <2>4. ASSUME NEW k \in 1..n PROVE r[k] = x[m + k]
      <3>1. m \in Nat /\ k \in Nat  BY <1>1, <2>3
      <3>2. m + 1 + k - 1 = m + k  BY <3>1
      <3>3. r[k] = x[m + 1 + k - 1]  BY <2>2
      <3>4. QED  BY <3>2, <3>3
    <2> HIDE DEF s, r, n
    <2>5. <<x[m]>> \o r \in Seq(S) /\ Len(<<x[m]>> \o r) = n + 1  BY <2>2, <2>3, Cons
    <2>6. ASSUME NEW k \in 1..n + 1 PROVE s[k] = (<<x[m]>> \o r)[k]
      <3>1. s[k] = x[m + k - 1]  BY <2>1
      <3>2. CASE k = 1
        <4>1. s[k] = x[m]  BY <1>1, <3>1, <3>2
        <4>2. (<<x[m]>> \o r)[1] = x[m]  BY <2>2, <2>3
        <4>3. QED  BY <3>2, <4>1, <4>2
      <3>3. CASE k # 1
        <4> DEFINE j == k - 1
        <4>1. j \in 1..n /\ k = j + 1  BY <2>3, <3>3
        <4>2. m + k - 1 = m + j  BY <1>1, <2>3
        <4>3. r[j] = x[m + j]  BY <2>4, <4>1
        <4>4. (<<x[m]>> \o r)[k] = r[j]  BY <2>2, <2>3, <4>1
        <4>5. QED  BY <3>1, <4>2, <4>3, <4>4
      <3>4. QED  BY <3>2, <3>3
    <2>7. QED  BY <2>1, <2>5, <2>6, SeqEqual DEF s, r
  <1>6. QED  BY <1>2, <1>3, <1>4, <1>5

(* What is left of the two texts at a place.                               *)
OldRest(x, at) == From(x, at[1])
NewRest(y, at) == From(y, at[2])

LEMMA Rests ==
    ASSUME NEW x \in Seq(Line), NEW y \in Seq(Line), NEW at \in Places(x, y)
    PROVE  /\ OldLeft(x, at) => /\ Old(x, at) \in Line
                                /\ OldRest(x, at) = Then(Old(x, at), OldRest(x, Down(at)))
           /\ ~ OldLeft(x, at) => OldRest(x, at) = <<>>
           /\ NewLeft(y, at) => /\ New(y, at) \in Line
                                /\ NewRest(y, at) = Then(New(y, at), NewRest(y, Over(at)))
           /\ ~ NewLeft(y, at) => NewRest(y, at) = <<>>
  <1>1. Len(x) \in Nat /\ Len(y) \in Nat  OBVIOUS
  <1>2. /\ at[1] \in Nat /\ at[1] <= Len(x) + 1 /\ at[2] \in Nat /\ at[2] <= Len(y) + 1
        /\ OldLeft(x, at) => at[1] \in 1..Len(x)
        /\ NewLeft(y, at) => at[2] \in 1..Len(y)
    BY <1>1, PlaceFacts
  <1>3. Down(at)[1] = at[1] + 1 /\ Over(at)[2] = at[2] + 1  BY DEF Down, Over
  <1>4. ASSUME OldLeft(x, at)
        PROVE  /\ Old(x, at) \in Line
               /\ OldRest(x, at) = Then(Old(x, at), OldRest(x, Down(at)))
    <2>1. at[1] \in 1..Len(x)  BY <1>2, <1>4
    <2>2. From(x, at[1]) = <<x[at[1]]>> \o From(x, at[1] + 1)  BY <2>1, FromFacts
    <2>3. x[at[1]] \in Line  BY <2>1
    <2>4. QED  BY <1>3, <2>2, <2>3 DEF Old, OldRest, Then
  <1>5. ASSUME ~ OldLeft(x, at) PROVE OldRest(x, at) = <<>>
    <2>1. at[1] = Len(x) + 1  BY <1>1, <1>2, <1>5 DEF OldLeft
    <2>2. From(x, Len(x) + 1) = <<>>  BY FromFacts
    <2>3. QED  BY <2>1, <2>2 DEF OldRest
  <1>6. ASSUME NewLeft(y, at)
        PROVE  /\ New(y, at) \in Line
               /\ NewRest(y, at) = Then(New(y, at), NewRest(y, Over(at)))
    <2>1. at[2] \in 1..Len(y)  BY <1>2, <1>6
    <2>2. From(y, at[2]) = <<y[at[2]]>> \o From(y, at[2] + 1)  BY <2>1, FromFacts
    <2>3. y[at[2]] \in Line  BY <2>1
    <2>4. QED  BY <1>3, <2>2, <2>3 DEF New, NewRest, Then
  <1>7. ASSUME ~ NewLeft(y, at) PROVE NewRest(y, at) = <<>>
    <2>1. at[2] = Len(y) + 1  BY <1>1, <1>2, <1>7 DEF NewLeft
    <2>2. From(y, Len(y) + 1) = <<>>  BY FromFacts
    <2>3. QED  BY <2>1, <2>2 DEF NewRest
  <1>8. QED  BY <1>4, <1>5, <1>6, <1>7

(* A place after another differs from it in one text only, or in both.     *)
LEMMA Moves ==
    ASSUME NEW x, NEW y, NEW at
    PROVE  /\ OldRest(x, Over(at)) = OldRest(x, at) /\ OldRest(x, Both(at)) = OldRest(x, Down(at))
           /\ NewRest(y, Down(at)) = NewRest(y, at) /\ NewRest(y, Both(at)) = NewRest(y, Over(at))
           /\ OldLeft(x, Over(at)) <=> OldLeft(x, at)
           /\ NewLeft(y, Down(at)) <=> NewLeft(y, at)
  <1>1. Over(at)[1] = at[1] /\ Both(at)[1] = Down(at)[1]  BY DEF Over, Both, Down
  <1>2. Down(at)[2] = at[2] /\ Both(at)[2] = Over(at)[2]  BY DEF Over, Both, Down
  <1>3. QED  BY <1>1, <1>2, Zenon DEF OldRest, NewRest, OldLeft, NewLeft

(* The lines that some edits find, leave, and keep.                        *)
OldLines(s) == LinesOf(s, {"same", "removed"})
NewLines(s) == LinesOf(s, {"same", "added"})
SharedLines(s) == LinesOf(s, {"same"})

LEMMA LinesThen ==
    ASSUME NEW l \in Line, NEW s \in Seq(AllEdits)
    PROVE  /\ OldLines(Then(Edit("same", l), s)) = Then(l, OldLines(s))
           /\ OldLines(Then(Edit("removed", l), s)) = Then(l, OldLines(s))
           /\ OldLines(Then(Edit("added", l), s)) = OldLines(s)
           /\ NewLines(Then(Edit("same", l), s)) = Then(l, NewLines(s))
           /\ NewLines(Then(Edit("removed", l), s)) = NewLines(s)
           /\ NewLines(Then(Edit("added", l), s)) = Then(l, NewLines(s))
           /\ SharedLines(Then(Edit("same", l), s)) = Then(l, SharedLines(s))
           /\ SharedLines(Then(Edit("removed", l), s)) = SharedLines(s)
           /\ SharedLines(Then(Edit("added", l), s)) = SharedLines(s)
           /\ Len(Then(l, SharedLines(s))) = Len(SharedLines(s)) + 1
  <1>1. ASSUME NEW kinds, NEW k \in {"same", "removed", "added"}
        PROVE  LinesOf(Then(Edit(k, l), s), kinds)
                 = IF k \in kinds THEN Then(l, LinesOf(s, kinds)) ELSE LinesOf(s, kinds)
    <2> DEFINE e == Edit(k, l)
    <2>1. e \in AllEdits /\ e.kind = k /\ e.line = l  BY DEF Edit, AllEdits
    <2> HIDE DEF e
    <2>2. LinesOf(Then(e, s), kinds) = IF e.kind \in kinds THEN <<e.line>> \o LinesOf(s, kinds)
                                       ELSE LinesOf(s, kinds)
      BY <2>1, LinesFacts
    <2>3. QED  BY <2>1, <2>2 DEF e, Then
  <1>2. ASSUME NEW k \in {"same", "removed", "added"}
        PROVE  /\ OldLines(Then(Edit(k, l), s))
                    = IF k \in {"same", "removed"} THEN Then(l, OldLines(s)) ELSE OldLines(s)
               /\ NewLines(Then(Edit(k, l), s))
                    = IF k \in {"same", "added"} THEN Then(l, NewLines(s)) ELSE NewLines(s)
               /\ SharedLines(Then(Edit(k, l), s)) = IF k \in {"same"} THEN Then(l, SharedLines(s)) ELSE SharedLines(s)
    <2>1. OldLines(Then(Edit(k, l), s))
            = IF k \in {"same", "removed"} THEN Then(l, OldLines(s)) ELSE OldLines(s)
      BY <1>1, Zenon DEF OldLines
    <2>2. NewLines(Then(Edit(k, l), s)) = IF k \in {"same", "added"} THEN Then(l, NewLines(s)) ELSE NewLines(s)
      BY <1>1, Zenon DEF NewLines
    <2>3. SharedLines(Then(Edit(k, l), s)) = IF k \in {"same"} THEN Then(l, SharedLines(s)) ELSE SharedLines(s)
      BY <1>1, Zenon DEF SharedLines
    <2>4. QED  BY <2>1, <2>2, <2>3
  <1>3. SharedLines(s) \in Seq(Line)  BY LinesFacts DEF SharedLines
  <1>4. Len(Then(l, SharedLines(s))) = Len(SharedLines(s)) + 1  BY <1>3, Cons DEF Then
  <1>5. QED  BY <1>2, <1>4

(* The edits from a place on lead from what is left of the one text to     *)
(* what is left of the other, and keep as many lines as was counted.       *)
LeadsFrom(x, y, edits, at) ==
    /\ OldLines(edits) = OldRest(x, at)
    /\ NewLines(edits) = NewRest(y, at)
    /\ Len(SharedLines(edits)) = Kept(x, y)[at]

LEMMA EditsLead ==
    ASSUME NEW x \in Seq(Line), NEW y \in Seq(Line), NEW N,
           \A at \in Places(x, y) : /\ N[at] \in Seq(AllEdits)
                                    /\ N[at] = EditStep(x, y, Kept(x, y), N, at)
    PROVE  \A at \in Places(x, y) : LeadsFrom(x, y, N[at], at)
  <1> DEFINE D == Places(x, y)
             rank == ToGo(x, y)
             kept == Kept(x, y)
             Good == {at \in D : LeadsFrom(x, y, N[at], at)}
  <1>1. Len(x) \in Nat /\ Len(y) \in Nat  OBVIOUS
  <1>2. ASSUME NEW at \in D, \A w \in D : rank[w] < rank[at] => w \in Good
        PROVE  LeadsFrom(x, y, N[at], at)
    <2>1. /\ OldLeft(x, at) => Down(at) \in Good
          /\ NewLeft(y, at) => Over(at) \in Good
          /\ OldLeft(x, at) /\ NewLeft(y, at) => Both(at) \in Good
      BY <1>1, <1>2, PlaceFacts, ToGoFacts
    <2>2. /\ OldLeft(x, at) => Old(x, at) \in Line
          /\ NewLeft(y, at) => New(y, at) \in Line
      BY Rests
    <2>3. \A p \in Good : /\ N[p] \in Seq(AllEdits) /\ LeadsFrom(x, y, N[p], p)
                          /\ kept[p] \in Nat /\ kept[p] = KeptStep(x, y, kept, p)
      BY KeptFacts
    <2>4. kept[at] = KeptStep(x, y, kept, at)  BY KeptFacts
    <2>5. N[at] = EditStep(x, y, kept, N, at)  OBVIOUS
    <2> HIDE DEF kept, Good, D
    <2>6. CASE ~ OldLeft(x, at) /\ ~ NewLeft(y, at)
      <3>1. N[at] = <<>>  BY <2>5, <2>6 DEF EditStep
      <3>2. OldLines(N[at]) = <<>>  BY <3>1, LinesFacts DEF OldLines
      <3>3. NewLines(N[at]) = <<>>  BY <3>1, LinesFacts DEF NewLines
      <3>4. Len(SharedLines(N[at])) = 0  BY <3>1, LinesFacts, EmptySeq DEF SharedLines
      <3>5. kept[at] = 0  BY <2>4, <2>6 DEF KeptStep
      <3>6. OldRest(x, at) = <<>> /\ NewRest(y, at) = <<>>  BY <2>6, Rests DEF D
      <3>7. QED  BY <3>2, <3>3, <3>4, <3>5, <3>6 DEF LeadsFrom, kept
    <2>7. CASE SameNext(x, y, at)
      <3> DEFINE p == Both(at)
                 l == Old(x, at)
      <3>1. OldLeft(x, at) /\ NewLeft(y, at) /\ New(y, at) = l  BY <2>7 DEF SameNext
      <3>2. p \in Good /\ l \in Line  BY <2>1, <2>2, <3>1
      <3>3. N[at] = Then(Edit("same", l), N[p])  BY <2>5, <2>7, <3>1 DEF EditStep
      <3>4. kept[at] = kept[p] + 1  BY <2>4, <2>7, <3>1 DEF KeptStep
      <3>5. OldRest(x, at) = Then(l, OldRest(x, p)) /\ NewRest(y, at) = Then(l, NewRest(y, p))
        <4>1. at \in Places(x, y)  BY DEF D
        <4>2. OldRest(x, at) = Then(Old(x, at), OldRest(x, Down(at)))  BY <3>1, <4>1, Rests
        <4>3. NewRest(y, at) = Then(New(y, at), NewRest(y, Over(at)))  BY <3>1, <4>1, Rests
        <4>4. OldRest(x, p) = OldRest(x, Down(at)) /\ NewRest(y, p) = NewRest(y, Over(at))
          BY Moves
        <4>5. QED  BY <3>1, <4>2, <4>3, <4>4
      <3> HIDE DEF p, l
      <3>6. N[p] \in Seq(AllEdits) /\ LeadsFrom(x, y, N[p], p) /\ kept[p] \in Nat  BY <2>3, <3>2
      <3>7. OldLines(N[at]) = Then(l, OldLines(N[p]))
        BY <3>2, <3>3, <3>6, LinesThen
      <3>8. NewLines(N[at]) = Then(l, NewLines(N[p]))
        BY <3>2, <3>3, <3>6, LinesThen
      <3>9. SharedLines(N[at]) = Then(l, SharedLines(N[p]))
        BY <3>2, <3>3, <3>6, LinesThen
      <3>10. Len(SharedLines(N[at])) = Len(SharedLines(N[p])) + 1
        BY <3>2, <3>6, <3>9, LinesThen
      <3>11. QED  BY <3>4, <3>5, <3>6, <3>7, <3>8, <3>10 DEF LeadsFrom, kept
    <2>8. CASE /\ ~ SameNext(x, y, at)
               /\ OldLeft(x, at) /\ (~ NewLeft(y, at) \/ Better(kept, at))
      <3> DEFINE p == Down(at)
                 l == Old(x, at)
      <3>1. p \in Good /\ l \in Line  BY <2>1, <2>2, <2>8
      <3>2. N[at] = Then(Edit("removed", l), N[p])  BY <2>5, <2>8 DEF EditStep
      <3>3. kept[at] = kept[p]
        <4>1. CASE NewLeft(y, at)  BY <2>4, <2>8, <4>1 DEF KeptStep
        <4>2. CASE ~ NewLeft(y, at)
          <5>1. kept[at] = 0  BY <2>4, <4>2 DEF KeptStep
          <5>2. ~ NewLeft(y, p)  BY <4>2, Moves
          <5>3. kept[p] = KeptStep(x, y, kept, p)  BY <2>3, <3>1
          <5>4. kept[p] = 0  BY <5>2, <5>3 DEF KeptStep
          <5>5. QED  BY <5>1, <5>4
        <4>3. QED  BY <4>1, <4>2
      <3>4. OldRest(x, at) = Then(l, OldRest(x, p)) /\ NewRest(y, at) = NewRest(y, p)
        BY <2>8, Rests, Moves DEF D
      <3> HIDE DEF p, l
      <3>5. N[p] \in Seq(AllEdits) /\ LeadsFrom(x, y, N[p], p)  BY <2>3, <3>1
      <3>6. OldLines(N[at]) = Then(l, OldLines(N[p]))
        BY <3>1, <3>2, <3>5, LinesThen
      <3>7. NewLines(N[at]) = NewLines(N[p])
        BY <3>1, <3>2, <3>5, LinesThen
      <3>8. SharedLines(N[at]) = SharedLines(N[p])
        BY <3>1, <3>2, <3>5, LinesThen
      <3>9. QED  BY <3>3, <3>4, <3>5, <3>6, <3>7, <3>8 DEF LeadsFrom, kept
    <2>9. CASE /\ ~ SameNext(x, y, at) /\ NewLeft(y, at)
               /\ ~ (OldLeft(x, at) /\ (~ NewLeft(y, at) \/ Better(kept, at)))
      <3> DEFINE p == Over(at)
                 l == New(y, at)
      <3>1. p \in Good /\ l \in Line  BY <2>1, <2>2, <2>9
      <3>2. N[at] = Then(Edit("added", l), N[p])  BY <2>5, <2>9 DEF EditStep
      <3>3. kept[at] = kept[p]
        <4>1. CASE OldLeft(x, at)  BY <2>4, <2>9, <4>1 DEF KeptStep
        <4>2. CASE ~ OldLeft(x, at)
          <5>1. kept[at] = 0  BY <2>4, <4>2 DEF KeptStep
          <5>2. ~ OldLeft(x, p)  BY <4>2, Moves
          <5>3. kept[p] = KeptStep(x, y, kept, p)  BY <2>3, <3>1
          <5>4. kept[p] = 0  BY <5>2, <5>3 DEF KeptStep
          <5>5. QED  BY <5>1, <5>4
        <4>3. QED  BY <4>1, <4>2
      <3>4. OldRest(x, at) = OldRest(x, p) /\ NewRest(y, at) = Then(l, NewRest(y, p))
        BY <2>9, Rests, Moves DEF D
      <3> HIDE DEF p, l
      <3>5. N[p] \in Seq(AllEdits) /\ LeadsFrom(x, y, N[p], p)  BY <2>3, <3>1
      <3>6. OldLines(N[at]) = OldLines(N[p])
        BY <3>1, <3>2, <3>5, LinesThen
      <3>7. NewLines(N[at]) = Then(l, NewLines(N[p]))
        BY <3>1, <3>2, <3>5, LinesThen
      <3>8. SharedLines(N[at]) = SharedLines(N[p])
        BY <3>1, <3>2, <3>5, LinesThen
      <3>9. QED  BY <3>3, <3>4, <3>5, <3>6, <3>7, <3>8 DEF LeadsFrom, kept
    <2>10. QED  BY <2>6, <2>7, <2>8, <2>9
  <1>3. rank \in [D -> Nat] /\ Good \in SUBSET D  BY <1>1, ToGoFacts
  <1>4. \A at \in D : (\A w \in D : rank[w] < rank[at] => w \in Good) => at \in Good  BY <1>2
  <1> HIDE DEF Good, rank, D
  <1>5. Good = D  BY <1>3, <1>4, ByRank
  <1>6. QED  BY <1>5 DEF Good, D

(* A common subsequence of what is left of two texts: its lines are those  *)
(* g of the one and those h of the other.                                  *)
Ordered(g, n, from, top) ==
    /\ g \in [1..n -> 1..top]
    /\ \A j, k \in 1..n : j < k => g[j] < g[k]
    /\ \A k \in 1..n : from <= g[k]

Matched(x, y, at, n, g, h) ==
    /\ Ordered(g, n, at[1], Len(x)) /\ Ordered(h, n, at[2], Len(y))
    /\ \A k \in 1..n : x[g[k]] = y[h[k]]

LEMMA Skipped ==
    ASSUME NEW n \in Nat, n # 0, NEW m \in Nat, NEW top \in Nat, NEW g, Ordered(g, n, m, top), g[1] # m
    PROVE  Ordered(g, n, m + 1, top)
  <1>1. 1 \in 1..n /\ g[1] \in Nat /\ m <= g[1]  BY DEF Ordered
  <1>2. ASSUME NEW k \in 1..n PROVE m + 1 <= g[k]
    <2>1. g[k] \in Nat /\ (1 < k => g[1] < g[k])  BY <1>1, <1>2 DEF Ordered
    <2>2. k = 1 \/ 1 < k  BY <1>2
    <2>3. QED  BY <1>1, <2>1, <2>2
  <1>3. QED  BY <1>2 DEF Ordered

LEMMA Shifted ==
    ASSUME NEW b \in Nat, NEW m \in Nat, NEW top \in Nat, NEW g, Ordered(g, b + 1, m, top)
    PROVE  Ordered([k \in 1..b |-> g[k + 1]], b, m + 1, top)
  <1> DEFINE s == [k \in 1..b |-> g[k + 1]]
  <1>1. \A k \in 1..b : k + 1 \in 1..b + 1 /\ s[k] = g[k + 1]  OBVIOUS
  <1>2. 1 \in 1..b + 1 /\ g[1] \in Nat /\ m <= g[1]  BY DEF Ordered
  <1>3. s \in [1..b -> 1..top]  BY <1>1 DEF Ordered
  <1>4. ASSUME NEW j \in 1..b, NEW k \in 1..b, j < k PROVE s[j] < s[k]
    <2>1. j + 1 \in 1..b + 1 /\ k + 1 \in 1..b + 1 /\ j + 1 < k + 1  BY <1>4
    <2>2. g[j + 1] < g[k + 1]  BY <2>1 DEF Ordered
    <2>3. QED  BY <1>1, <2>2
  <1>5. ASSUME NEW k \in 1..b PROVE m + 1 <= s[k]
    <2>1. k + 1 \in 1..b + 1 /\ 1 < k + 1  BY <1>5
    <2>2. g[1] < g[k + 1] /\ g[k + 1] \in Nat  BY <1>2, <2>1 DEF Ordered
    <2>3. QED  BY <1>1, <1>2, <2>2
  <1> HIDE DEF s
  <1>6. Ordered(s, b, m + 1, top)  BY <1>3, <1>4, <1>5 DEF Ordered
  <1>7. QED  BY <1>6 DEF s

Most(x, y, at) ==
    \A n \in Nat : \A g, h : Matched(x, y, at, n, g, h) => n <= Kept(x, y)[at]

LEMMA MostKept ==
    ASSUME NEW x \in Seq(Line), NEW y \in Seq(Line)
    PROVE  \A at \in Places(x, y) : Most(x, y, at)
  <1> DEFINE D == Places(x, y)
             rank == ToGo(x, y)
             kept == Kept(x, y)
             Good == {at \in D : Most(x, y, at)}
  <1>1. Len(x) \in Nat /\ Len(y) \in Nat  OBVIOUS
  <1>2. ASSUME NEW at \in D, \A w \in D : rank[w] < rank[at] => w \in Good,
               NEW n \in Nat, NEW g, NEW h, Matched(x, y, at, n, g, h)
        PROVE  n <= kept[at]
    <2>1. /\ OldLeft(x, at) => Down(at) \in Good
          /\ NewLeft(y, at) => Over(at) \in Good
          /\ OldLeft(x, at) /\ NewLeft(y, at) => Both(at) \in Good
      BY <1>1, <1>2, PlaceFacts, ToGoFacts
    <2>2. at[1] \in Nat /\ at[2] \in Nat  BY <1>1, PlaceFacts
    <2>3. kept[at] \in Nat /\ kept[at] = KeptStep(x, y, kept, at)  BY KeptFacts
    <2>4. \A p \in Good : kept[p] \in Nat /\ Most(x, y, p)  BY KeptFacts
    <2> HIDE DEF kept, Good, D, rank
    <2>5. CASE n = 0  BY <2>3, <2>5
    <2>6. CASE n # 0
      <3>1. /\ Ordered(g, n, at[1], Len(x)) /\ Ordered(h, n, at[2], Len(y))
            /\ \A k \in 1..n : x[g[k]] = y[h[k]]
        BY <1>2 DEF Matched
      <3>2. 1 \in 1..n /\ g[1] \in 1..Len(x) /\ at[1] <= g[1] /\ h[1] \in 1..Len(y) /\ at[2] <= h[1]
        BY <2>6, <3>1 DEF Ordered
      <3>3. OldLeft(x, at) /\ NewLeft(y, at)  BY <1>1, <2>2, <3>2 DEF OldLeft, NewLeft
      <3>4. Down(at)[1] = at[1] + 1 /\ Down(at)[2] = at[2]  BY DEF Down
      <3>5. Over(at)[1] = at[1] /\ Over(at)[2] = at[2] + 1  BY DEF Over
      <3>6. Both(at)[1] = at[1] + 1 /\ Both(at)[2] = at[2] + 1  BY DEF Both
      <3>7. CASE SameNext(x, y, at)
        <4> DEFINE b == n - 1
                   g1 == [k \in 1..b |-> g[k + 1]]
                   h1 == [k \in 1..b |-> h[k + 1]]
        <4>1. b \in Nat /\ n = b + 1  BY <2>6
        <4>2. Ordered(g1, b, at[1] + 1, Len(x)) /\ Ordered(h1, b, at[2] + 1, Len(y))
          BY <1>1, <2>2, <3>1, <4>1, Shifted
        <4>3. ASSUME NEW k \in 1..b PROVE x[g1[k]] = y[h1[k]]
          <5>1. k + 1 \in 1..n  BY <4>1, <4>3
          <5>2. g1[k] = g[k + 1] /\ h1[k] = h[k + 1]  OBVIOUS
          <5>3. QED  BY <3>1, <5>1, <5>2
        <4> HIDE DEF b, g1, h1
        <4>4. Matched(x, y, Both(at), b, g1, h1)  BY <3>6, <4>2, <4>3 DEF Matched
        <4>5. Both(at) \in Good  BY <2>1, <3>3
        <4>6. b <= kept[Both(at)]  BY <2>4, <4>1, <4>4, <4>5 DEF Most, kept
        <4>7. kept[at] = kept[Both(at)] + 1  BY <2>3, <3>3, <3>7 DEF KeptStep
        <4>8. kept[Both(at)] \in Nat  BY <2>4, <4>5
        <4>9. QED  BY <4>1, <4>6, <4>7, <4>8
      <3>8. CASE ~ SameNext(x, y, at)
        <4>1. Down(at) \in Good /\ Over(at) \in Good  BY <2>1, <3>3
        <4>2. kept[Down(at)] \in Nat /\ kept[Over(at)] \in Nat  BY <2>4, <4>1
        <4>3. kept[at] = IF kept[Down(at)] >= kept[Over(at)] THEN kept[Down(at)] ELSE kept[Over(at)]
          BY <2>3, <3>3, <3>8 DEF KeptStep, Better
        <4>4. kept[Down(at)] <= kept[at] /\ kept[Over(at)] <= kept[at]  BY <2>3, <4>2, <4>3
        <4>5. g[1] # at[1] \/ h[1] # at[2]
          BY <3>1, <3>2, <3>3, <3>8 DEF SameNext, Old, New
        <4>6. CASE g[1] # at[1]
          <5>1. Ordered(g, n, at[1] + 1, Len(x))  BY <1>1, <2>2, <2>6, <3>1, <4>6, Skipped
          <5>2. Matched(x, y, Down(at), n, g, h)  BY <3>1, <3>4, <5>1 DEF Matched
          <5>3. n <= kept[Down(at)]  BY <2>4, <4>1, <5>2 DEF Most, kept
          <5>4. QED  BY <2>3, <4>2, <4>4, <5>3
        <4>7. CASE h[1] # at[2]
          <5>1. Ordered(h, n, at[2] + 1, Len(y))  BY <1>1, <2>2, <2>6, <3>1, <4>7, Skipped
          <5>2. Matched(x, y, Over(at), n, g, h)  BY <3>1, <3>5, <5>1 DEF Matched
          <5>3. n <= kept[Over(at)]  BY <2>4, <4>1, <5>2 DEF Most, kept
          <5>4. QED  BY <2>3, <4>2, <4>4, <5>3
        <4>8. QED  BY <4>5, <4>6, <4>7
      <3>9. QED  BY <3>7, <3>8
    <2>7. QED  BY <2>5, <2>6
  <1>3. rank \in [D -> Nat] /\ Good \in SUBSET D  BY <1>1, ToGoFacts
  <1>4. \A at \in D : (\A w \in D : rank[w] < rank[at] => w \in Good) => at \in Good
    BY <1>2 DEF Most
  <1> HIDE DEF Good, rank, D
  <1>5. Good = D  BY <1>3, <1>4, ByRank
  <1>6. QED  BY <1>5 DEF Good, D

(* Nothing longer than what is kept is a subsequence of both texts.        *)
LEMMA NothingLonger ==
    ASSUME NEW x \in Seq(Line), NEW y \in Seq(Line),
           NEW s \in SubSequences(x) \cap SubSequences(y)
    PROVE  Len(s) <= Kept(x, y)[<<1, 1>>]
  <1>1. Len(x) \in Nat /\ Len(y) \in Nat  OBVIOUS
  <1>2. PICK n \in 0..Len(x) : \E g \in Increasing(n, Len(x)) : s = [k \in 1..n |-> x[g[k]]]
    BY DEF SubSequences
  <1>3. PICK g \in Increasing(n, Len(x)) : s = [k \in 1..n |-> x[g[k]]]  BY <1>2
  <1>4. PICK b \in 0..Len(y) : \E h \in Increasing(b, Len(y)) : s = [k \in 1..b |-> y[h[k]]]
    BY DEF SubSequences
  <1>5. PICK h \in Increasing(b, Len(y)) : s = [k \in 1..b |-> y[h[k]]]  BY <1>4
  <1>6. n \in Nat /\ b \in Nat  BY <1>1
  <1>7. g \in [1..n -> 1..Len(x)] /\ \A j, k \in 1..n : j < k => g[j] < g[k]  BY DEF Increasing
  <1>8. h \in [1..b -> 1..Len(y)] /\ \A j, k \in 1..b : j < k => h[j] < h[k]  BY DEF Increasing
  <1>9. s \in Seq(Line) /\ Len(s) = n
    <2>1. ASSUME NEW k \in 1..n PROVE x[g[k]] \in Line
      <3>1. g[k] \in 1..Len(x)  BY <1>7
      <3>2. QED  BY <3>1
    <2>2. QED  BY <1>3, <1>6, <2>1, IsASeq
  <1>10. Len(s) = b
    <2>1. ASSUME NEW k \in 1..b PROVE y[h[k]] \in Line
      <3>1. h[k] \in 1..Len(y)  BY <1>8
      <3>2. QED  BY <3>1
    <2>2. QED  BY <1>5, <1>6, <2>1, IsASeq
  <1>11. n = b  BY <1>9, <1>10
  <1>12. \A k \in 1..n : x[g[k]] = y[h[k]]
    <2>1. ASSUME NEW k \in 1..n PROVE x[g[k]] = y[h[k]]
      <3>1. s[k] = x[g[k]]  BY <1>3
      <3>2. s[k] = y[h[k]]  BY <1>5, <1>11
      <3>3. QED  BY <3>1, <3>2
    <2>2. QED  BY <2>1
  <1> DEFINE at == <<1, 1>>
  <1>13. at \in Places(x, y) /\ at[1] = 1 /\ at[2] = 1  BY <1>1 DEF Places
  <1> HIDE DEF at
  <1>14. Ordered(g, n, 1, Len(x))
    <2>1. \A k \in 1..n : 1 <= g[k]  BY <1>7
    <2>2. QED  BY <1>7, <2>1 DEF Ordered
  <1>15. Ordered(h, n, 1, Len(y))
    <2>1. \A k \in 1..n : 1 <= h[k]  BY <1>8, <1>11
    <2>2. QED  BY <1>8, <1>11, <2>1 DEF Ordered
  <1>16. Matched(x, y, at, n, g, h)  BY <1>12, <1>13, <1>14, <1>15 DEF Matched
  <1>17. Most(x, y, at)  BY <1>13, MostKept
  <1>18. n <= Kept(x, y)[at]  BY <1>6, <1>16, <1>17 DEF Most
  <1>19. QED  BY <1>9, <1>18 DEF at

LEMMA ChangesThen ==
    /\ Changes(<<>>) = <<>>
    /\ \A s \in Seq(AllEdits) : Changes(s) \in Seq(AllEdits)
    /\ \A e \in AllEdits, s \in Seq(AllEdits) :
         /\ e.kind = "same" => Changes(Then(e, s)) = Changes(s)
         /\ e.kind # "same" => Changes(Then(e, s)) # <<>>
  <1> DEFINE kinds == {"removed", "added", "oversized"}
  <1>1. OfKind(<<>>, kinds) = <<>> /\ \A s \in Seq(AllEdits) : OfKind(s, kinds) \in Seq(AllEdits)
    BY OfKindFacts
  <1>2. ASSUME NEW e \in AllEdits, NEW s \in Seq(AllEdits)
        PROVE  /\ e.kind = "same" => Changes(Then(e, s)) = Changes(s)
               /\ e.kind # "same" => Changes(Then(e, s)) # <<>>
    <2>1. OfKind(Then(e, s), kinds) = IF e.kind \in kinds THEN <<e>> \o OfKind(s, kinds)
                                      ELSE OfKind(s, kinds)
      BY OfKindFacts DEF Then
    <2>2. <<e>> \o OfKind(s, kinds) # <<>>  BY <1>1, Cons
    <2>3. e.kind = "same" <=> e.kind \notin kinds  BY DEF AllEdits
    <2> HIDE DEF kinds
    <2>4. QED  BY <2>1, <2>2, <2>3 DEF Changes, kinds
  <1>3. QED  BY <1>1, <1>2 DEF Changes

(* Edits that change nothing find the lines that they leave.               *)
LEMMA NothingChanged ==
    \A s \in Seq(AllEdits) : Changes(s) = <<>> => OldLines(s) = NewLines(s)
  <1> DEFINE D == Seq(AllEdits)
             rank == [s \in D |-> Len(s)]
             Good == {s \in D : Changes(s) = <<>> => OldLines(s) = NewLines(s)}
  <1>1. ASSUME NEW s \in D, \A w \in D : rank[w] < rank[s] => w \in Good,
               Changes(s) = <<>>
        PROVE  OldLines(s) = NewLines(s)
    <2>1. CASE s = <<>>  BY <2>1, LinesFacts DEF OldLines, NewLines
    <2>2. CASE s # <<>>
      <3> DEFINE e == Head(s)
                 r == Tail(s)
      <3>1. e \in AllEdits /\ r \in D /\ s = Then(e, r) /\ Len(r) < Len(s)
        BY <2>2, Shorter DEF Then
      <3>2. r \in Good  BY <1>1, <3>1
      <3> HIDE DEF e, r
      <3>3. e.kind = "same" /\ Changes(r) = <<>>  BY <1>1, <3>1, ChangesThen
      <3>4. OldLines(r) = NewLines(r)  BY <3>2, <3>3
      <3>5. e = Edit("same", e.line) /\ e.line \in Line  BY <3>1, <3>3 DEF AllEdits, Edit
      <3>6. OldLines(s) = Then(e.line, OldLines(r)) /\ NewLines(s) = Then(e.line, NewLines(r))
        BY <3>1, <3>5, LinesThen
      <3>7. QED  BY <3>4, <3>6
    <2>3. QED  BY <2>1, <2>2
  <1>2. rank \in [D -> Nat] /\ Good \in SUBSET D  OBVIOUS
  <1>3. \A s \in D : (\A w \in D : rank[w] < rank[s] => w \in Good) => s \in Good  BY <1>1
  <1> HIDE DEF Good, rank, D
  <1>4. Good = D  BY <1>2, <1>3, ByRank
  <1>5. QED  BY <1>4 DEF Good, D

(* A text is not changed into itself.                                      *)
LEMMA SameText ==
    ASSUME NEW x \in Seq(Line), NEW N,
           \A at \in Places(x, x) : /\ N[at] \in Seq(AllEdits)
                                    /\ N[at] = EditStep(x, x, Kept(x, x), N, at)
    PROVE  \A at \in Places(x, x) : at[1] = at[2] => Changes(N[at]) = <<>>
  <1> DEFINE D == Places(x, x)
             rank == ToGo(x, x)
             Good == {at \in D : at[1] = at[2] => Changes(N[at]) = <<>>}
  <1>1. Len(x) \in Nat  OBVIOUS
  <1>2. ASSUME NEW at \in D, \A w \in D : rank[w] < rank[at] => w \in Good, at[1] = at[2]
        PROVE  Changes(N[at]) = <<>>
    <2>1. N[at] = EditStep(x, x, Kept(x, x), N, at)  OBVIOUS
    <2>2. OldLeft(x, at) <=> NewLeft(x, at)  BY <1>2 DEF OldLeft, NewLeft
    <2>3. CASE ~ OldLeft(x, at)
      <3>1. N[at] = <<>>  BY <2>1, <2>2, <2>3 DEF EditStep
      <3>2. QED  BY <3>1, ChangesThen
    <2>4. CASE OldLeft(x, at)
      <3> DEFINE p == Both(at)
                 e == Edit("same", Old(x, at))
      <3>1. SameNext(x, x, at)  BY <1>2, <2>2, <2>4 DEF SameNext, Old, New
      <3>2. N[at] = Then(e, N[p])  BY <2>1, <2>2, <2>4, <3>1 DEF EditStep
      <3>3. p \in D /\ p \in Good /\ N[p] \in Seq(AllEdits)
        BY <1>1, <1>2, <2>2, <2>4, PlaceFacts, ToGoFacts
      <3>4. p[1] = p[2]  BY <1>2 DEF Both
      <3>5. Changes(N[p]) = <<>>  BY <3>3, <3>4
      <3>6. e \in AllEdits /\ e.kind = "same"  BY <2>4, Rests DEF Edit, AllEdits
      <3> HIDE DEF e, p
      <3>7. QED  BY <3>2, <3>3, <3>5, <3>6, ChangesThen
    <2>5. QED  BY <2>3, <2>4
  <1>3. rank \in [D -> Nat] /\ Good \in SUBSET D  BY <1>1, ToGoFacts
  <1>4. \A at \in D : (\A w \in D : rank[w] < rank[at] => w \in Good) => at \in Good  BY <1>2
  <1> HIDE DEF Good, rank, D
  <1>5. Good = D  BY <1>3, <1>4, ByRank
  <1>6. QED  BY <1>5 DEF Good, D

(* The edits of two sequences of lines, as a whole.                        *)
LEMMA WholeDiff ==
    ASSUME NEW x \in Seq(Line), NEW y \in Seq(Line)
    PROVE  /\ Edits(x, y) \in Seq(AllEdits)
           /\ OldLines(Edits(x, y)) = x /\ NewLines(Edits(x, y)) = y
           /\ Len(SharedLines(Edits(x, y))) = Kept(x, y)[<<1, 1>>]
           /\ Changes(Edits(x, y)) = <<>> <=> x = y
  <1> DEFINE at == <<1, 1>>
             edits == Edits(x, y)
  <1>1. Len(x) \in Nat /\ Len(y) \in Nat  OBVIOUS
  <1>2. at \in Places(x, y) /\ at[1] = 1 /\ at[2] = 1  BY <1>1 DEF Places
  <1>3. PICK N : /\ edits = N[<<1, 1>>]
                 /\ \A w \in Places(x, y) : /\ N[w] \in Seq(AllEdits)
                                            /\ N[w] = EditStep(x, y, Kept(x, y), N, w)
    BY EditsFacts
  <1>4. edits = N[at]  BY <1>3
  <1> HIDE DEF at, edits
  <1>5. edits \in Seq(AllEdits)  BY <1>2, <1>3, <1>4
  <1>6. LeadsFrom(x, y, edits, at)  BY <1>2, <1>3, <1>4, EditsLead
  <1>7. OldRest(x, at) = x /\ NewRest(y, at) = y  BY <1>2, FromFacts DEF OldRest, NewRest
  <1>8. OldLines(edits) = x /\ NewLines(edits) = y /\ Len(SharedLines(edits)) = Kept(x, y)[at]
    BY <1>6, <1>7 DEF LeadsFrom
  <1>9. Changes(edits) = <<>> => x = y  BY <1>5, <1>8, NothingChanged
  <1>10. x = y => Changes(edits) = <<>>
    <2>1. SUFFICES ASSUME x = y PROVE Changes(edits) = <<>>
      OBVIOUS
    <2>2. \A w \in Places(x, x) : /\ N[w] \in Seq(AllEdits)
                                  /\ N[w] = EditStep(x, x, Kept(x, x), N, w)
      BY <1>3, <2>1
    <2>3. \A w \in Places(x, x) : w[1] = w[2] => Changes(N[w]) = <<>>  BY <2>2, SameText
    <2>4. QED  BY <1>2, <1>4, <2>1, <2>3
  <1>11. QED  BY <1>5, <1>8, <1>9, <1>10 DEF at, edits

(* What a plan shows of a difference and what it leaves out.               *)
LEMMA ShownChanges ==
    ASSUME NEW t, NEW u, Changes(DiffLines(t, u)) \in Seq(AllEdits)
    PROVE  LET diff == ContentDiff(t, u)
               changes == Changes(DiffLines(t, u))
           IN /\ diff.shown = <<>> <=> changes = <<>>
              /\ Len(diff.shown) + diff.omitted = Len(changes)
  <1> DEFINE changes == Changes(DiffLines(t, u))
             n == IF Len(changes) < PreviewLimit THEN Len(changes) ELSE PreviewLimit
             shown == SubSeq(changes, 1, n)
  <1>1. ContentDiff(t, u) = [shown |-> shown, omitted |-> Len(changes) - n]  BY DEF ContentDiff
  <1>2. changes \in Seq(AllEdits)  OBVIOUS
  <1> HIDE DEF changes
  <1>3. Len(changes) \in Nat /\ PreviewLimit \in Nat \ {0}  BY <1>2, LineDiffAssumption
  <1>4. n \in Nat /\ n <= Len(changes) /\ (n = 0 <=> Len(changes) = 0)  BY <1>3
  <1> HIDE DEF n
  <1>5. shown \in Seq(AllEdits) /\ Len(shown) = n
    <2>1. \A k \in 1..n : changes[k] \in AllEdits  BY <1>2, <1>3, <1>4
    <2>2. QED  BY <1>4, <2>1, SubSeqProperties
  <1> HIDE DEF shown
  <1>6. shown = <<>> <=> n = 0  BY <1>5, EmptySeq
  <1>7. changes = <<>> <=> Len(changes) = 0  BY <1>2, EmptySeq
  <1>8. Len(shown) + (Len(changes) - n) = Len(changes)  BY <1>3, <1>4, <1>5
  <1>9. ContentDiff(t, u).shown = shown /\ ContentDiff(t, u).omitted = Len(changes) - n
    BY <1>1
  <1>10. QED  BY <1>4, <1>6, <1>7, <1>8, <1>9 DEF changes

(* Two texts of any characters and of any length: their diff leads from    *)
(* the one to the other with the fewest edits, and is empty only where     *)
(* they have the same lines (diffTemplateLines).                           *)
THEOREM EveryDiffIsFaithful ==
    \A t, u \in Seq(Characters) : Faithful(t, u)
  <1>1. SUFFICES ASSUME NEW t \in Seq(Characters), NEW u \in Seq(Characters)
                 PROVE  Faithful(t, u)
    OBVIOUS
  <1> DEFINE x == SplitLines(t)
             y == SplitLines(u)
             edits == DiffLines(t, u)
             fits == Len(x) <= MaxLines /\ Len(y) <= MaxLines
  <1>2. x \in Seq(Line) /\ y \in Seq(Line)  BY LinesText
  <1>3. edits = IF Len(x) > MaxLines \/ Len(y) > MaxLines THEN <<Edit("oversized", <<>>)>>
                ELSE Edits(x, y)
    BY DEF DiffLines
  <1> HIDE DEF x, y, edits
  <1>4. Len(x) \in Nat /\ Len(y) \in Nat /\ MaxLines \in Nat  BY <1>2, LineDiffAssumption
  <1>5. CASE fits
    <2>1. edits = Edits(x, y)  BY <1>3, <1>4, <1>5
    <2>2. /\ edits \in Seq(AllEdits) /\ OldLines(edits) = x /\ NewLines(edits) = y
          /\ Len(SharedLines(edits)) = Kept(x, y)[<<1, 1>>]
          /\ Changes(edits) = <<>> <=> x = y
      BY <1>2, <2>1, WholeDiff
    <2>3. Changes(edits) \in Seq(AllEdits)  BY <2>2, ChangesThen
    <2>4. /\ ContentDiff(t, u).shown = <<>> <=> Changes(edits) = <<>>
          /\ Len(ContentDiff(t, u).shown) + ContentDiff(t, u).omitted = Len(Changes(edits))
      BY <2>3, ShownChanges DEF edits
    <2>5. \A s \in SubSequences(x) \cap SubSequences(y) : Len(s) <= Len(SharedLines(edits))
      BY <1>2, <2>2, NothingLonger
    <2>6. QED  BY <1>5, <2>2, <2>4, <2>5, Zenon DEF Faithful, OldLines, NewLines, SharedLines, x, y, edits
  <1>6. CASE ~ fits
    <2> DEFINE e == Edit("oversized", <<>>)
    <2>1. edits = <<e>>  BY <1>3, <1>4, <1>6
    <2>2. e \in AllEdits /\ e.kind = "oversized"  BY DEF Edit, AllEdits, Line
    <2> HIDE DEF e
    <2>3. edits \in Seq(AllEdits) /\ edits = Then(e, <<>>)  BY <2>1, <2>2 DEF Then
    <2>4. Changes(edits) \in Seq(AllEdits) /\ Changes(edits) # <<>>
      BY <2>2, <2>3, ChangesThen, EmptySeq
    <2>5. /\ ContentDiff(t, u).shown = <<>> <=> Changes(edits) = <<>>
          /\ Len(ContentDiff(t, u).shown) + ContentDiff(t, u).omitted = Len(Changes(edits))
      BY <2>4, ShownChanges DEF edits
    <2>6. ContentDiff(t, u).shown # <<>>  BY <2>4, <2>5
    <2>7. x = y => ~ (Len(x) <= MaxLines)  BY <1>6
    <2>8. QED  BY <1>6, <2>5, <2>6, <2>7, Zenon DEF Faithful, x, y, edits
  <1>7. QED  BY <1>5, <1>6

(* Whatever a file holds and should hold, a plan that shows no edit of it  *)
(* leaves its lines alone, and the edits it shows and counts lead from the *)
(* one text to the other, by as few of them as it takes                    *)
(* (renderTemplateContentDiff, diffTemplateLines).                         *)
THEOREM DiffsAreFaithful ==
    Spec => []DiffShowsEdits
  <1>1. \A t, u \in Texts : Faithful(t, u)  BY EveryDiffIsFaithful, LineDiffAssumption
  <1>2. Unfaithful = {}  BY <1>1 DEF Unfaithful
  <1>3. DiffShowsEdits  BY <1>2 DEF DiffShowsEdits
  <1>4. QED  BY <1>3, PTL
=============================================================================
