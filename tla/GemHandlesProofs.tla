--------------------------- MODULE GemHandlesProofs ---------------------------
(***************************************************************************)
(* Proofs about GemHandles: who remembers a number remembers the right one,*)
(* for any numbers, handles, arrays and weights, up to a step that closes  *)
(* a number which is not the caller's, or c->fd under a BO that is held.   *)
(*                                                                         *)
(* A call is a composition of open, close, create and free.  Each of these *)
(* keeps Core, which says whose every number is; the lemmas about them say *)
(* also what else they change, and the calls follow by chaining them.      *)
(***************************************************************************)
EXTENDS GemHandles, FiniteSetTheorems, WellFoundedInduction, TLAPS

(***************************************************************************)
(* The inductive invariant.                                                *)
(***************************************************************************)
Files == {OtherFile} \cup NewFiles
States == [fds : [Fds -> {Free} \cup Files],
           holds : [Owners -> [n : Fds \cup {Free}, file : Files]],
           gem : [NewFiles -> [Handles -> Names \cup {""}]],
           bo : [Names -> [n : Fds \cup {0}, h : Handles \cup {0}, file : Files]],
           exe : {"none", "with_bos", "without"}]

OwnerOf(x) == IF x \in CnaNames THEN "cna" ELSE IF x \in Cache THEN "mfd" ELSE "c"
Held(p, x) == p.bo[x].h # 0 /\ (x \in CnaNames => IsOpen(p, "cna"))

\* Two numbers are two files, and a file that is not open has no handles.
Numbers(p) ==
    /\ \A m, n \in Fds : p.fds[m] = p.fds[n] => m = n \/ p.fds[m] = Free
    /\ \A f \in NewFiles : (\A n \in Fds : p.fds[n] # f) =>
           \A h \in Handles : p.gem[f][h] = ""

\* Each owner has a number of his own, which is the file he opened.
Owned(p) ==
    /\ \A who \in Owners : IsOpen(p, who) =>
           /\ p.fds[p.holds[who].n] = p.holds[who].file
           /\ p.holds[who].file = OtherFile <=> who = "other"
    /\ \A a, b \in Owners :
           IsOpen(p, a) /\ IsOpen(p, b) /\ p.holds[a].n = p.holds[b].n => a = b
    /\ \A n \in Fds : p.fds[n] = OtherFile => p.holds["other"].n = n

\* A BO that is held is in the file of its owner; those that a closed CNA context
\* left behind name one file.
Boxes(p) ==
    /\ \A x \in Names : p.bo[x].h = 0 => p.bo[x] = NoBO
    /\ \A x \in Names : Held(p, x) =>
           /\ IsOpen(p, OwnerOf(x))
           /\ p.bo[x].n = p.holds[OwnerOf(x)].n
           /\ p.bo[x].file = p.holds[OwnerOf(x)].file
           /\ p.gem[p.bo[x].file][p.bo[x].h] = x
    /\ ~IsOpen(p, "cna") => \E f \in NewFiles : \A x \in CnaNames :
           p.bo[x].h # 0 => p.bo[x].file = f

\* The BO behind handle h of an owner's file.
At(p, who, h) == p.gem[p.holds[who].file][h]
FreeHandles(p, who) == {h \in Handles : At(p, who, h) = ""}

Core(p) == p \in States /\ Numbers(p) /\ Owned(p) /\ Boxes(p)

\* The BO behind a handle is its owner's, who remembers it there, unless a call
\* that failed left it.
Remembers(p, who, h) ==
    /\ p.bo[At(p, who, h)].h = h
    /\ p.bo[At(p, who, h)].file = p.holds[who].file
    /\ OwnerOf(At(p, who, h)) = who

Leakless(p) ==
    \A who \in {"c", "mfd"}, h \in Handles :
        IsOpen(p, who) /\ At(p, who, h) \notin {"", Lost} => Remembers(p, who, h)

CnaReady(p) == IsOpen(p, "cna") => \A x \in Working : p.bo[x].h # 0

ExeKnown(p) ==
    /\ p.exe # "with_bos" => \A x \in Activation : p.bo[x].h = 0
    /\ p.exe = "with_bos" => \A x \in Activation : p.bo[x].h # 0
    /\ p.bo[Lost].h = 0
    /\ Leakless(p)

\* Between two calls.
Good(p) == Core(p) /\ CnaReady(p) /\ ExeKnown(p) /\ ~IsOpen(p, "op")

IInv == astray \in BOOLEAN /\ (~astray => Good(proc))

(***************************************************************************)
(* What one step changes.                                                  *)
(***************************************************************************)
\* A finite set of numbers has a least element.  (Order its elements by the set
\* of those below.)
LEMMA MinIs ==
    ASSUME NEW S, S \subseteq Nat, IsFiniteSet(S), S # {}
    PROVE  Min(S) \in S /\ \A y \in S : Min(S) <= y
<1> DEFINE Below(x) == {y \in S : y < x}
           T == {Below(x) : x \in S}
<1>1. T \subseteq FiniteSubsetsOf(S) /\ T # {}
  <2>1. \A x \in S : Below(x) \in SUBSET S /\ IsFiniteSet(Below(x))
    BY FS_Subset
  <2> QED BY <2>1 DEF FiniteSubsetsOf
<1>2. IsWellFoundedOn(StrictSubsetOrdering(S), FiniteSubsetsOf(S))
  BY FS_StrictSubsetOrderingWellFounded
<1>3. PICK B \in T : \A C \in T : ~ (<<C, B>> \in StrictSubsetOrdering(S))
  <2> HIDE DEF T
  <2> QED BY <1>1, <1>2, WFMin
<1>4. PICK x \in S : B = Below(x)
  BY <1>3
<1>5. ASSUME NEW y \in S PROVE x <= y
  <2>1. SUFFICES ASSUME y < x PROVE FALSE
    OBVIOUS
  <2>2. Below(y) \in T
    OBVIOUS
  <2>3. Below(y) \subseteq Below(x) /\ y \in Below(x) /\ y \notin Below(y)
    <3>1. \A z \in S : z < y => z < x
      BY <2>1
    <3>2. ~ (y < y)
      OBVIOUS
    <3> QED BY <2>1, <3>1, <3>2
  <2>4. <<Below(y), Below(x)>> \in StrictSubsetOrdering(S)
    BY <2>3 DEF StrictSubsetOrdering
  <2> QED BY <1>3, <1>4, <2>2, <2>4
<1> QED BY <1>5 DEF Min

\* Numbers that are not numbers.
LEMMA Numerals ==
    /\ Fds \subseteq Nat /\ Handles \subseteq Nat /\ 0 \notin Fds /\ 0 \notin Handles
    /\ Free \notin Fds /\ Free \notin Files /\ OtherFile \notin NewFiles /\ 0 \in Files
    /\ NewFiles \subseteq Files /\ "" \notin Names
    /\ IsFiniteSet(Fds) /\ IsFiniteSet(Handles) /\ NewFiles \subseteq Nat
    /\ IsFiniteSet(NewFiles) /\ Cardinality(NewFiles) = Cardinality(Fds) + 1
    /\ NewFiles # {}
<1>1. Cardinality(Fds) \in Nat
  BY NumberAssumption, FS_CardinalityType
<1>2. IsFiniteSet(NewFiles) /\ Cardinality(NewFiles) = Cardinality(Fds) + 1
  BY <1>1, FS_Interval DEF NewFiles
<1>3. /\ NewFiles \subseteq Nat /\ OtherFile \notin NewFiles /\ Free \notin NewFiles
      /\ NewFiles # {} /\ NewFiles \subseteq Files /\ Free \notin Files /\ 0 \in Files
  BY <1>1 DEF NewFiles, OtherFile, Free, Files
<1>4. Fds \subseteq Nat /\ Handles \subseteq Nat /\ 0 \notin Fds /\ 0 \notin Handles /\ Free \notin Fds
  <2>1. Fds \subseteq Nat \ (0 .. 2) /\ Handles \subseteq Nat \ {0}
    BY NumberAssumption
  <2> QED BY <2>1 DEF Free
<1> QED BY <1>2, <1>3, <1>4, NumberAssumption

\* open(2) on a state that has a free number.
LEMMA TakeIs ==
    ASSUME NEW p \in States, NEW who \in Owners, NEW file \in Files,
           FreeNumbers(p) # {}, NEW q, q = Take(p, who, file),
           NEW n, n = Min(FreeNumbers(p))
    PROVE  /\ n \in FreeNumbers(p)
           /\ q \in States
           /\ q.fds = [p.fds EXCEPT ![n] = file]
           /\ q.holds = [p.holds EXCEPT ![who] = [n |-> n, file |-> file]]
           /\ q.gem = p.gem /\ q.bo = p.bo /\ q.exe = p.exe
<1>1. FreeNumbers(p) \subseteq Fds
  BY DEF FreeNumbers
<1>2. n \in FreeNumbers(p)
  BY <1>1, MinIs, Numerals, FS_Subset
<1>3. q = [p EXCEPT !.fds[n] = file, !.holds[who] = [n |-> n, file |-> file]]
  BY DEF Take, FreeNumbers
<1>4. /\ q.fds = [p.fds EXCEPT ![n] = file]
      /\ q.holds = [p.holds EXCEPT ![who] = [n |-> n, file |-> file]]
      /\ q.gem = p.gem /\ q.bo = p.bo /\ q.exe = p.exe
  BY <1>2, <1>3, <1>1 DEF States
<1>5. n \in Fds /\ [n |-> n, file |-> file] \in [n : Fds \cup {Free}, file : Files]
  BY <1>1, <1>2
<1>6. q.fds \in [Fds -> {Free} \cup Files]
  BY <1>4, <1>5 DEF States
<1>7. q.holds \in [Owners -> [n : Fds \cup {Free}, file : Files]]
  <2>1. p.holds \in [Owners -> [n : Fds \cup {Free}, file : Files]]
    BY DEF States
  <2> QED BY <1>4, <1>5, <2>1
<1>8. q = [fds |-> q.fds, holds |-> q.holds, gem |-> q.gem, bo |-> q.bo, exe |-> q.exe]
  BY <1>3 DEF States
<1>9. q \in States
  BY <1>4, <1>6, <1>7, <1>8 DEF States
<1> QED BY <1>2, <1>4, <1>9

\* close(2) by the owner of a number.
LEMMA CloseIs ==
    ASSUME NEW p \in States, Owned(p), NEW who \in Owners, IsOpen(p, who),
           NEW q, q = Close(p, who)
    PROVE  /\ q \in States
           /\ p.holds[who].n \in Fds
           /\ q.fds = [p.fds EXCEPT ![p.holds[who].n] = Free]
           /\ q.holds = [p.holds EXCEPT ![who] = Closed]
           /\ q.gem = [f \in NewFiles |->
                          IF f = p.holds[who].file THEN NoHandles ELSE p.gem[f]]
           /\ q.bo = p.bo /\ q.exe = p.exe
<1> DEFINE n == p.holds[who].n
           file == p.holds[who].file
<1>1. n \in Fds /\ file \in Files /\ p.fds[n] = file /\ p.fds[n] # Free
  <2>1. p.holds[who] \in [n : Fds \cup {Free}, file : Files]
    BY DEF States
  <2>2. n # Free /\ p.fds[n] = file
    BY DEF IsOpen, Owned
  <2> QED BY <2>1, <2>2, Numerals
<1>2. CloseNumber(p, n) = [p EXCEPT !.fds[n] = Free,
                        !.gem = [f \in NewFiles |-> IF f = file THEN NoHandles ELSE @[f]]]
  BY <1>1 DEF CloseNumber
<1>3. q = [CloseNumber(p, n) EXCEPT !.holds[who] = Closed]
  BY DEF Close
<1> HIDE DEF n, file
<1>4. /\ q.fds = [p.fds EXCEPT ![n] = Free]
      /\ q.holds = [p.holds EXCEPT ![who] = Closed]
      /\ q.gem = [f \in NewFiles |-> IF f = file THEN NoHandles ELSE p.gem[f]]
      /\ q.bo = p.bo /\ q.exe = p.exe
  BY <1>2, <1>3, <1>1 DEF States
<1>5. Closed \in [n : Fds \cup {Free}, file : Files]
  BY Numerals DEF Closed, OtherFile
<1>6. q \in States
  <2>1. q.fds \in [Fds -> {Free} \cup Files]
    BY <1>4 DEF States
  <2>2. q.holds \in [Owners -> [n : Fds \cup {Free}, file : Files]]
    <3>1. p.holds \in [Owners -> [n : Fds \cup {Free}, file : Files]]
      BY DEF States
    <3> QED BY <1>4, <1>5, <3>1
  <2>3. q.gem \in [NewFiles -> [Handles -> Names \cup {""}]]
    <3>1. p.gem \in [NewFiles -> [Handles -> Names \cup {""}]]
      BY DEF States
    <3>2. NoHandles \in [Handles -> Names \cup {""}]
      BY DEF NoHandles
    <3> QED BY <1>4, <3>1, <3>2
  <2>4. q = [fds |-> q.fds, holds |-> q.holds, gem |-> q.gem, bo |-> q.bo, exe |-> q.exe]
    BY <1>2, <1>3 DEF States
  <2> QED BY <1>4, <2>1, <2>2, <2>3, <2>4 DEF States
<1> QED BY <1>1, <1>4, <1>6 DEF n, file

\* Handle h is now x's, and nothing else is new.
IsCreated(p, q, who, x, h) ==
    /\ h \in FreeHandles(p, who)
    /\ q \in States
    /\ q.fds = p.fds /\ q.holds = p.holds /\ q.exe = p.exe
    /\ q.gem = [p.gem EXCEPT ![p.holds[who].file] = [@ EXCEPT ![h] = x]]
    /\ q.bo = [p.bo EXCEPT ![x] = [n |-> p.holds[who].n, h |-> h,
                                   file |-> p.holds[who].file]]

\* MEM_CREATE on an fd of the device, with a handle left.
LEMMA CreateIs ==
    ASSUME NEW p \in States, Owned(p), NEW who \in Owners, IsOpen(p, who), who # "other",
           NEW x \in Names, FreeHandles(p, who) # {}, NEW q, q = Create(p, who, x)
    PROVE  \E h : IsCreated(p, q, who, x, h)
<1>0. PICK h : h = Min(FreeHandles(p, who))
  OBVIOUS
<1> DEFINE n == p.holds[who].n
           file == p.holds[who].file
           b == [n |-> n, h |-> h, file |-> file]
<1>1. /\ n \in Fds /\ p.fds[n] = file /\ file \in NewFiles
  <2>1. p.holds[who] \in [n : Fds \cup {Free}, file : Files]
    BY DEF States
  <2>2. n # Free /\ p.fds[n] = file /\ file # OtherFile
    BY DEF IsOpen, Owned
  <2> QED BY <2>1, <2>2 DEF Files
<1>2. h \in FreeHandles(p, who) /\ \A g \in FreeHandles(p, who) : h <= g
  <2>1. FreeHandles(p, who) \in SUBSET Handles
    BY DEF FreeHandles
  <2>2. FreeHandles(p, who) \subseteq Nat /\ IsFiniteSet(FreeHandles(p, who))
    BY <2>1, Numerals, FS_Subset
  <2> QED BY <1>0, <2>2, MinIs
<1>3. h \in Handles
  BY <1>2 DEF FreeHandles
<1>4. q = [p EXCEPT !.gem[file][h] = x, !.bo[x] = b]
  BY <1>0, <1>1 DEF Create, FileAt, FreeHandles, At
<1>5. b \in [n : Fds \cup {0}, h : Handles \cup {0}, file : Files]
  BY <1>1, <1>3, Numerals
<1> HIDE DEF n, file, b
<1>6. /\ q.fds = p.fds /\ q.holds = p.holds /\ q.exe = p.exe
      /\ q.gem = [p.gem EXCEPT ![file] = [@ EXCEPT ![h] = x]]
      /\ q.bo = [p.bo EXCEPT ![x] = b]
      /\ q = [fds |-> q.fds, holds |-> q.holds, gem |-> q.gem, bo |-> q.bo, exe |-> q.exe]
  BY <1>4, <1>1, <1>3 DEF States
<1>7. q.gem \in [NewFiles -> [Handles -> Names \cup {""}]]
  <2>1. p.gem \in [NewFiles -> [Handles -> Names \cup {""}]]
    BY DEF States
  <2>2. [p.gem[file] EXCEPT ![h] = x] \in [Handles -> Names \cup {""}]
    BY <1>1, <2>1
  <2> QED BY <1>6, <1>1, <2>1, <2>2
<1>8. q.bo \in [Names -> [n : Fds \cup {0}, h : Handles \cup {0}, file : Files]]
  <2>1. p.bo \in [Names -> [n : Fds \cup {0}, h : Handles \cup {0}, file : Files]]
    BY DEF States
  <2> QED BY <1>5, <1>6, <2>1
<1>9. q \in States
  BY <1>6, <1>7, <1>8 DEF States
<1>10. IsCreated(p, q, who, x, h)
  BY <1>2, <1>6, <1>9 DEF IsCreated, n, file, b
<1> QED BY <1>10

LEMMA NoBOIsOne ==
    NoBO \in [n : Fds \cup {0}, h : Handles \cup {0}, file : Files] /\ NoBO.h = 0
  BY Numerals DEF NoBO, OtherFile

\* The memory of the BOs of xs is cleared.
LEMMA ForgetIs ==
    ASSUME NEW p \in States, NEW xs \in SUBSET Names, NEW q, q = Forget(p, xs)
    PROVE  /\ q \in States
           /\ q.fds = p.fds /\ q.holds = p.holds /\ q.gem = p.gem /\ q.exe = p.exe
           /\ q.bo = [x \in Names |-> IF x \in xs THEN NoBO ELSE p.bo[x]]
<1>1. /\ q.fds = p.fds /\ q.holds = p.holds /\ q.gem = p.gem /\ q.exe = p.exe
      /\ q.bo = [x \in Names |-> IF x \in xs THEN NoBO ELSE p.bo[x]]
      /\ q = [fds |-> q.fds, holds |-> q.holds, gem |-> q.gem, bo |-> q.bo, exe |-> q.exe]
  BY DEF States, Forget
<1>2. q.bo \in [Names -> [n : Fds \cup {0}, h : Handles \cup {0}, file : Files]]
  <2>1. p.bo \in [Names -> [n : Fds \cup {0}, h : Handles \cup {0}, file : Files]]
    BY DEF States
  <2> QED BY <1>1, <2>1, NoBOIsOne
<1>3. q \in States
  BY <1>1, <1>2 DEF States
<1> QED BY <1>1, <1>3

Cleared(p, q, xs) == \A f \in NewFiles, h \in Handles :
    q.gem[f][h] = IF <<f, h>> \in Destroyed(p, xs) THEN "" ELSE p.gem[f][h]

\* npu_bo_free of the BOs of xs.
LEMMA FreeAllIs ==
    ASSUME NEW p \in States, NEW xs \in SUBSET Names, NEW q, q = FreeAll(p, xs)
    PROVE  /\ q \in States
           /\ q.fds = p.fds /\ q.holds = p.holds /\ q.exe = p.exe
           /\ Cleared(p, q, xs)
           /\ \A x \in Names : q.bo[x] = IF x \in xs THEN NoBO ELSE p.bo[x]
<1> DEFINE r == Forget(p, xs)
           gem == [f \in NewFiles |-> [h \in Handles |->
                      IF <<f, h>> \in Destroyed(p, xs) THEN "" ELSE p.gem[f][h]]]
<1>1. /\ r \in States
      /\ r.fds = p.fds /\ r.holds = p.holds /\ r.gem = p.gem /\ r.exe = p.exe
      /\ r.bo = [x \in Names |-> IF x \in xs THEN NoBO ELSE p.bo[x]]
  BY ForgetIs
<1>2. q = [r EXCEPT !.gem = gem]
  BY <1>1 DEF FreeAll
<1>3. gem \in [NewFiles -> [Handles -> Names \cup {""}]]
  <2>1. p.gem \in [NewFiles -> [Handles -> Names \cup {""}]]
    BY DEF States
  <2> QED BY <2>1
<1> HIDE DEF r, gem
<1>4. /\ q.fds = r.fds /\ q.holds = r.holds /\ q.gem = gem /\ q.exe = r.exe /\ q.bo = r.bo
      /\ q = [fds |-> q.fds, holds |-> q.holds, gem |-> q.gem, bo |-> q.bo, exe |-> q.exe]
  BY <1>1, <1>2 DEF States
<1>5. q \in States
  BY <1>1, <1>3, <1>4 DEF States
<1>6. Cleared(p, q, xs)
  <2> SUFFICES \A f \in NewFiles, h \in Handles :
                   q.gem[f][h] = IF <<f, h>> \in Destroyed(p, xs) THEN "" ELSE p.gem[f][h]
    BY DEF Cleared
  <2> TAKE f \in NewFiles, h \in Handles
  <2>1. q.gem[f] = [g \in Handles |->
                       IF <<f, g>> \in Destroyed(p, xs) THEN "" ELSE p.gem[f][g]]
    BY <1>4 DEF gem
  <2> QED BY <2>1
<1>7. \A x \in Names : q.bo[x] = IF x \in xs THEN NoBO ELSE p.bo[x]
  BY <1>1, <1>4
<1> QED BY <1>1, <1>4, <1>5, <1>6, <1>7

(***************************************************************************)
(* Each step keeps whose every number is.                                  *)
(***************************************************************************)
\* The types of a state's fields, pointwise.
LEMMA Fields ==
    ASSUME NEW p \in States
    PROVE  /\ \A n \in Fds : p.fds[n] \in {Free} \cup Files
           /\ \A who \in Owners : /\ p.holds[who] \in [n : Fds \cup {Free}, file : Files]
                                  /\ p.holds[who].n \in Fds \cup {Free}
                                  /\ p.holds[who].file \in Files
           /\ \A f \in NewFiles, h \in Handles : p.gem[f][h] \in Names \cup {""}
           /\ \A x \in Names : /\ p.bo[x].n \in Fds \cup {0} /\ p.bo[x].h \in Handles \cup {0}
                               /\ p.bo[x].file \in Files
           /\ p.exe \in {"none", "with_bos", "without"}
<1>1. p.fds \in [Fds -> {Free} \cup Files] /\ p.exe \in {"none", "with_bos", "without"}
  BY DEF States
<1>2. p.holds \in [Owners -> [n : Fds \cup {Free}, file : Files]]
  BY DEF States
<1>3. p.gem \in [NewFiles -> [Handles -> Names \cup {""}]]
  BY DEF States
<1>4. p.bo \in [Names -> [n : Fds \cup {0}, h : Handles \cup {0}, file : Files]]
  BY DEF States
<1>5. /\ \A who \in Owners : /\ p.holds[who] \in [n : Fds \cup {Free}, file : Files]
                             /\ p.holds[who].n \in Fds \cup {Free}
                             /\ p.holds[who].file \in Files
  BY <1>2
<1>6. \A x \in Names : /\ p.bo[x].n \in Fds \cup {0} /\ p.bo[x].h \in Handles \cup {0}
                       /\ p.bo[x].file \in Files
  BY <1>4
<1> QED BY <1>1, <1>3, <1>5, <1>6

\* An owner's number and file are open, are those of the device unless he is the
\* program, and are nobody else's.
LEMMA OwnNumber ==
    ASSUME NEW p \in States, Numbers(p), Owned(p), NEW who \in Owners, IsOpen(p, who)
    PROVE  /\ p.holds[who].n \in Fds /\ p.fds[p.holds[who].n] = p.holds[who].file
           /\ p.holds[who].file \in Files /\ p.holds[who].file # Free
           /\ who # "other" => p.holds[who].file \in NewFiles
           /\ who = "other" => p.holds[who].file = OtherFile
           /\ \A o \in Owners \ {who} : IsOpen(p, o) =>
                 p.holds[o].n # p.holds[who].n /\ p.holds[o].file # p.holds[who].file
<1>1. \A o \in Owners : IsOpen(p, o) =>
         /\ p.holds[o].n \in Fds /\ p.fds[p.holds[o].n] = p.holds[o].file
         /\ p.holds[o].file \in Files /\ p.holds[o].file # Free
  <2> TAKE o \in Owners
  <2> HAVE IsOpen(p, o)
  <2>1. p.holds[o].n \in Fds /\ p.holds[o].file \in Files
    BY Fields DEF IsOpen
  <2> QED BY <2>1, Numerals DEF Owned
<1>2. p.holds[who].file = OtherFile <=> who = "other"
  BY DEF Owned
<1>3. ASSUME NEW o \in Owners \ {who}, IsOpen(p, o)
      PROVE  p.holds[o].n # p.holds[who].n /\ p.holds[o].file # p.holds[who].file
  <2>1. p.holds[o].n # p.holds[who].n
    BY <1>3 DEF Owned
  <2> QED BY <1>1, <1>3, <2>1 DEF Numbers
<1> QED BY <1>1, <1>2, <1>3 DEF Files

LEMMA OwnerIs ==
    /\ \A x \in Names : OwnerOf(x) \in Owners
    /\ \A x \in CnaNames : OwnerOf(x) = "cna"
    /\ \A x \in Names : OwnerOf(x) = "cna" => x \in CnaNames
    /\ \A x \in Cache : OwnerOf(x) = "mfd"
    /\ \A x \in Names : OwnerOf(x) = "mfd" => x \in Cache
    /\ \A x \in Arrays \cup Activation \cup {Lost} : OwnerOf(x) = "c"
    /\ \A x \in Names : OwnerOf(x) = "c" => x \in Arrays \cup Activation \cup {Lost}
    /\ \A x \in Names : OwnerOf(x) \in {"c", "mfd", "cna"}
    /\ CnaNames \subseteq Names /\ Cache \subseteq Names /\ Arrays \subseteq Names
    /\ Activation \subseteq Names /\ Lost \in Names /\ Working \subseteq CnaNames
    /\ Attention \subseteq CnaNames /\ Weights \subseteq CnaNames
    /\ {"c", "mfd", "cna"} \subseteq Owners \ {"op", "other"}
<1>1. Arrays \cap (Activation \cup {Lost} \cup Cache \cup CnaNames) = {}
  BY NumberAssumption
<1>2. Weights \cap (Activation \cup {Lost} \cup Cache \cup Working \cup Attention) = {}
  BY NumberAssumption
<1>3. /\ (Activation \cup {Lost}) \cap Cache = {}
      /\ (Activation \cup {Lost} \cup Cache) \cap (Working \cup Attention) = {}
  BY DEF Activation, Lost, Cache, Working, Attention
<1>4. /\ CnaNames = Working \cup Attention \cup Weights
      /\ Names = Arrays \cup Activation \cup {Lost} \cup Cache \cup CnaNames
  BY DEF CnaNames, Names
<1>5. (Activation \cup {Lost} \cup Cache) \cap CnaNames = {}
  BY <1>2, <1>3, <1>4
<1>6. {"c", "mfd", "cna"} \subseteq Owners \ {"op", "other"}
  BY DEF Owners
<1> QED BY <1>1, <1>3, <1>4, <1>5, <1>6 DEF OwnerOf

Slack(p) == Cardinality(FreeNumbers(p))

\* close(2): nobody else's number, file or BO is touched.
LEMMA CloseCore ==
    ASSUME NEW p, Core(p), NEW who \in Owners, IsOpen(p, who),
           who # "cna" => \A x \in Names : OwnerOf(x) = who => p.bo[x].h = 0,
           NEW q, q = Close(p, who)
    PROVE  /\ Core(q)
           /\ \A o \in Owners : IsOpen(q, o) <=> IsOpen(p, o) /\ o # who
           /\ q.bo = p.bo /\ q.exe = p.exe
           /\ Leakless(p) => Leakless(q)
           /\ Slack(q) = Slack(p) + 1 /\ Slack(p) \in Nat
<1> DEFINE n == p.holds[who].n
           file == p.holds[who].file
<1>1. p \in States /\ Numbers(p) /\ Owned(p) /\ Boxes(p)
  BY DEF Core
<1>2. /\ q \in States /\ q.bo = p.bo /\ q.exe = p.exe
      /\ q.fds = [p.fds EXCEPT ![n] = Free]
      /\ q.holds = [p.holds EXCEPT ![who] = Closed]
      /\ q.gem = [f \in NewFiles |-> IF f = file THEN NoHandles ELSE p.gem[f]]
  BY <1>1, CloseIs
<1>3. /\ n \in Fds /\ p.fds[n] = file /\ file \in Files /\ file # Free
      /\ who # "other" => file \in NewFiles
      /\ who = "other" => file = OtherFile
      /\ \A o \in Owners \ {who} : IsOpen(p, o) => p.holds[o].n # n /\ p.holds[o].file # file
  BY <1>1, OwnNumber
<1>4. /\ \A m \in Fds : q.fds[m] = IF m = n THEN Free ELSE p.fds[m]
      /\ \A o \in Owners : q.holds[o] = IF o = who THEN Closed ELSE p.holds[o]
  <2>1. p.fds \in [Fds -> {Free} \cup Files]
    BY <1>1 DEF States
  <2>2. p.holds \in [Owners -> [n : Fds \cup {Free}, file : Files]]
    BY <1>1 DEF States
  <2> QED BY <1>2, <2>1, <2>2
<1>5. \A f \in NewFiles, h \in Handles : q.gem[f][h] = IF f = file THEN "" ELSE p.gem[f][h]
  <2> TAKE f \in NewFiles, h \in Handles
  <2>1. q.gem[f] = IF f = file THEN NoHandles ELSE p.gem[f]
    BY <1>2
  <2>2. NoHandles[h] = ""
    BY DEF NoHandles
  <2> QED BY <2>1, <2>2
<1> HIDE DEF n, file
<1>6. \A o \in Owners : IsOpen(q, o) <=> IsOpen(p, o) /\ o # who
  BY <1>4 DEF IsOpen, Closed
<1>7. Numbers(q)
  <2>1. \A a, b \in Fds : q.fds[a] = q.fds[b] => a = b \/ q.fds[a] = Free
    BY <1>1, <1>4 DEF Numbers
  <2>2. ASSUME NEW f \in NewFiles, \A m \in Fds : q.fds[m] # f, NEW h \in Handles
        PROVE  q.gem[f][h] = ""
    <3>1. CASE f = file
      BY <3>1, <1>5
    <3>2. CASE f # file
      <4>1. \A m \in Fds : p.fds[m] # f
        BY <2>2, <3>2, <1>3, <1>4
      <4>2. p.gem[f][h] = ""
        BY <4>1, <1>1 DEF Numbers
      <4> QED BY <4>2, <3>2, <1>5
    <3> QED BY <3>1, <3>2
  <2> QED BY <2>1, <2>2 DEF Numbers
<1>8. Owned(q)
  <2>1. ASSUME NEW o \in Owners, IsOpen(q, o)
        PROVE  /\ q.fds[q.holds[o].n] = q.holds[o].file
               /\ q.holds[o].file = OtherFile <=> o = "other"
    <3>1. IsOpen(p, o) /\ o # who /\ q.holds[o] = p.holds[o]
      BY <2>1, <1>6, <1>4
    <3>2. /\ p.holds[o].n # n /\ p.holds[o].n \in Fds
          /\ p.fds[p.holds[o].n] = p.holds[o].file
          /\ p.holds[o].file = OtherFile <=> o = "other"
      BY <3>1, <1>1, <1>3, OwnNumber DEF Owned
    <3> QED BY <3>1, <3>2, <1>4
  <2>2. ASSUME NEW a \in Owners, NEW b \in Owners, IsOpen(q, a), IsOpen(q, b),
               q.holds[a].n = q.holds[b].n
        PROVE  a = b
    BY <2>2, <1>1, <1>4, <1>6 DEF Owned
  <2>3. ASSUME NEW m \in Fds, q.fds[m] = OtherFile PROVE q.holds["other"].n = m
    <3>1. m # n /\ p.fds[m] = OtherFile
      BY <2>3, <1>4, Numerals DEF Files
    <3>2. p.holds["other"].n = m
      BY <3>1, <1>1 DEF Owned
    <3>3. who # "other"
      BY <3>1, <3>2 DEF n
    <3> QED BY <3>2, <3>3, <1>4 DEF Owners
  <2> QED BY <2>1, <2>2, <2>3 DEF Owned
<1>9. ASSUME NEW x \in Names, Held(q, x)
      PROVE  Held(p, x) /\ OwnerOf(x) # who /\ OwnerOf(x) \in Owners
  <2>1. Held(p, x)
    BY <1>9, <1>2, <1>6 DEF Held, Owners
  <2>2. OwnerOf(x) # who
    BY <1>9, <1>2, <1>6, OwnerIs DEF Held
  <2> QED BY <2>1, <2>2, OwnerIs
<1>10. Boxes(q)
  <2>1. \A x \in Names : q.bo[x].h = 0 => q.bo[x] = NoBO
    BY <1>1, <1>2 DEF Boxes
  <2>2. ASSUME NEW x \in Names, Held(q, x)
        PROVE  /\ IsOpen(q, OwnerOf(x))
               /\ q.bo[x].n = q.holds[OwnerOf(x)].n
               /\ q.bo[x].file = q.holds[OwnerOf(x)].file
               /\ q.gem[q.bo[x].file][q.bo[x].h] = x
    <3> DEFINE o == OwnerOf(x)
    <3>1. Held(p, x) /\ o # who /\ o \in Owners /\ o # "other"
      BY <2>2, <1>9, OwnerIs
    <3>2. /\ IsOpen(p, o) /\ p.bo[x].n = p.holds[o].n /\ p.bo[x].file = p.holds[o].file
          /\ p.gem[p.bo[x].file][p.bo[x].h] = x
      BY <3>1, <1>1 DEF Boxes
    <3> HIDE DEF o
    <3>3. p.holds[o].file \in NewFiles /\ p.holds[o].file # file
      BY <3>1, <3>2, <1>1, <1>3, OwnNumber
    <3>4. p.bo[x].h \in Handles
      BY <3>1, <1>1, Fields DEF Held
    <3>5. IsOpen(q, o) /\ q.holds[o] = p.holds[o]
      BY <3>1, <3>2, <1>4, <1>6
    <3>6. q.gem[p.bo[x].file][p.bo[x].h] = x
      BY <3>2, <3>3, <3>4, <1>5
    <3> QED BY <1>2, <3>2, <3>5, <3>6 DEF o
  <2>3. ASSUME ~IsOpen(q, "cna")
        PROVE  \E f \in NewFiles : \A x \in CnaNames : q.bo[x].h # 0 => q.bo[x].file = f
    <3>1. CASE IsOpen(p, "cna")
      <4>1. who = "cna" /\ file \in NewFiles
        BY <2>3, <3>1, <1>3, <1>6 DEF Owners
      <4>2. ASSUME NEW x \in CnaNames, p.bo[x].h # 0 PROVE p.bo[x].file = file
        <5>1. Held(p, x) /\ OwnerOf(x) = "cna" /\ x \in Names
          BY <3>1, <4>2, OwnerIs DEF Held
        <5> QED BY <5>1, <4>1, <1>1 DEF Boxes, file
      <4> QED BY <4>1, <4>2, <1>2
    <3>2. CASE ~IsOpen(p, "cna")
      BY <3>2, <1>1, <1>2 DEF Boxes
    <3> QED BY <3>1, <3>2
  <2> QED BY <2>1, <2>2, <2>3 DEF Boxes
<1>11. \A o \in Owners \ {"other"}, h \in Handles : IsOpen(q, o) =>
          /\ q.holds[o] = p.holds[o] /\ IsOpen(p, o)
          /\ At(q, o, h) = At(p, o, h)
  <2> TAKE o \in Owners \ {"other"}, h \in Handles
  <2> HAVE IsOpen(q, o)
  <2>1. IsOpen(p, o) /\ o # who /\ q.holds[o] = p.holds[o]
    BY <1>4, <1>6
  <2>2. p.holds[o].file \in NewFiles /\ p.holds[o].file # file
    BY <2>1, <1>1, <1>3, OwnNumber
  <2> QED BY <2>1, <2>2, <1>5 DEF At
<1>13. Leakless(p) => Leakless(q)
  <2> HAVE Leakless(p)
  <2>1. ASSUME NEW o \in {"c", "mfd"}, NEW h \in Handles, IsOpen(q, o),
               At(q, o, h) \notin {"", Lost}
        PROVE  Remembers(q, o, h)
    <3>1. o \in Owners \ {"other"}
      BY DEF Owners
    <3>2. q.holds[o] = p.holds[o] /\ IsOpen(p, o) /\ At(q, o, h) = At(p, o, h)
      BY <2>1, <3>1, <1>11
    <3>3. Remembers(p, o, h)
      BY <3>2, <2>1 DEF Leakless
    <3> QED BY <3>2, <3>3, <1>2 DEF Remembers
  <2> QED BY <2>1 DEF Leakless
<1>14. Slack(q) = Slack(p) + 1 /\ Slack(p) \in Nat
  <2>1. FreeNumbers(q) = FreeNumbers(p) \cup {n} /\ n \notin FreeNumbers(p)
    BY <1>3, <1>4 DEF FreeNumbers
  <2>2. IsFiniteSet(FreeNumbers(p))
    BY Numerals, FS_Subset DEF FreeNumbers
  <2> QED BY <2>1, <2>2, FS_AddElement, FS_CardinalityType DEF Slack
<1> QED BY <1>2, <1>6, <1>7, <1>8, <1>10, <1>13, <1>14 DEF Core

\* open(2) of a file that nobody knows: the new owner's number is his own.
LEMMA TakeCore ==
    ASSUME NEW p, Core(p), NEW who \in Owners, ~IsOpen(p, who), Slack(p) > 0,
           who = "cna" => \A x \in CnaNames : p.bo[x].h = 0,
           NEW file \in Files, file = OtherFile <=> who = "other",
           \A n \in Fds : p.fds[n] # file,
           NEW q, q = Take(p, who, file)
    PROVE  /\ Core(q)
           /\ \A o \in Owners : IsOpen(q, o) <=> IsOpen(p, o) \/ o = who
           /\ q.bo = p.bo /\ q.exe = p.exe
           /\ Leakless(p) => Leakless(q)
           /\ who # "other" => FreeHandles(q, who) = Handles
           /\ Slack(q) = Slack(p) - 1 /\ Slack(p) \in Nat
<1>1. p \in States /\ Numbers(p) /\ Owned(p) /\ Boxes(p)
  BY DEF Core
<1>2. FreeNumbers(p) \subseteq Fds /\ IsFiniteSet(FreeNumbers(p)) /\ FreeNumbers(p) # {}
  <2>1. FreeNumbers(p) \subseteq Fds /\ IsFiniteSet(FreeNumbers(p))
    BY Numerals, FS_Subset DEF FreeNumbers
  <2> QED BY <2>1, FS_EmptySet DEF Slack
<1> DEFINE n == Min(FreeNumbers(p))
<1>3. /\ n \in FreeNumbers(p)
      /\ q \in States
      /\ q.fds = [p.fds EXCEPT ![n] = file]
      /\ q.holds = [p.holds EXCEPT ![who] = [n |-> n, file |-> file]]
      /\ q.gem = p.gem /\ q.bo = p.bo /\ q.exe = p.exe
  BY <1>1, <1>2, TakeIs
<1> HIDE DEF n
<1>4. n \in Fds /\ p.fds[n] = Free /\ n # Free
  BY <1>3, Numerals DEF FreeNumbers
<1>5. /\ \A m \in Fds : q.fds[m] = IF m = n THEN file ELSE p.fds[m]
      /\ \A o \in Owners : q.holds[o] = IF o = who THEN [n |-> n, file |-> file]
                                                   ELSE p.holds[o]
  <2>1. p.fds \in [Fds -> {Free} \cup Files]
    BY <1>1 DEF States
  <2>2. p.holds \in [Owners -> [n : Fds \cup {Free}, file : Files]]
    BY <1>1 DEF States
  <2> QED BY <1>3, <2>1, <2>2
<1>6. \A o \in Owners : IsOpen(q, o) <=> IsOpen(p, o) \/ o = who
  BY <1>4, <1>5 DEF IsOpen
<1>7. \A o \in Owners : IsOpen(p, o) =>
         /\ o # who /\ q.holds[o] = p.holds[o] /\ p.holds[o].n \in Fds
         /\ p.holds[o].n # n /\ p.fds[p.holds[o].n] = p.holds[o].file
  <2> TAKE o \in Owners
  <2> HAVE IsOpen(p, o)
  <2>1. /\ p.holds[o].n \in Fds /\ p.fds[p.holds[o].n] = p.holds[o].file
        /\ p.holds[o].file # Free
    BY <1>1, OwnNumber
  <2> QED BY <2>1, <1>4, <1>5
<1>8. Numbers(q)
  <2>1. ASSUME NEW a \in Fds, NEW b \in Fds, q.fds[a] = q.fds[b], a # b
        PROVE  q.fds[a] = Free
    <3>1. a # n /\ b # n
      BY <2>1, <1>5
    <3> QED BY <2>1, <3>1, <1>5, <1>1 DEF Numbers
  <2>2. ASSUME NEW f \in NewFiles, \A m \in Fds : q.fds[m] # f, NEW h \in Handles
        PROVE  q.gem[f][h] = ""
    <3>1. \A m \in Fds : p.fds[m] # f
      BY <2>2, <1>4, <1>5, Numerals
    <3>2. p.gem[f][h] = ""
      BY <3>1, <1>1 DEF Numbers
    <3> QED BY <3>2, <1>3
  <2> QED BY <2>1, <2>2 DEF Numbers
<1>9. Owned(q)
  <2>1. ASSUME NEW o \in Owners, IsOpen(q, o)
        PROVE  /\ q.fds[q.holds[o].n] = q.holds[o].file
               /\ q.holds[o].file = OtherFile <=> o = "other"
    <3>1. CASE o = who
      BY <3>1, <1>4, <1>5
    <3>2. CASE o # who
      <4>1. IsOpen(p, o)
        BY <2>1, <3>2, <1>6
      <4>2. p.holds[o].file = OtherFile <=> o = "other"
        BY <4>1, <1>1 DEF Owned
      <4> QED BY <4>1, <4>2, <1>5, <1>7
    <3> QED BY <3>1, <3>2
  <2>2. ASSUME NEW a \in Owners, NEW b \in Owners, IsOpen(q, a), IsOpen(q, b),
               q.holds[a].n = q.holds[b].n
        PROVE  a = b
    BY <2>2, <1>1, <1>5, <1>6, <1>7 DEF Owned
  <2>3. ASSUME NEW m \in Fds, q.fds[m] = OtherFile PROVE q.holds["other"].n = m
    <3>1. CASE m = n
      <4>1. file = OtherFile /\ who = "other"
        BY <3>1, <2>3, <1>5
      <4> QED BY <4>1, <3>1, <1>5
    <3>2. CASE m # n
      <4>1. p.fds[m] = OtherFile
        BY <3>2, <2>3, <1>5
      <4>2. p.holds["other"].n = m /\ m # Free
        BY <4>1, <1>1, Numerals DEF Owned
      <4>3. IsOpen(p, "other")
        BY <4>2 DEF IsOpen
      <4> QED BY <4>2, <4>3, <1>7 DEF Owners
    <3> QED BY <3>1, <3>2
  <2> QED BY <2>1, <2>2, <2>3 DEF Owned
<1>10. Boxes(q)
  <2>1. \A x \in Names : q.bo[x].h = 0 => q.bo[x] = NoBO
    BY <1>1, <1>3 DEF Boxes
  <2>2. ASSUME NEW x \in Names, Held(q, x)
        PROVE  /\ IsOpen(q, OwnerOf(x))
               /\ q.bo[x].n = q.holds[OwnerOf(x)].n
               /\ q.bo[x].file = q.holds[OwnerOf(x)].file
               /\ q.gem[q.bo[x].file][q.bo[x].h] = x
    <3>1. Held(p, x)
      BY <2>2, <1>3, <1>6 DEF Held, Owners
    <3>2. /\ IsOpen(p, OwnerOf(x)) /\ p.bo[x].n = p.holds[OwnerOf(x)].n
          /\ p.bo[x].file = p.holds[OwnerOf(x)].file
          /\ p.gem[p.bo[x].file][p.bo[x].h] = x
      BY <3>1, <1>1 DEF Boxes
    <3>3. IsOpen(q, OwnerOf(x)) /\ q.holds[OwnerOf(x)] = p.holds[OwnerOf(x)]
      BY <3>2, <1>6, <1>7, OwnerIs
    <3> QED BY <3>2, <3>3, <1>3
  <2>3. ASSUME ~IsOpen(q, "cna")
        PROVE  \E f \in NewFiles : \A x \in CnaNames : q.bo[x].h # 0 => q.bo[x].file = f
    <3>1. ~IsOpen(p, "cna")
      BY <2>3, <1>6 DEF Owners
    <3> QED BY <3>1, <1>1, <1>3 DEF Boxes
  <2> QED BY <2>1, <2>2, <2>3 DEF Boxes
<1>11. \A o \in Owners, h \in Handles : IsOpen(p, o) => At(q, o, h) = At(p, o, h)
  BY <1>3, <1>7 DEF At
<1>12. who # "other" => \A h \in Handles : At(q, who, h) = ""
  <2> HAVE who # "other"
  <2>1. file \in NewFiles
    BY DEF Files
  <2>2. \A h \in Handles : p.gem[file][h] = ""
    BY <2>1, <1>1 DEF Numbers
  <2>3. q.holds[who].file = file
    BY <1>5
  <2> QED BY <2>2, <2>3, <1>3 DEF At
<1>14. Leakless(p) => Leakless(q)
  <2> HAVE Leakless(p)
  <2>1. ASSUME NEW o \in {"c", "mfd"}, NEW h \in Handles, IsOpen(q, o),
               At(q, o, h) \notin {"", Lost}
        PROVE  Remembers(q, o, h)
    <3>1. o \in Owners \ {"other"}
      BY DEF Owners
    <3>2. o # who
      BY <2>1, <3>1, <1>12
    <3>3. IsOpen(p, o) /\ q.holds[o] = p.holds[o] /\ At(q, o, h) = At(p, o, h)
      BY <2>1, <3>1, <3>2, <1>6, <1>7, <1>11
    <3>4. Remembers(p, o, h)
      BY <3>3, <2>1 DEF Leakless
    <3> QED BY <3>3, <3>4, <1>3 DEF Remembers
  <2> QED BY <2>1 DEF Leakless
<1>15. Slack(q) = Slack(p) - 1 /\ Slack(p) \in Nat
  <2>1. FreeNumbers(q) = FreeNumbers(p) \ {n}
    BY <1>4, <1>5, Numerals DEF FreeNumbers
  <2> QED BY <2>1, <1>2, <1>3, FS_RemoveElement, FS_CardinalityType DEF Slack
<1>16. who # "other" => FreeHandles(q, who) = Handles
  BY <1>12 DEF FreeHandles
<1> QED BY <1>3, <1>6, <1>8, <1>9, <1>10, <1>14, <1>15, <1>16 DEF Core

\* There is a file that nobody knows: while a number is free fewer files than
\* numbers are open, and a closed CNA context remembers one more.
LEMMA Fresh ==
    ASSUME NEW p, Core(p), Slack(p) > 0
    PROVE  \E f \in NewFiles : f \notin Known(p)
<1>1. p \in States /\ Numbers(p) /\ Owned(p) /\ Boxes(p)
  BY DEF Core
<1>2. PICK a \in Fds : p.fds[a] = Free
  BY FS_EmptySet DEF Slack, FreeNumbers
<1> DEFINE HasNumber(f) == \E n \in Fds : p.fds[n] = f
<1>3. \E s : \A x \in Names : p.bo[x].file \in NewFiles =>
         HasNumber(p.bo[x].file) \/ p.bo[x].file = s
  <2>1. ASSUME NEW x \in Names, p.bo[x].file \in NewFiles
        PROVE  HasNumber(p.bo[x].file) \/ (x \in CnaNames /\ ~IsOpen(p, "cna") /\ p.bo[x].h # 0)
    <3>1. p.bo[x].h # 0
      <4>1. NoBO.file \notin NewFiles
        BY Numerals DEF NoBO
      <4> QED BY <4>1, <2>1, <1>1 DEF Boxes
    <3>2. CASE Held(p, x)
      <4>1. /\ OwnerOf(x) \in Owners /\ IsOpen(p, OwnerOf(x))
            /\ p.bo[x].file = p.holds[OwnerOf(x)].file
        BY <3>2, <1>1, OwnerIs DEF Boxes
      <4> QED BY <4>1, <1>1, OwnNumber
    <3> QED BY <3>1, <3>2 DEF Held
  <2>2. CASE IsOpen(p, "cna")
    BY <2>1, <2>2
  <2>3. CASE ~IsOpen(p, "cna")
    <3>1. PICK s \in NewFiles : \A x \in CnaNames : p.bo[x].h # 0 => p.bo[x].file = s
      BY <2>3, <1>1 DEF Boxes
    <3> QED BY <2>1, <3>1
  <2> QED BY <2>2, <2>3
<1>4. PICK s : \A x \in Names : p.bo[x].file \in NewFiles =>
          HasNumber(p.bo[x].file) \/ p.bo[x].file = s
  BY <1>3
<1>5. SUFFICES ASSUME NewFiles \subseteq Known(p) PROVE FALSE
  OBVIOUS
<1>6. \A f \in NewFiles : HasNumber(f) \/ f = s
  <2> TAKE f \in NewFiles
  <2>1. f \in Range(p.fds) \/ \E x \in Names : p.bo[x].file = f
    BY <1>5 DEF Known
  <2>2. DOMAIN p.fds = Fds
    BY <1>1 DEF States
  <2>3. f \in Range(p.fds) => HasNumber(f)
    BY <2>2 DEF Range
  <2> QED BY <2>1, <2>3, <1>4
<1> DEFINE Numbered == (Fds \ {a}) \cup {0}
           at == [f \in NewFiles |-> IF HasNumber(f) THEN CHOOSE n \in Fds : p.fds[n] = f ELSE 0]
<1>7. \A f \in NewFiles : IF HasNumber(f) THEN at[f] \in Fds \ {a} /\ p.fds[at[f]] = f
                                      ELSE at[f] = 0
  BY <1>2, Numerals
<1> HIDE DEF at
<1>8. at \in Injection(NewFiles, Numbered)
  <2>1. at \in [NewFiles -> Numbered]
    <3>1. \A f \in NewFiles : at[f] \in Numbered
      BY <1>7
    <3> QED BY <3>1 DEF at
  <2>2. ASSUME NEW f \in NewFiles, NEW g \in NewFiles, at[f] = at[g] PROVE f = g
    <3>1. CASE at[f] = 0
      <4>1. ~HasNumber(f) /\ ~HasNumber(g)
        BY <3>1, <2>2, <1>7, Numerals
      <4> QED BY <4>1, <1>6
    <3>2. CASE at[f] # 0
      <4>1. HasNumber(f) /\ HasNumber(g)
        BY <3>2, <2>2, <1>7
      <4> QED BY <4>1, <2>2, <1>7
    <3> QED BY <3>1, <3>2
  <2> QED BY <2>1, <2>2 DEF Injection, IsInjective
<1>9. IsFiniteSet(Numbered) /\ Cardinality(Numbered) = Cardinality(Fds)
  <2>1. IsFiniteSet(Fds \ {a}) /\ Cardinality(Fds \ {a}) = Cardinality(Fds) - 1
    BY Numerals, FS_RemoveElement
  <2>2. 0 \notin Fds \ {a} /\ Cardinality(Fds) \in Nat
    BY Numerals, FS_CardinalityType
  <2>3. /\ IsFiniteSet((Fds \ {a}) \cup {0})
        /\ Cardinality((Fds \ {a}) \cup {0}) = Cardinality(Fds \ {a}) + 1
    BY <2>1, <2>2, FS_AddElement
  <2> QED BY <2>1, <2>2, <2>3
<1>10. Cardinality(NewFiles) <= Cardinality(Numbered)
  <2> HIDE DEF Numbered
  <2> QED BY <1>8, <1>9, FS_Injection
<1>11. Cardinality(Fds) \in Nat /\ Cardinality(NewFiles) = Cardinality(Fds) + 1
  BY Numerals, FS_CardinalityType
<1> HIDE DEF Numbered
<1> QED BY <1>9, <1>10, <1>11

\* open(2) of the device.
LEMMA OpenCore ==
    ASSUME NEW p, Core(p), NEW who \in Owners \ {"other"}, ~IsOpen(p, who), Slack(p) > 0,
           who = "cna" => \A x \in CnaNames : p.bo[x].h = 0,
           NEW q, q = Open(p, who)
    PROVE  /\ Core(q)
           /\ \A o \in Owners : IsOpen(q, o) <=> IsOpen(p, o) \/ o = who
           /\ q.bo = p.bo /\ q.exe = p.exe
           /\ Leakless(p) => Leakless(q)
           /\ FreeHandles(q, who) = Handles
           /\ Slack(q) = Slack(p) - 1 /\ Slack(p) \in Nat
<1> DEFINE file == Min(NewFiles \ Known(p))
<1>1. file \in NewFiles /\ file \notin Known(p)
  <2>1. NewFiles \ Known(p) \subseteq Nat /\ NewFiles \ Known(p) # {}
    BY Fresh, Numerals
  <2>2. IsFiniteSet(NewFiles \ Known(p))
    BY Numerals, FS_Subset
  <2> QED BY <2>1, <2>2, MinIs
<1>2. q = Take(p, who, file)
  BY DEF Open
<1> HIDE DEF file
<1>3. file \in Files /\ (file = OtherFile <=> who = "other")
  BY <1>1, Numerals
<1>4. \A n \in Fds : p.fds[n] # file
  <2>1. DOMAIN p.fds = Fds
    BY DEF Core, States
  <2> QED BY <1>1, <2>1 DEF Known, Range
<1> QED BY <1>2, <1>3, <1>4, TakeCore

Room(p, who) == Cardinality(FreeHandles(p, who))

\* MEM_CREATE for a name, in the file of its owner.
LEMMA CreateCore ==
    ASSUME NEW p, Core(p), NEW x \in Names, NEW who, who = OwnerOf(x), IsOpen(p, who),
           Room(p, who) > 0,
           NEW q, q = Create(p, who, x)
    PROVE  /\ Core(q)
           /\ \A o \in Owners : IsOpen(q, o) <=> IsOpen(p, o)
           /\ \A y \in Names \ {x} : q.bo[y] = p.bo[y]
           /\ q.bo[x].h # 0 /\ q.exe = p.exe
           /\ Leakless(p) /\ (p.bo[x].h = 0 \/ who = "cna") => Leakless(q)
           /\ Slack(q) = Slack(p)
           /\ Room(q, who) = Room(p, who) - 1 /\ Room(p, who) \in Nat
<1>1. p \in States /\ Numbers(p) /\ Owned(p) /\ Boxes(p)
  BY DEF Core
<1>2. who \in Owners /\ who # "other" /\ who \in {"c", "mfd", "cna"}
  BY OwnerIs DEF Owners
<1>3. FreeHandles(p, who) \subseteq Handles /\ IsFiniteSet(FreeHandles(p, who))
  BY Numerals, FS_Subset DEF FreeHandles
<1>4. FreeHandles(p, who) # {}
  BY <1>3, FS_EmptySet DEF Room
<1>0. PICK h : IsCreated(p, q, who, x, h)
  BY <1>1, <1>2, <1>4, CreateIs
<1> DEFINE n == p.holds[who].n
           file == p.holds[who].file
           b == [n |-> n, h |-> h, file |-> file]
<1>5. /\ h \in FreeHandles(p, who) /\ q \in States
      /\ q.fds = p.fds /\ q.holds = p.holds /\ q.exe = p.exe
      /\ q.gem = [p.gem EXCEPT ![file] = [@ EXCEPT ![h] = x]]
      /\ q.bo = [p.bo EXCEPT ![x] = b]
  BY <1>0 DEF IsCreated
<1>6. /\ n \in Fds /\ p.fds[n] = file /\ file \in NewFiles
      /\ \A o \in Owners \ {who} : IsOpen(p, o) => p.holds[o].n # n /\ p.holds[o].file # file
  BY <1>1, <1>2, OwnNumber
<1> HIDE DEF n, file
<1>7. h \in Handles /\ h # 0 /\ At(p, who, h) = "" /\ x # ""
  BY <1>5, Numerals DEF FreeHandles
<1>8. b.n = n /\ b.h = h /\ b.file = file
  OBVIOUS
<1> HIDE DEF b
<1>9. /\ \A y \in Names \ {x} : q.bo[y] = p.bo[y]
      /\ q.bo[x].n = n /\ q.bo[x].h = h /\ q.bo[x].file = file
  <2>1. p.bo \in [Names -> [n : Fds \cup {0}, h : Handles \cup {0}, file : Files]]
    BY <1>1 DEF States
  <2> QED BY <1>5, <1>8, <2>1
<1>10. \A f \in NewFiles, g \in Handles :
          q.gem[f][g] = IF f = file /\ g = h THEN x ELSE p.gem[f][g]
  <2>1. p.gem \in [NewFiles -> [Handles -> Names \cup {""}]]
    BY <1>1 DEF States
  <2> TAKE f \in NewFiles, g \in Handles
  <2>2. q.gem[f] = IF f = file THEN [p.gem[f] EXCEPT ![h] = x] ELSE p.gem[f]
    BY <1>5, <1>6, <2>1
  <2>3. p.gem[f] \in [Handles -> Names \cup {""}]
    BY <2>1
  <2> QED BY <2>2, <2>3
<1>11. \A o \in Owners : q.holds[o] = p.holds[o] /\ (IsOpen(q, o) <=> IsOpen(p, o))
  BY <1>5 DEF IsOpen
<1>12. \A o \in Owners \ {"other"}, g \in Handles : IsOpen(p, o) =>
          At(q, o, g) = IF o = who /\ g = h THEN x ELSE At(p, o, g)
  <2> TAKE o \in Owners \ {"other"}, g \in Handles
  <2> HAVE IsOpen(p, o)
  <2>1. p.holds[o].file \in NewFiles
    BY <1>1, OwnNumber
  <2>2. p.holds[o].file = file <=> o = who
    BY <1>6 DEF file
  <2> QED BY <2>1, <2>2, <1>10, <1>11 DEF At
<1>13. Numbers(q)
  <2>1. ASSUME NEW f \in NewFiles, \A m \in Fds : q.fds[m] # f, NEW g \in Handles
        PROVE  q.gem[f][g] = ""
    <3>1. f # file /\ \A m \in Fds : p.fds[m] # f
      BY <2>1, <1>5, <1>6
    <3>2. p.gem[f][g] = ""
      BY <3>1, <1>1 DEF Numbers
    <3> QED BY <3>1, <3>2, <1>10
  <2>2. \A a, c \in Fds : p.fds[a] = p.fds[c] => a = c \/ p.fds[a] = Free
    BY <1>1 DEF Numbers
  <2>3. \A a, c \in Fds : q.fds[a] = q.fds[c] => a = c \/ q.fds[a] = Free
    BY <2>2, <1>5
  <2> QED BY <2>1, <2>3 DEF Numbers
<1>14. Owned(q)
  BY <1>1, <1>5 DEF Owned, IsOpen
<1>15. \A y \in Names : Held(q, y) =>
          /\ IsOpen(p, OwnerOf(y)) /\ q.bo[y].n = p.holds[OwnerOf(y)].n
          /\ q.bo[y].file = p.holds[OwnerOf(y)].file
          /\ q.gem[q.bo[y].file][q.bo[y].h] = y
  <2> TAKE y \in Names
  <2> HAVE Held(q, y)
  <2>1. CASE y = x
    BY <2>1, <1>6, <1>7, <1>9, <1>10 DEF n, file
  <2>2. CASE y # x
    <3>1. Held(p, y) /\ q.bo[y] = p.bo[y]
      BY <2>2, <1>9, <1>11 DEF Held, Owners
    <3>2. /\ IsOpen(p, OwnerOf(y)) /\ p.bo[y].n = p.holds[OwnerOf(y)].n
          /\ p.bo[y].file = p.holds[OwnerOf(y)].file
          /\ p.gem[p.bo[y].file][p.bo[y].h] = y
      BY <3>1, <1>1 DEF Boxes
    <3>3. p.bo[y].h \in Handles /\ p.bo[y].file \in NewFiles
      <4>1. p.bo[y].h \in Handles
        BY <3>1, <1>1, Fields DEF Held
      <4>2. OwnerOf(y) \in Owners /\ OwnerOf(y) # "other"
        BY OwnerIs
      <4> QED BY <4>1, <4>2, <3>2, <1>1, OwnNumber
    <3>4. ~(p.bo[y].file = file /\ p.bo[y].h = h)
      BY <3>2, <1>7, Numerals DEF At, file
    <3> QED BY <3>1, <3>2, <3>3, <3>4, <1>10
  <2> QED BY <2>1, <2>2
<1>16. Boxes(q)
  <2>1. \A y \in Names : q.bo[y].h = 0 => q.bo[y] = NoBO
    BY <1>1, <1>7, <1>9 DEF Boxes
  <2>2. ASSUME NEW y \in Names, Held(q, y)
        PROVE  /\ IsOpen(q, OwnerOf(y)) /\ q.bo[y].n = q.holds[OwnerOf(y)].n
               /\ q.bo[y].file = q.holds[OwnerOf(y)].file
               /\ q.gem[q.bo[y].file][q.bo[y].h] = y
    BY <2>2, <1>11, <1>15, OwnerIs
  <2>3. ASSUME ~IsOpen(q, "cna")
        PROVE  \E f \in NewFiles : \A y \in CnaNames : q.bo[y].h # 0 => q.bo[y].file = f
    <3>1. ~IsOpen(p, "cna") /\ x \notin CnaNames
      BY <2>3, <1>11, OwnerIs DEF Owners
    <3>2. \A y \in CnaNames : q.bo[y] = p.bo[y]
      BY <3>1, <1>9, OwnerIs
    <3> QED BY <3>1, <3>2, <1>1 DEF Boxes
  <2> QED BY <2>1, <2>2, <2>3 DEF Boxes
<1>18. Leakless(p) /\ (p.bo[x].h = 0 \/ who = "cna") => Leakless(q)
  <2> SUFFICES ASSUME Leakless(p), p.bo[x].h = 0 \/ who = "cna",
                      NEW o \in {"c", "mfd"}, NEW g \in Handles, IsOpen(q, o),
                      At(q, o, g) \notin {"", Lost}
               PROVE  Remembers(q, o, g)
    BY DEF Leakless
  <2>1. o \in Owners \ {"other"} /\ o # "cna"
    BY DEF Owners
  <2>2. IsOpen(p, o) /\ q.holds[o] = p.holds[o]
    BY <2>1, <1>11
  <2>3. CASE o = who /\ g = h
    <3>1. At(q, o, g) = x
      BY <2>1, <2>2, <2>3, <1>12
    <3> QED BY <3>1, <2>2, <2>3, <1>9 DEF file, Remembers
  <2>4. CASE ~(o = who /\ g = h)
    <3>1. At(q, o, g) = At(p, o, g)
      BY <2>1, <2>2, <2>4, <1>12
    <3>2. Remembers(p, o, g)
      BY <3>1, <2>2 DEF Leakless
    <3>3. At(p, o, g) \in Names
      <4>1. p.holds[o].file \in NewFiles
        BY <2>1, <2>2, <1>1, OwnNumber
      <4>2. At(p, o, g) \in Names \cup {""}
        BY <4>1, <1>1, Fields DEF At
      <4> QED BY <4>2, <3>1
    <3>4. At(p, o, g) # x
      <4>1. SUFFICES ASSUME At(p, o, g) = x PROVE FALSE
        OBVIOUS
      <4>2. p.bo[x].h # 0
        BY <4>1, <3>2, Numerals DEF Remembers
      <4> QED BY <4>1, <4>2, <3>2, <2>1 DEF Remembers
    <3> QED BY <3>1, <3>2, <3>3, <3>4, <2>2, <1>9 DEF Remembers
  <2> QED BY <2>3, <2>4
<1>19. Slack(q) = Slack(p)
  BY <1>5 DEF Slack, FreeNumbers
<1>20. Room(q, who) = Room(p, who) - 1 /\ Room(p, who) \in Nat
  <2>1. FreeHandles(q, who) = FreeHandles(p, who) \ {h}
    BY <1>2, <1>7, <1>12 DEF FreeHandles
  <2> QED BY <2>1, <1>3, <1>5, FS_RemoveElement, FS_CardinalityType DEF Room
<1> QED BY <1>5, <1>7, <1>9, <1>11, <1>13, <1>14, <1>16, <1>18, <1>19, <1>20 DEF Core

LEMMA SameOwners ==
    ASSUME NEW p, Owned(p), NEW q, q.fds = p.fds, q.holds = p.holds
    PROVE  Owned(q)
  BY DEF Owned, IsOpen

\* A cleared memory: nothing that is still held changes.
LEMMA ForgetCore ==
    ASSUME NEW p, Core(p), NEW xs \in SUBSET Names, NEW q, q = Forget(p, xs)
    PROVE  /\ Core(q)
           /\ \A o \in Owners : IsOpen(q, o) <=> IsOpen(p, o)
           /\ \A y \in Names : q.bo[y] = IF y \in xs THEN NoBO ELSE p.bo[y]
           /\ q.exe = p.exe
           /\ /\ Leakless(p)
              /\ \A x \in xs \ {Lost} : OwnerOf(x) \in {"c", "mfd"} => p.bo[x].h = 0
              => Leakless(q)
           /\ Slack(q) = Slack(p)
<1>1. p \in States /\ Numbers(p) /\ Owned(p) /\ Boxes(p)
  BY DEF Core
<1>2. /\ q \in States
      /\ q.fds = p.fds /\ q.holds = p.holds /\ q.gem = p.gem /\ q.exe = p.exe
      /\ q.bo = [x \in Names |-> IF x \in xs THEN NoBO ELSE p.bo[x]]
  BY <1>1, ForgetIs
<1>3. \A y \in Names : q.bo[y] = IF y \in xs THEN NoBO ELSE p.bo[y]
  BY <1>2
<1>4. \A o \in Owners : IsOpen(q, o) <=> IsOpen(p, o)
  BY <1>2 DEF IsOpen
<1>5. Numbers(q) /\ Owned(q)
  <2>1. Numbers(q)
    BY <1>1, <1>2 DEF Numbers
  <2> QED BY <2>1, <1>1, <1>2, SameOwners
<1>7. Boxes(q)
  <2>1. \A y \in Names : q.bo[y].h = 0 => q.bo[y] = NoBO
    BY <1>1, <1>3 DEF Boxes
  <2>2. \A y \in Names : q.bo[y].h # 0 => y \notin xs /\ q.bo[y] = p.bo[y]
    BY <1>3, NoBOIsOne
  <2>3. ASSUME NEW y \in Names, Held(q, y)
        PROVE  /\ IsOpen(q, OwnerOf(y)) /\ q.bo[y].n = q.holds[OwnerOf(y)].n
               /\ q.bo[y].file = q.holds[OwnerOf(y)].file
               /\ q.gem[q.bo[y].file][q.bo[y].h] = y
    <3>1. Held(p, y) /\ q.bo[y] = p.bo[y]
      BY <2>2, <2>3, <1>4 DEF Held, Owners
    <3> QED BY <3>1, <1>1, <1>2, <1>4, OwnerIs DEF Boxes
  <2>4. ASSUME ~IsOpen(q, "cna")
        PROVE  \E f \in NewFiles : \A y \in CnaNames : q.bo[y].h # 0 => q.bo[y].file = f
    <3>1. ~IsOpen(p, "cna")
      BY <2>4, <1>4 DEF Owners
    <3>2. PICK f \in NewFiles : \A y \in CnaNames : p.bo[y].h # 0 => p.bo[y].file = f
      BY <3>1, <1>1 DEF Boxes
    <3> QED BY <3>2, <2>2, OwnerIs
  <2> QED BY <2>1, <2>3, <2>4 DEF Boxes
<1>8. ASSUME Leakless(p),
             \A x \in xs \ {Lost} : OwnerOf(x) \in {"c", "mfd"} => p.bo[x].h = 0
      PROVE  Leakless(q)
  <2> SUFFICES ASSUME NEW o \in {"c", "mfd"}, NEW h \in Handles, IsOpen(q, o),
                      At(q, o, h) \notin {"", Lost}
               PROVE  Remembers(q, o, h)
    BY DEF Leakless
  <2>1. o \in Owners \ {"other"}
    BY DEF Owners
  <2>2. IsOpen(p, o) /\ q.holds[o] = p.holds[o] /\ At(q, o, h) = At(p, o, h)
    BY <2>1, <1>2, <1>4 DEF At
  <2>3. Remembers(p, o, h)
    BY <2>2, <1>8 DEF Leakless
  <2>4. At(p, o, h) \in Names
    <3>1. p.holds[o].file \in NewFiles
      BY <2>1, <2>2, <1>1, OwnNumber
    <3>2. At(p, o, h) \in Names \cup {""}
      BY <3>1, <1>1, Fields DEF At
    <3> QED BY <3>2, <2>2
  <2>5. At(p, o, h) \notin xs
    BY <2>2, <2>3, <1>8, Numerals DEF Remembers
  <2> QED BY <2>2, <2>3, <2>4, <2>5, <1>3 DEF Remembers
<1>9. Slack(q) = Slack(p)
  BY <1>2 DEF Slack, FreeNumbers
<1> QED BY <1>2, <1>3, <1>4, <1>5, <1>7, <1>8, <1>9 DEF Core

\* MEM_DESTROY of BOs of the plugin: their handles and nobody else's are free.
LEMMA FreeAllCore ==
    ASSUME NEW p, Core(p), NEW xs \in SUBSET Names, xs \cap CnaNames = {},
           NEW q, q = FreeAll(p, xs)
    PROVE  /\ Core(q)
           /\ \A o \in Owners : IsOpen(q, o) <=> IsOpen(p, o)
           /\ \A y \in Names : q.bo[y] = IF y \in xs THEN NoBO ELSE p.bo[y]
           /\ q.exe = p.exe
           /\ Leakless(p) => Leakless(q)
           /\ Slack(q) = Slack(p)
<1>1. p \in States /\ Numbers(p) /\ Owned(p) /\ Boxes(p)
  BY DEF Core
<1>2. /\ q \in States
      /\ q.fds = p.fds /\ q.holds = p.holds /\ q.exe = p.exe
      /\ Cleared(p, q, xs)
      /\ \A x \in Names : q.bo[x] = IF x \in xs THEN NoBO ELSE p.bo[x]
  BY <1>1, FreeAllIs
<1>3. \A y \in Names : q.bo[y] = IF y \in xs THEN NoBO ELSE p.bo[y]
  BY <1>2
<1>4. \A o \in Owners : q.holds[o] = p.holds[o] /\ (IsOpen(q, o) <=> IsOpen(p, o))
  BY <1>2 DEF IsOpen
<1>5. \A f \in NewFiles, h \in Handles :
         q.gem[f][h] = IF <<f, h>> \in Destroyed(p, xs) THEN "" ELSE p.gem[f][h]
  BY <1>2 DEF Cleared
<1>6. \A x \in xs : p.bo[x].h # 0 =>
         /\ OwnerOf(x) \in {"c", "mfd"} /\ IsOpen(p, OwnerOf(x))
         /\ FileAt(p, p.bo[x].n) = p.bo[x].file
         /\ p.bo[x].file = p.holds[OwnerOf(x)].file /\ p.bo[x].file \in NewFiles
         /\ p.gem[p.bo[x].file][p.bo[x].h] = x
  <2> TAKE x \in xs
  <2> HAVE p.bo[x].h # 0
  <2>1. Held(p, x) /\ OwnerOf(x) \in {"c", "mfd"} /\ OwnerOf(x) \in Owners
    BY OwnerIs DEF Held
  <2>2. /\ IsOpen(p, OwnerOf(x)) /\ p.bo[x].n = p.holds[OwnerOf(x)].n
        /\ p.bo[x].file = p.holds[OwnerOf(x)].file
        /\ p.gem[p.bo[x].file][p.bo[x].h] = x
    BY <2>1, <1>1 DEF Boxes
  <2>3. /\ p.holds[OwnerOf(x)].n \in Fds /\ p.holds[OwnerOf(x)].file \in NewFiles
        /\ p.fds[p.holds[OwnerOf(x)].n] = p.holds[OwnerOf(x)].file
    BY <2>1, <2>2, <1>1, OwnNumber
  <2> QED BY <2>1, <2>2, <2>3 DEF FileAt
<1>7. \A f \in NewFiles, h \in Handles : <<f, h>> \in Destroyed(p, xs) =>
         /\ p.gem[f][h] \in xs
         /\ \E o \in {"c", "mfd"} : IsOpen(p, o) /\ p.holds[o].file = f
  <2> TAKE f \in NewFiles, h \in Handles
  <2> HAVE <<f, h>> \in Destroyed(p, xs)
  <2>1. PICK x \in xs : p.bo[x].h = h /\ FileAt(p, p.bo[x].n) = f
    BY DEF Destroyed
  <2>2. /\ OwnerOf(x) \in {"c", "mfd"} /\ IsOpen(p, OwnerOf(x))
        /\ FileAt(p, p.bo[x].n) = p.bo[x].file
        /\ p.bo[x].file = p.holds[OwnerOf(x)].file /\ p.gem[p.bo[x].file][p.bo[x].h] = x
    BY <2>1, <1>6, Numerals
  <2> QED BY <2>1, <2>2
<1>8. Numbers(q)
  <2>1. \A a, c \in Fds : q.fds[a] = q.fds[c] => a = c \/ q.fds[a] = Free
    <3>1. \A a, c \in Fds : p.fds[a] = p.fds[c] => a = c \/ p.fds[a] = Free
      BY <1>1 DEF Numbers
    <3>2. q.fds = p.fds
      BY <1>2
    <3> QED BY <3>1, <3>2
  <2>2. ASSUME NEW f \in NewFiles, \A m \in Fds : q.fds[m] # f, NEW h \in Handles
        PROVE  q.gem[f][h] = ""
    <3>1. p.gem[f][h] = ""
      BY <2>2, <1>1, <1>2 DEF Numbers
    <3> QED BY <3>1, <1>5
  <2> QED BY <2>1, <2>2 DEF Numbers
<1>9. Owned(q)
  BY <1>1, <1>2, SameOwners
<1>10. Boxes(q)
  <2>1. \A y \in Names : q.bo[y].h = 0 => q.bo[y] = NoBO
    BY <1>1, <1>3 DEF Boxes
  <2>2. \A y \in Names : q.bo[y].h # 0 => y \notin xs /\ q.bo[y] = p.bo[y]
    BY <1>3, NoBOIsOne
  <2>3. ASSUME NEW y \in Names, Held(q, y)
        PROVE  /\ IsOpen(q, OwnerOf(y)) /\ q.bo[y].n = q.holds[OwnerOf(y)].n
               /\ q.bo[y].file = q.holds[OwnerOf(y)].file
               /\ q.gem[q.bo[y].file][q.bo[y].h] = y
    <3>1. Held(p, y) /\ q.bo[y] = p.bo[y] /\ y \notin xs
      BY <2>2, <2>3, <1>4 DEF Held, Owners
    <3>2. /\ IsOpen(p, OwnerOf(y)) /\ p.bo[y].n = p.holds[OwnerOf(y)].n
          /\ p.bo[y].file = p.holds[OwnerOf(y)].file
          /\ p.gem[p.bo[y].file][p.bo[y].h] = y
      BY <3>1, <1>1 DEF Boxes
    <3>3. p.bo[y].h \in Handles
      BY <3>1, <1>1, Fields DEF Held
    <3>4. p.bo[y].file \in NewFiles
      <4>1. OwnerOf(y) \in Owners /\ OwnerOf(y) # "other"
        BY OwnerIs
      <4> QED BY <4>1, <3>2, <1>1, OwnNumber
    <3>5. q.gem[p.bo[y].file][p.bo[y].h] = y
      BY <3>1, <3>2, <3>3, <3>4, <1>5, <1>7
    <3> QED BY <3>1, <3>2, <3>5, <1>2, <1>4, OwnerIs
  <2>4. ASSUME ~IsOpen(q, "cna")
        PROVE  \E f \in NewFiles : \A y \in CnaNames : q.bo[y].h # 0 => q.bo[y].file = f
    <3>1. ~IsOpen(p, "cna")
      BY <2>4, <1>4 DEF Owners
    <3>2. PICK f \in NewFiles : \A y \in CnaNames : p.bo[y].h # 0 => p.bo[y].file = f
      BY <3>1, <1>1 DEF Boxes
    <3> QED BY <3>2, <2>2, OwnerIs
  <2> QED BY <2>1, <2>3, <2>4 DEF Boxes
<1>12. ASSUME Leakless(p) PROVE Leakless(q)
  <2> SUFFICES ASSUME NEW o \in {"c", "mfd"}, NEW h \in Handles, IsOpen(q, o),
                      At(q, o, h) \notin {"", Lost}
               PROVE  Remembers(q, o, h)
    BY DEF Leakless
  <2>1. o \in Owners \ {"other"}
    BY DEF Owners
  <2>2. IsOpen(p, o) /\ q.holds[o] = p.holds[o]
    BY <2>1, <1>2, <1>4
  <2>3. p.holds[o].file \in NewFiles
    BY <2>1, <2>2, <1>1, OwnNumber
  <2>4. At(q, o, h) = At(p, o, h) /\ <<p.holds[o].file, h>> \notin Destroyed(p, xs)
    BY <2>2, <2>3, <1>5 DEF At
  <2>5. Remembers(p, o, h)
    BY <2>2, <2>4, <1>12 DEF Leakless
  <2>6. At(p, o, h) \in Names
    <3>1. At(p, o, h) \in Names \cup {""}
      BY <2>3, <1>1, Fields DEF At
    <3> QED BY <3>1, <2>4
  <2>7. At(p, o, h) \notin xs
    <3>1. SUFFICES ASSUME NEW x \in xs, x = At(p, o, h) PROVE FALSE
      OBVIOUS
    <3>2. p.bo[x].h = h /\ p.bo[x].file = p.holds[o].file
      BY <3>1, <2>5 DEF Remembers
    <3>3. FileAt(p, p.bo[x].n) = p.holds[o].file
      BY <3>2, <1>6, Numerals
    <3> QED BY <3>2, <3>3, <2>4 DEF Destroyed
  <2> QED BY <2>2, <2>4, <2>5, <2>6, <2>7, <1>3 DEF Remembers
<1>13. Slack(q) = Slack(p)
  BY <1>2 DEF Slack, FreeNumbers
<1> QED BY <1>2, <1>3, <1>4, <1>8, <1>9, <1>10, <1>12, <1>13 DEF Core

(***************************************************************************)
(* The functions of the plugin and of cna_matmul.c.                        *)
(***************************************************************************)
LEMMA FourHandles ==
    /\ Cardinality(Handles) \in Nat /\ Cardinality(Handles) >= 4
    /\ \A p, who : FreeHandles(p, who) = Handles => Room(p, who) >= 4
<1> DEFINE A == {"rc"}
           B == A \cup {"tk"}
           C == B \cup {"in"}
<1>1. IsFiniteSet(A) /\ Cardinality(A) = 1
  BY FS_Singleton
<1>2. IsFiniteSet(B) /\ Cardinality(B) = 2
  BY <1>1, FS_AddElement
<1>3. IsFiniteSet(C) /\ Cardinality(C) = 3
  <2>1. "in" \notin B
    OBVIOUS
  <2> HIDE DEF B
  <2> QED BY <1>2, <2>1, FS_AddElement
<1>4. Cardinality(C \cup {"out"}) = 4
  <2>1. "out" \notin C
    OBVIOUS
  <2> HIDE DEF C
  <2> QED BY <1>3, <2>1, FS_AddElement
<1>5. Working = C \cup {"out"}
  BY DEF Working
<1>6. Cardinality(Handles) >= Cardinality(Working) /\ Cardinality(Handles) \in Nat
  BY NumberAssumption, FS_CardinalityType
<1> HIDE DEF C
<1> QED BY <1>4, <1>5, <1>6 DEF Room

\* What a closed owner of the plugin remembers: nothing.
LEMMA ClosedKnowsNothing ==
    ASSUME NEW p, Core(p), NEW x \in Names, x \notin CnaNames, ~IsOpen(p, OwnerOf(x))
    PROVE  p.bo[x].h = 0
  BY DEF Core, Boxes, Held

\* BOs for the names xs of who, and nothing else.
Created(p, q, who, xs) ==
    /\ Core(q)
    /\ \A o \in Owners : IsOpen(q, o) <=> IsOpen(p, o)
    /\ \A z \in Names \ xs : q.bo[z] = p.bo[z]
    /\ \A x \in xs : q.bo[x].h # 0
    /\ q.exe = p.exe
    /\ Leakless(p) /\ (who = "cna" \/ \A x \in xs : p.bo[x].h = 0) => Leakless(q)
    /\ Slack(q) = Slack(p)
Took(p, q, who, k) == Room(q, who) = Room(p, who) - k

LEMMA CreateOne ==
    ASSUME NEW p, Core(p), NEW x \in Names,
           NEW who, who = OwnerOf(x), IsOpen(p, who), Room(p, who) > 0,
           NEW q, q = Create(p, who, x)
    PROVE  Created(p, q, who, {x}) /\ Took(p, q, who, 1)
<1>1. Core(q) /\ \A o \in Owners : IsOpen(q, o) <=> IsOpen(p, o)
  BY CreateCore
<1>2. \A z \in Names \ {x} : q.bo[z] = p.bo[z]
  BY CreateCore
<1>3. q.bo[x].h # 0 /\ q.exe = p.exe
  BY CreateCore
<1>4. Leakless(p) /\ (p.bo[x].h = 0 \/ who = "cna") => Leakless(q)
  BY CreateCore
<1>5. Slack(q) = Slack(p)
  BY CreateCore
<1>6. Room(q, who) = Room(p, who) - 1
  BY CreateCore
<1> QED BY <1>1, <1>2, <1>3, <1>4, <1>5, <1>6 DEF Created, Took

LEMMA RoomIsNat == ASSUME NEW p, NEW who PROVE Room(p, who) \in Nat
  BY Numerals, FS_Subset, FS_CardinalityType DEF Room, FreeHandles

LEMMA CreateBoth ==
    ASSUME NEW p, Core(p), NEW x \in Names, NEW y \in Names, x # y,
           NEW who, who = OwnerOf(x), who = OwnerOf(y), IsOpen(p, who), Room(p, who) >= 2,
           NEW q, q = CreateTwo(p, who, x, y)
    PROVE  Created(p, q, who, {x, y}) /\ Room(q, who) = Room(p, who) - 2
<1> DEFINE r == Create(p, who, x)
<1>0. r = Create(p, who, x) /\ q = Create(r, who, y)
  BY DEF CreateTwo
<1> HIDE DEF r
<1>1. Room(p, who) \in Nat /\ Room(r, who) \in Nat
  BY RoomIsNat
<1>2. Created(p, r, who, {x}) /\ Room(r, who) = Room(p, who) - 1
  <2>1. Room(p, who) > 0
    BY <1>1
  <2>2. r = Create(p, who, x)
    BY <1>0
  <2>3. Created(p, r, who, {x}) /\ Took(p, r, who, 1)
    BY <2>1, <2>2, CreateOne
  <2> QED BY <2>3 DEF Took
<1>3. Created(r, q, who, {y}) /\ Room(q, who) = Room(r, who) - 1
  <2>1. Core(r) /\ IsOpen(r, who) /\ Room(r, who) > 0
    <3>1. who \in Owners
      BY OwnerIs
    <3>2. Core(r) /\ IsOpen(r, who)
      BY <1>2, <3>1 DEF Created
    <3> QED BY <1>1, <1>2, <3>2
  <2>2. Created(r, q, who, {y}) /\ Took(r, q, who, 1)
    BY <1>0, <2>1, CreateOne
  <2> QED BY <2>2 DEF Took
<1>4. Created(p, q, who, {x, y})
  <2>1. Core(q) /\ q.exe = p.exe /\ Slack(q) = Slack(p)
    BY <1>2, <1>3 DEF Created
  <2>2. \A o \in Owners : IsOpen(q, o) <=> IsOpen(p, o)
    BY <1>2, <1>3 DEF Created
  <2>3. \A z \in Names : /\ z # x => r.bo[z] = p.bo[z]
                         /\ z # y => q.bo[z] = r.bo[z]
    BY <1>2, <1>3 DEF Created
  <2>4. r.bo[x].h # 0 /\ q.bo[y].h # 0
    BY <1>2, <1>3 DEF Created
  <2>5. \A z \in Names \ {x, y} : q.bo[z] = p.bo[z]
    BY <2>3
  <2>6. \A z \in {x, y} : q.bo[z].h # 0
    BY <2>3, <2>4
  <2>7. Leakless(p) /\ (who = "cna" \/ \A z \in {x, y} : p.bo[z].h = 0) => Leakless(q)
    <3>1. Leakless(p) /\ (who = "cna" \/ p.bo[x].h = 0) => Leakless(r)
      BY <1>2 DEF Created
    <3>2. Leakless(r) /\ (who = "cna" \/ r.bo[y].h = 0) => Leakless(q)
      BY <1>3 DEF Created
    <3> QED BY <2>3, <3>1, <3>2
  <2> QED BY <2>1, <2>2, <2>5, <2>6, <2>7 DEF Created
<1> QED BY <1>1, <1>2, <1>3, <1>4

\* npu_mm_cache_close.
LEMMA CacheCloseCore ==
    ASSUME NEW p, Core(p), NEW q, q = CacheClose(p)
    PROVE  /\ Core(q)
           /\ \A o \in Owners : IsOpen(q, o) <=> IsOpen(p, o) /\ o # "mfd"
           /\ \A x \in Names \ Cache : q.bo[x] = p.bo[x]
           /\ q.exe = p.exe
           /\ Leakless(p) => Leakless(q)
           /\ Slack(q) >= Slack(p) /\ Slack(q) \in Nat /\ Slack(p) \in Nat
<1>1. Slack(p) \in Nat
  BY Numerals, FS_Subset, FS_CardinalityType DEF Slack, FreeNumbers
<1>2. CASE ~IsOpen(p, "mfd")
  BY <1>1, <1>2 DEF CacheClose
<1>3. CASE IsOpen(p, "mfd")
  <2> DEFINE r == FreeAll(p, Cache)
  <2>1. /\ Core(r)
        /\ \A o \in Owners : IsOpen(r, o) <=> IsOpen(p, o)
        /\ \A y \in Names : r.bo[y] = IF y \in Cache THEN NoBO ELSE p.bo[y]
        /\ r.exe = p.exe
        /\ Leakless(p) => Leakless(r)
        /\ Slack(r) = Slack(p)
    <3>1. Cache \in SUBSET Names /\ Cache \cap CnaNames = {}
      BY OwnerIs
    <3>2. r = FreeAll(p, Cache)
      OBVIOUS
    <3> HIDE DEF r
    <3> QED BY <3>1, <3>2, FreeAllCore
  <2>2. q = Close(r, "mfd")
    BY <1>3 DEF CacheClose
  <2> HIDE DEF r
  <2>3. "mfd" \in Owners /\ IsOpen(r, "mfd") /\ "mfd" # "cna"
    BY <2>1, <1>3 DEF Owners
  <2>4. \A x \in Names : OwnerOf(x) = "mfd" => r.bo[x].h = 0
    BY <2>1, OwnerIs, NoBOIsOne
  <2>5. /\ Core(q)
        /\ \A o \in Owners : IsOpen(q, o) <=> IsOpen(r, o) /\ o # "mfd"
        /\ q.bo = r.bo /\ q.exe = r.exe
        /\ Leakless(r) => Leakless(q)
        /\ Slack(q) = Slack(r) + 1
    BY <2>1, <2>2, <2>3, <2>4, CloseCore
  <2> QED BY <1>1, <2>1, <2>5
<1> QED BY <1>2, <1>3

\* npu_mm_cache_setup.
LEMMA CacheSetupCore ==
    ASSUME NEW p, Core(p), ~IsOpen(p, "mfd"), Slack(p) > 0, NEW q, q = CacheSetup(p)
    PROVE  /\ Core(q)
           /\ \A o \in Owners : IsOpen(q, o) <=> IsOpen(p, o) \/ o = "mfd"
           /\ \A x \in Names \ Cache : q.bo[x] = p.bo[x]
           /\ q.exe = p.exe
           /\ Leakless(p) => Leakless(q)
           /\ Slack(q) = Slack(p) - 1 /\ Slack(p) \in Nat
<1> DEFINE r == Open(p, "mfd")
<1>1. /\ Core(r)
      /\ \A o \in Owners : IsOpen(r, o) <=> IsOpen(p, o) \/ o = "mfd"
      /\ r.bo = p.bo /\ r.exe = p.exe
      /\ Leakless(p) => Leakless(r)
      /\ FreeHandles(r, "mfd") = Handles
      /\ Slack(r) = Slack(p) - 1 /\ Slack(p) \in Nat
  <2>1. "mfd" \in Owners \ {"other"} /\ "mfd" # "cna"
    BY DEF Owners
  <2>2. r = Open(p, "mfd")
    OBVIOUS
  <2> HIDE DEF r
  <2> QED BY <2>1, <2>2, OpenCore
<1>2. q = CreateTwo(r, "mfd", "kernel", "slots")
  BY DEF CacheSetup
<1> HIDE DEF r
<1>3. /\ Cache = {"kernel", "slots"} /\ "kernel" # "slots"
      /\ Cache \subseteq Names
      /\ OwnerOf("kernel") = "mfd" /\ OwnerOf("slots") = "mfd"
  <2>1. Cache = {"kernel", "slots"}
    BY DEF Cache
  <2> QED BY <2>1, OwnerIs
<1>4. r.bo["kernel"].h = 0 /\ r.bo["slots"].h = 0
  <2>1. \A x \in Cache : x \in Names /\ x \notin CnaNames /\ OwnerOf(x) = "mfd"
    BY OwnerIs
  <2> QED BY <2>1, <1>1, <1>3, ClosedKnowsNothing
<1>5. IsOpen(r, "mfd") /\ Room(r, "mfd") >= 2
  <2>1. Room(r, "mfd") >= 4 /\ Room(r, "mfd") \in Nat
    BY <1>1, FourHandles DEF Room
  <2> QED BY <2>1, <1>1 DEF Owners
<1>6. Created(r, q, "mfd", {"kernel", "slots"})
  <2>1. "kernel" \in Names /\ "slots" \in Names
    BY <1>3
  <2>2. Core(r) /\ IsOpen(r, "mfd") /\ Room(r, "mfd") >= 2
    BY <1>1, <1>5
  <2> QED BY <1>2, <1>3, <2>1, <2>2, CreateBoth
<1>7. /\ Core(q)
      /\ \A o \in Owners : IsOpen(q, o) <=> IsOpen(r, o)
      /\ \A z \in Names \ {"kernel", "slots"} : q.bo[z] = r.bo[z]
      /\ q.exe = r.exe
      /\ Leakless(r) => Leakless(q)
      /\ Slack(q) = Slack(r)
  BY <1>4, <1>6 DEF Created
<1> QED BY <1>1, <1>3, <1>7

\* cna_init: the context is open, with its working BOs.
LEMMA CnaInitCore ==
    ASSUME NEW p, Core(p), IsOpen(p, "cna") \/ Slack(p) > 0, NEW q, q = CnaInit(p)
    PROVE  /\ Core(q)
           /\ \A o \in Owners : IsOpen(q, o) <=> IsOpen(p, o) \/ o = "cna"
           /\ \A x \in Names \ CnaNames : q.bo[x] = p.bo[x]
           /\ \A x \in Working : q.bo[x].h # 0
           /\ q.exe = p.exe
           /\ Leakless(p) => Leakless(q)
<1>0. "cna" \in Owners \ {"other"}
  BY DEF Owners
<1> DEFINE closed == IF IsOpen(p, "cna") THEN Close(p, "cna") ELSE p
           cleared == Forget(closed, CnaNames)
           opened == Open(cleared, "cna")
           half == CreateTwo(opened, "cna", "rc", "tk")
<1>1. q = CreateTwo(half, "cna", "in", "out")
  BY DEF CnaInit
<1>2. /\ Core(closed)
      /\ \A o \in Owners : IsOpen(closed, o) <=> IsOpen(p, o) /\ o # "cna"
      /\ closed.bo = p.bo /\ closed.exe = p.exe
      /\ Leakless(p) => Leakless(closed)
      /\ Slack(closed) > 0
  <2>1. CASE IsOpen(p, "cna")
    <3> DEFINE r == Close(p, "cna")
    <3>1. closed = r /\ r = Close(p, "cna")
      BY <2>1
    <3> HIDE DEF closed, r
    <3>2. /\ Core(r)
          /\ \A o \in Owners : IsOpen(r, o) <=> IsOpen(p, o) /\ o # "cna"
          /\ r.bo = p.bo /\ r.exe = p.exe
          /\ Leakless(p) => Leakless(r)
          /\ Slack(r) = Slack(p) + 1 /\ Slack(p) \in Nat
      BY <2>1, <3>1, <1>0, CloseCore
    <3> QED BY <3>1, <3>2
  <2>2. CASE ~IsOpen(p, "cna")
    BY <2>2
  <2> QED BY <2>1, <2>2
<1> HIDE DEF closed
<1>3. /\ Core(cleared)
      /\ \A o \in Owners : IsOpen(cleared, o) <=> IsOpen(closed, o)
      /\ \A y \in Names : cleared.bo[y] = IF y \in CnaNames THEN NoBO ELSE closed.bo[y]
      /\ cleared.exe = closed.exe
      /\ Leakless(closed) => Leakless(cleared)
      /\ Slack(cleared) = Slack(closed)
  <2>1. CnaNames \in SUBSET Names /\ \A x \in CnaNames : OwnerOf(x) \notin {"c", "mfd"}
    BY OwnerIs
  <2>2. cleared = Forget(closed, CnaNames)
    OBVIOUS
  <2> HIDE DEF cleared
  <2> QED BY <1>2, <2>1, <2>2, ForgetCore
<1> HIDE DEF cleared
<1>4. /\ Core(opened)
      /\ \A o \in Owners : IsOpen(opened, o) <=> IsOpen(cleared, o) \/ o = "cna"
      /\ opened.bo = cleared.bo /\ opened.exe = cleared.exe
      /\ Leakless(cleared) => Leakless(opened)
      /\ FreeHandles(opened, "cna") = Handles
  <2>1. ~IsOpen(cleared, "cna") /\ Slack(cleared) > 0
    BY <1>0, <1>2, <1>3
  <2>2. \A x \in CnaNames : cleared.bo[x].h = 0
    BY <1>3, OwnerIs, NoBOIsOne
  <2>3. opened = Open(cleared, "cna")
    OBVIOUS
  <2> HIDE DEF opened
  <2> QED BY <1>0, <1>3, <2>1, <2>2, <2>3, OpenCore
<1> HIDE DEF opened
<1>5. /\ Working = {"rc", "tk", "in", "out"} /\ Working \subseteq Names
      /\ \A x \in Working : OwnerOf(x) = "cna"
      /\ "rc" # "tk" /\ "in" # "out" /\ {"rc", "tk"} \cap {"in", "out"} = {}
  <2>1. Working = {"rc", "tk", "in", "out"}
    BY DEF Working
  <2> QED BY <2>1, OwnerIs
<1>6. Room(opened, "cna") >= 4 /\ Room(opened, "cna") \in Nat
  BY <1>4, FourHandles DEF Room
<1>7. Created(opened, half, "cna", {"rc", "tk"}) /\ Room(half, "cna") = Room(opened, "cna") - 2
  <2>1. half = CreateTwo(opened, "cna", "rc", "tk")
    OBVIOUS
  <2> HIDE DEF half
  <2>2. Core(opened) /\ IsOpen(opened, "cna") /\ Room(opened, "cna") >= 2
    BY <1>0, <1>4, <1>6
  <2>3. /\ "rc" \in Names /\ "tk" \in Names
        /\ "cna" = OwnerOf("rc") /\ "cna" = OwnerOf("tk")
    BY <1>5
  <2> QED BY <1>5, <2>1, <2>2, <2>3, CreateBoth
<1> HIDE DEF half
<1>8. Created(half, q, "cna", {"in", "out"})
  <2>1. Core(half) /\ IsOpen(half, "cna")
    BY <1>0, <1>4, <1>7 DEF Created
  <2>2. Room(half, "cna") >= 2
    BY <1>6, <1>7
  <2>3. /\ "in" \in Names /\ "out" \in Names
        /\ "cna" = OwnerOf("in") /\ "cna" = OwnerOf("out")
    BY <1>5
  <2> QED BY <1>1, <1>5, <2>1, <2>2, <2>3, CreateBoth
<1>9. /\ Core(q) /\ q.exe = opened.exe
      /\ \A o \in Owners : IsOpen(q, o) <=> IsOpen(opened, o)
      /\ Leakless(opened) => Leakless(q)
  BY <1>7, <1>8 DEF Created
<1>10. /\ \A z \in Names \ {"rc", "tk"} : half.bo[z] = opened.bo[z]
       /\ \A z \in Names \ {"in", "out"} : q.bo[z] = half.bo[z]
       /\ half.bo["rc"].h # 0 /\ half.bo["tk"].h # 0
       /\ q.bo["in"].h # 0 /\ q.bo["out"].h # 0
  BY <1>7, <1>8 DEF Created
<1>11. \A x \in Working : q.bo[x].h # 0
  BY <1>5, <1>10
<1>12. \A x \in Names \ CnaNames : q.bo[x] = p.bo[x]
  <2>1. \A x \in Names \ CnaNames : opened.bo[x] = p.bo[x]
    BY <1>2, <1>3, <1>4
  <2>2. \A x \in Names \ CnaNames : x \notin Working
    BY OwnerIs
  <2> QED BY <1>5, <1>10, <2>1, <2>2
<1>13. \A o \in Owners : IsOpen(q, o) <=> IsOpen(p, o) \/ o = "cna"
  BY <1>2, <1>3, <1>4, <1>9
<1> QED BY <1>2, <1>3, <1>4, <1>9, <1>11, <1>12, <1>13

\* close(2) of what is no open fd does nothing.
LEMMA StrayIs ==
    ASSUME NEW p, NEW n, ~Hits(p, n)
    PROVE  CloseNumber(p, n) = p /\ StackFree(p, n) = p
<1>1. n \notin Fds \/ p.fds[n] = Free
  BY DEF Hits, FileAt
<1>2. CloseNumber(p, n) = p
  BY <1>1 DEF CloseNumber
<1> QED BY <1>2 DEF StackFree

\* The new BO of an attention slot whose old handle is no open fd.
LEMMA ReloadCore ==
    ASSUME NEW p, Core(p), IsOpen(p, "cna"), Room(p, "cna") > 0,
           NEW x \in Attention, ~Hits(p, p.bo[x].h), NEW q, q = Reload(p, x)
    PROVE  /\ Core(q)
           /\ \A o \in Owners : IsOpen(q, o) <=> IsOpen(p, o)
           /\ \A y \in Names \ {x} : q.bo[y] = p.bo[y]
           /\ q.exe = p.exe
           /\ Leakless(p) => Leakless(q)
           /\ Room(q, "cna") = Room(p, "cna") - 1 /\ Room(p, "cna") \in Nat
<1>1. CloseNumber(p, p.bo[x].h) = p
  BY StrayIs
<1>2. q = Create(p, "cna", x)
  BY <1>1 DEF Reload
<1>3. x \in Names /\ OwnerOf(x) = "cna"
  BY OwnerIs
<1> QED BY <1>2, <1>3, CreateCore

(***************************************************************************)
(* The calls.                                                              *)
(***************************************************************************)
\* A call that keeps the CNA context and the BOs of the executable.
LEMMA StaysGood ==
    ASSUME NEW p, Good(p), NEW q, Core(q), ~IsOpen(q, "op"), q.exe = p.exe,
           Leakless(p) => Leakless(q),
           \A x \in Activation \cup {Lost} : q.bo[x].h = p.bo[x].h,
           IsOpen(q, "cna") => IsOpen(p, "cna") /\ \A x \in Working : q.bo[x].h = p.bo[x].h
    PROVE  Good(q)
<1>1. CnaReady(q)
  BY DEF Good, CnaReady
<1>2. ExeKnown(q)
  BY DEF Good, ExeKnown
<1> QED BY <1>1, <1>2 DEF Good

\* What is known of a state between two calls.
LEMMA GoodIs ==
    ASSUME NEW p, Good(p)
    PROVE  /\ Core(p) /\ CnaReady(p) /\ ExeKnown(p) /\ ~IsOpen(p, "op")
           /\ p.exe \in {"none", "with_bos", "without"}
           /\ \A x \in Names : p.bo[x].h = 0 => p.bo[x] = NoBO
           /\ Slack(p) \in Nat
           /\ FreeNumbers(p) # {} => Slack(p) > 0
<1>1. IsFiniteSet(FreeNumbers(p))
  BY Numerals, FS_Subset DEF FreeNumbers
<1>2. Slack(p) \in Nat /\ (FreeNumbers(p) # {} => Slack(p) > 0)
  <2>1. Slack(p) \in Nat /\ (Slack(p) = 0 <=> FreeNumbers(p) = {})
    BY <1>1, FS_CardinalityType, FS_EmptySet DEF Slack
  <2> QED BY <2>1
<1>3. p.exe \in {"none", "with_bos", "without"}
  BY DEF Good, Core, States
<1>4. \A x \in Names : p.bo[x].h = 0 => p.bo[x] = NoBO
  BY DEF Good, Core, Boxes
<1> QED BY <1>2, <1>3, <1>4 DEF Good

\* The guards.
LEMMA HandlesLeftIs ==
    ASSUME Core(proc), NEW who \in Owners, who # "other", IsOpen(proc, who), NEW k,
           HandlesLeft(who, k)
    PROVE  Room(proc, who) >= k
<1>1. /\ proc.holds[who].n \in Fds /\ proc.fds[proc.holds[who].n] = proc.holds[who].file
      /\ proc.holds[who].file \in NewFiles
  BY OwnNumber DEF Core
<1>2. FileAt(proc, proc.holds[who].n) = proc.holds[who].file
  BY <1>1 DEF FileAt
<1> QED BY <1>1, <1>2 DEF HandlesLeft, Room, FreeHandles, At

LEMMA NothingElseIs ==
    ASSUME Good(proc), NEW xs, NothingElseHeld(xs), NEW x \in Names, OwnerOf(x) = "c",
           x \notin xs
    PROVE  proc.bo[x].h = 0
  BY OwnerIs DEF NothingElseHeld, Live, Good, ExeKnown

LEMMA Apart == "op" \in Owners \ {"other", "c", "mfd", "cna"} /\ "other" \in Owners
  BY DEF Owners

\* ClientCreate.
LEMMA ClientCreateGood == ASSUME Good(proc), ClientCreate PROVE Good(proc')
<1> DEFINE r == Open(proc, "c")
<1>0. r = Open(proc, "c") /\ proc' = CnaInit(r)
  BY DEF ClientCreate
<1> HIDE DEF r
<1>1. "c" \in Owners \ {"other"} /\ "c" # "cna"
  BY DEF Owners
<1>2. ~IsOpen(proc, "c") /\ Slack(proc) > 0 /\ Slack(proc) >= 2 /\ Core(proc)
  BY GoodIs DEF ClientCreate, Slack
<1>3. /\ Core(r)
      /\ \A o \in Owners : IsOpen(r, o) <=> IsOpen(proc, o) \/ o = "c"
      /\ r.bo = proc.bo /\ r.exe = proc.exe
      /\ Leakless(proc) => Leakless(r)
      /\ Slack(r) = Slack(proc) - 1 /\ Slack(proc) \in Nat
  BY <1>0, <1>1, <1>2, OpenCore
<1>4. Slack(r) > 0
  BY <1>2, <1>3
<1>5. /\ Core(proc')
      /\ \A o \in Owners : IsOpen(proc', o) <=> IsOpen(r, o) \/ o = "cna"
      /\ \A x \in Names \ CnaNames : proc'.bo[x] = r.bo[x]
      /\ \A x \in Working : proc'.bo[x].h # 0
      /\ proc'.exe = r.exe
      /\ Leakless(r) => Leakless(proc')
  BY <1>0, <1>3, <1>4, CnaInitCore
<1>6. CnaReady(proc')
  BY <1>5 DEF CnaReady
<1>7. ExeKnown(proc')
  <2>1. \A x \in Activation \cup {Lost} : x \in Names \ CnaNames
    BY OwnerIs
  <2>2. \A x \in Activation \cup {Lost} : proc'.bo[x] = proc.bo[x]
    BY <2>1, <1>3, <1>5
  <2>3. ExeKnown(proc)
    BY DEF Good
  <2> QED BY <1>3, <1>5, <2>2, <2>3 DEF ExeKnown
<1>8. ~IsOpen(proc', "op")
  BY <1>3, <1>5, GoodIs, Apart
<1> QED BY <1>5, <1>6, <1>7, <1>8 DEF Good

\* ClientDestroy.
LEMMA ClientDestroyGood == ASSUME Good(proc), ClientDestroy PROVE Good(proc')
<1>1. "c" \in Owners /\ "cna" \in Owners /\ "c" # "cna"
  BY DEF Owners
<1>2. IsOpen(proc, "c") /\ proc' = Close(proc, "c") /\ Core(proc)
  BY GoodIs DEF ClientDestroy
<1>3. \A x \in Names : OwnerOf(x) = "c" => proc.bo[x].h = 0
  BY NothingElseIs DEF ClientDestroy
<1>4. /\ Core(proc')
      /\ \A o \in Owners : IsOpen(proc', o) <=> IsOpen(proc, o) /\ o # "c"
      /\ proc'.bo = proc.bo /\ proc'.exe = proc.exe
      /\ Leakless(proc) => Leakless(proc')
  BY <1>1, <1>2, <1>3, CloseCore
<1>5. ~IsOpen(proc', "op")
  BY <1>4, GoodIs, Apart
<1> QED BY <1>1, <1>4, <1>5, StaysGood

\* Created, for a name of the client.
LEMMA ClientBO ==
    ASSUME NEW p, Core(p), IsOpen(p, "c"), Room(p, "c") > 0,
           NEW x \in Arrays \cup Activation \cup {Lost}, NEW q, q = Create(p, "c", x)
    PROVE  Created(p, q, "c", {x})
<1>1. x \in Names /\ "c" = OwnerOf(x)
  BY OwnerIs
<1> QED BY <1>1, CreateOne

\* Arrays are neither working BOs nor those of the executable.
LEMMA ArraysApart ==
    /\ Arrays \cap (Activation \cup {Lost} \cup Working \cup CnaNames) = {}
    /\ (Activation \cup {Lost}) \cap (Working \cup CnaNames) = {}
    /\ Lost \notin Activation
<1>1. \A x \in Working \cup CnaNames : OwnerOf(x) = "cna"
  BY OwnerIs
<1>2. \A x \in Arrays \cup Activation \cup {Lost} : OwnerOf(x) = "c"
  BY OwnerIs
<1>3. Lost \notin Activation
  BY DEF Lost, Activation
<1> QED BY <1>1, <1>2, <1>3, NumberAssumption

\* A state that differs by one array that had no BO.
LEMMA OneMoreArray ==
    ASSUME NEW p, Good(p), NEW x \in Arrays, p.bo[x].h = 0, NEW q, Created(p, q, "c", {x})
    PROVE  Good(q)
<1>1. Core(q) /\ q.exe = p.exe /\ (Leakless(p) => Leakless(q))
  BY DEF Created
<1>2. \A o \in Owners : IsOpen(q, o) <=> IsOpen(p, o)
  BY DEF Created
<1>3. \A z \in Names \ {x} : q.bo[z] = p.bo[z]
  BY DEF Created
<1>4. \A z \in Activation \cup {Lost} \cup Working : z \in Names \ {x}
  BY OwnerIs, ArraysApart
<1>5. ~IsOpen(q, "op") /\ (IsOpen(q, "cna") => IsOpen(p, "cna"))
  BY <1>2, Apart, GoodIs, OwnerIs
<1> QED BY <1>1, <1>3, <1>4, <1>5, StaysGood

\* NewArray.
LEMMA NewArrayGood == ASSUME Good(proc), NEW a \in Arrays, NewArray(a) PROVE Good(proc')
<1>1. IsOpen(proc, "c") /\ HandlesLeft("c", 1) /\ proc' = Create(proc, "c", a) /\ Core(proc)
  BY GoodIs DEF NewArray
<1>2. proc.bo[a].h = 0
  BY DEF NewArray, Live
<1>3. Room(proc, "c") > 0
  <2>1. "c" \in Owners /\ "c" # "other"
    BY DEF Owners
  <2>2. Room(proc, "c") >= 1
    BY <1>1, <2>1, HandlesLeftIs
  <2> QED BY <2>2, RoomIsNat
<1>4. Created(proc, proc', "c", {a})
  BY <1>1, <1>3, ClientBO
<1> QED BY <1>2, <1>4, OneMoreArray

\* A BO of the client, with a handle left; the stack holds no open fd.
LEMMA ClientRoom ==
    ASSUME Good(proc), IsOpen(proc, "c"), HandlesLeft("c", 1)
    PROVE  Room(proc, "c") > 0
<1>1. "c" \in Owners /\ "c" # "other" /\ Core(proc)
  BY GoodIs DEF Owners
<1>2. Room(proc, "c") >= 1
  BY <1>1, HandlesLeftIs
<1> QED BY <1>2, RoomIsNat

LEMMA ClientBOFds ==
    ASSUME Good(proc), IsOpen(proc, "c"), HandlesLeft("c", 1),
           NEW x \in Arrays \cup {Lost}, NEW q, q = Create(proc, "c", x)
    PROVE  q \in States /\ q.fds = proc.fds
<1>1. /\ "c" \in Owners /\ "c" # "other" /\ proc \in States /\ Owned(proc)
      /\ x \in Names
  BY OwnerIs DEF Owners, Good, Core
<1>2. FreeHandles(proc, "c") # {}
  BY ClientRoom, FS_EmptySet DEF Room
<1>3. PICK h : IsCreated(proc, q, "c", x, h)
  BY <1>1, <1>2, CreateIs
<1> QED BY <1>3 DEF IsCreated

LEMMA SameHits ==
    ASSUME NEW p, NEW q, q.fds = p.fds, NEW n, ~Hits(p, n) PROVE ~Hits(q, n)
  BY DEF Hits, FileAt

\* BinaryExecute.
LEMMA BinaryExecuteGood ==
    ASSUME Good(proc), NEW out \in Arrays, NEW g, BinaryExecute(out, g), ~astray'
    PROVE  Good(proc')
<1> DEFINE q == Create(proc, "c", out)
<1>1. q = Create(proc, "c", out) /\ proc' = StackFree(q, g)
  BY DEF BinaryExecute
<1>2. IsOpen(proc, "c") /\ HandlesLeft("c", 1) /\ out \notin Live /\ ~Hits(proc, g)
  BY DEF BinaryExecute
<1> HIDE DEF q
<1>3. proc' = q
  <2>1. q.fds = proc.fds
    BY <1>1, <1>2, ClientBOFds
  <2> QED BY <1>1, <1>2, <2>1, SameHits, StrayIs
<1>4. Created(proc, q, "c", {out})
  BY <1>1, <1>2, ClientRoom, ClientBO, GoodIs
<1>5. proc.bo[out].h = 0
  BY <1>2 DEF Live
<1> QED BY <1>3, <1>4, <1>5, OneMoreArray

\* A BO that nobody will free changes nothing else.
LEMMA LoseGood ==
    ASSUME Good(proc), IsOpen(proc, "c"), HandlesLeft("c", 1),
           NEW q, q = Lose(proc)
    PROVE  Good(q) /\ q.fds = proc.fds /\ q.exe = proc.exe
<1> DEFINE r == Create(proc, "c", Lost)
<1>0. r = Create(proc, "c", Lost) /\ q = Forget(r, {Lost})
  BY DEF Lose
<1> HIDE DEF r
<1>1. Core(r) /\ r.exe = proc.exe
  BY <1>0, ClientRoom, ClientBO, GoodIs DEF Created
<1>2. /\ \A o \in Owners : IsOpen(r, o) <=> IsOpen(proc, o)
      /\ \A z \in Names \ {Lost} : r.bo[z] = proc.bo[z]
  BY <1>0, ClientRoom, ClientBO, GoodIs DEF Created
<1>3. /\ Core(q) /\ q.exe = r.exe
      /\ \A o \in Owners : IsOpen(q, o) <=> IsOpen(r, o)
      /\ \A y \in Names : q.bo[y] = IF y \in {Lost} THEN NoBO ELSE r.bo[y]
  <2>1. {Lost} \in SUBSET Names
    BY OwnerIs
  <2> QED BY <1>0, <1>1, <2>1, ForgetCore
<1>4. q.fds = proc.fds
  <2>1. r \in States /\ r.fds = proc.fds
    BY <1>0, ClientBOFds
  <2>2. {Lost} \in SUBSET Names
    BY OwnerIs
  <2>3. /\ q \in States
        /\ q.fds = r.fds /\ q.holds = r.holds /\ q.gem = r.gem /\ q.exe = r.exe
        /\ q.bo = [z \in Names |-> IF z \in {Lost} THEN NoBO ELSE r.bo[z]]
    BY <1>0, <2>1, <2>2, ForgetIs
  <2> QED BY <2>1, <2>3
<1>5. \A z \in Activation \cup Working : q.bo[z] = proc.bo[z]
  BY <1>2, <1>3, OwnerIs, ArraysApart
<1>6. q.bo[Lost].h = 0
  BY <1>3, OwnerIs, NoBOIsOne
<1>7. CnaReady(q) /\ ~IsOpen(q, "op")
  BY <1>2, <1>3, <1>5, Apart, GoodIs, OwnerIs DEF CnaReady
<1>8. Leakless(q)
  <2>1. Leakless(proc) /\ proc.bo[Lost].h = 0 /\ Created(proc, r, "c", {Lost})
    BY <1>0, ClientRoom, ClientBO, GoodIs DEF ExeKnown
  <2>2. Leakless(r)
    BY <2>1 DEF Created
  <2>3. \A z \in {Lost} \ {Lost} : OwnerOf(z) \in {"c", "mfd"} => r.bo[z].h = 0
    OBVIOUS
  <2>4. {Lost} \in SUBSET Names
    BY OwnerIs
  <2> QED BY <1>0, <1>1, <2>2, <2>3, <2>4, ForgetCore
<1>9. ExeKnown(q)
  BY <1>1, <1>3, <1>5, <1>6, <1>8, GoodIs DEF ExeKnown
<1> QED BY <1>1, <1>3, <1>4, <1>7, <1>9 DEF Good

\* BinaryFails.
LEMMA BinaryFailsGood ==
    ASSUME Good(proc), NEW g, BinaryFails(g), ~astray' PROVE Good(proc')
<1>1. ASSUME MayLose PROVE Good(Lose(proc)) /\ Lose(proc).fds = proc.fds
  BY <1>1, LoseGood DEF MayLose, BinaryFails
<1>2. CASE MayLose /\ proc' = Lose(proc)
  BY <1>1, <1>2
<1>3. CASE proc' = StackFree(proc, g) /\ ~Hits(proc, g)
  BY <1>3, StrayIs
<1>4. CASE MayLose /\ proc' = StackFree(Lose(proc), g) /\ ~Hits(proc, g)
  <2>1. ~Hits(Lose(proc), g)
    BY <1>1, <1>4, SameHits
  <2> QED BY <1>1, <1>4, <2>1, StrayIs
<1> QED BY <1>2, <1>3, <1>4 DEF BinaryFails

\* What npu_bo_free of arrays leaves.
LEMMA FewerArrays ==
    ASSUME NEW p, Good(p), NEW xs \in SUBSET Arrays, NEW q, q = FreeAll(p, xs)
    PROVE  /\ Good(q)
           /\ \A o \in Owners : IsOpen(q, o) <=> IsOpen(p, o)
           /\ \A y \in Names : q.bo[y] = IF y \in xs THEN NoBO ELSE p.bo[y]
           /\ Slack(q) = Slack(p)
<1>1. xs \in SUBSET Names /\ xs \cap CnaNames = {} /\ Core(p)
  BY OwnerIs, ArraysApart, GoodIs
<1>2. /\ Core(q)
      /\ \A o \in Owners : IsOpen(q, o) <=> IsOpen(p, o)
      /\ \A y \in Names : q.bo[y] = IF y \in xs THEN NoBO ELSE p.bo[y]
      /\ q.exe = p.exe
      /\ Leakless(p) => Leakless(q)
      /\ Slack(q) = Slack(p)
  BY <1>1, FreeAllCore
<1>3. \A z \in Activation \cup {Lost} \cup Working : q.bo[z] = p.bo[z]
  BY <1>2, OwnerIs, ArraysApart
<1>4. ~IsOpen(q, "op") /\ (IsOpen(q, "cna") => IsOpen(p, "cna"))
  BY <1>2, Apart, GoodIs, OwnerIs
<1>5. Good(q)
  BY <1>2, <1>3, <1>4, StaysGood
<1> QED BY <1>2, <1>5

\* BufferDestroy.
LEMMA BufferDestroyGood ==
    ASSUME Good(proc), NEW a \in Arrays, BufferDestroy(a) PROVE Good(proc')
<1>1. proc' = FreeAll(proc, {a}) /\ {a} \in SUBSET Arrays
  BY DEF BufferDestroy
<1> QED BY <1>1, FewerArrays

\* Only exe changes.
LEMMA ExeCore ==
    ASSUME NEW p, Core(p), NEW e \in {"none", "with_bos", "without"},
           NEW q, q = [p EXCEPT !.exe = e]
    PROVE  /\ Core(q) /\ q.exe = e /\ q.bo = p.bo
           /\ \A o \in Owners : IsOpen(q, o) <=> IsOpen(p, o)
           /\ Leakless(p) => Leakless(q)
<1>1. /\ q \in States /\ q.exe = e
      /\ q.fds = p.fds /\ q.holds = p.holds /\ q.gem = p.gem /\ q.bo = p.bo
  BY DEF Core, States
<1>2. Numbers(q) /\ Owned(q)
  BY <1>1, SameOwners DEF Core, Numbers
<1>3. \A o : IsOpen(q, o) <=> IsOpen(p, o)
  BY <1>1 DEF IsOpen
<1>4. \A o, h : At(q, o, h) = At(p, o, h)
  BY <1>1 DEF At
<1>5. Boxes(q)
  BY <1>1, <1>3 DEF Core, Boxes, Held
<1>7. Leakless(p) => Leakless(q)
  <2>1. \A o, h : Remembers(q, o, h) <=> Remembers(p, o, h)
    BY <1>1, <1>4 DEF Remembers
  <2> QED BY <1>3, <1>4, <2>1 DEF Leakless
<1> QED BY <1>1, <1>2, <1>3, <1>5, <1>7 DEF Core

\* Nothing but the executable changes, and it gets no BOs.
LEMMA WithoutGood ==
    ASSUME NEW p, Good(p), p.exe = "none", NEW q, q = [p EXCEPT !.exe = "without"]
    PROVE  Good(q)
<1>1. Core(p) /\ ExeKnown(p) /\ "without" \in {"none", "with_bos", "without"}
  BY GoodIs
<1>2. /\ Core(q) /\ q.exe = "without" /\ q.bo = p.bo
      /\ \A o \in Owners : IsOpen(q, o) <=> IsOpen(p, o)
      /\ Leakless(p) => Leakless(q)
  BY <1>1, ExeCore
<1>3. CnaReady(q) /\ ~IsOpen(q, "op")
  BY <1>2, Apart, GoodIs DEF CnaReady, Owners
<1>4. ExeKnown(q)
  BY <1>1, <1>2 DEF ExeKnown
<1> QED BY <1>2, <1>3, <1>4 DEF Good

\* Compile.
LEMMA CompileGood == ASSUME Good(proc), Compile PROVE Good(proc')
<1>1. IsOpen(proc, "c") /\ proc.exe = "none"
  BY DEF Compile
<1>2. CASE HandlesLeft("c", 1) /\ proc' = [Create(proc, "c", "act") EXCEPT !.exe = "with_bos"]
  <2> DEFINE got == Create(proc, "c", "act")
  <2>1. got = Create(proc, "c", "act") /\ proc' = [got EXCEPT !.exe = "with_bos"]
    BY <1>2
  <2> HIDE DEF got
  <2>2. Core(proc) /\ ExeKnown(proc) /\ "act" \in Activation /\ Activation = {"act"}
    BY GoodIs DEF Activation
  <2>3. proc.bo["act"].h = 0
    BY <1>1, <2>2 DEF ExeKnown
  <2>4. Created(proc, got, "c", {"act"})
    BY <1>1, <1>2, <2>1, <2>2, ClientRoom, ClientBO
  <2>5. /\ Core(got) /\ Leakless(got) /\ got.bo["act"].h # 0
        /\ \A o \in Owners : IsOpen(got, o) <=> IsOpen(proc, o)
        /\ \A z \in Names \ {"act"} : got.bo[z] = proc.bo[z]
    BY <2>2, <2>3, <2>4 DEF Created, ExeKnown
  <2>6. /\ Core(proc') /\ proc'.exe = "with_bos" /\ proc'.bo = got.bo
        /\ \A o \in Owners : IsOpen(proc', o) <=> IsOpen(got, o)
        /\ Leakless(got) => Leakless(proc')
    <3>1. "with_bos" \in {"none", "with_bos", "without"}
      OBVIOUS
    <3> QED BY <2>1, <2>5, <3>1, ExeCore
  <2>7. CnaReady(proc')
    <3>1. "cna" \in Owners /\ \A x \in Working : x \in Names \ {"act"}
      BY <2>2, OwnerIs, ArraysApart
    <3> QED BY <3>1, <2>5, <2>6, GoodIs DEF CnaReady
  <2>8. ExeKnown(proc')
    <3>1. Lost \in Names \ {"act"}
      BY <2>2, OwnerIs, ArraysApart
    <3> QED BY <2>2, <2>5, <2>6, <3>1 DEF ExeKnown
  <2>9. ~IsOpen(proc', "op")
    BY <2>5, <2>6, Apart, GoodIs
  <2> QED BY <2>6, <2>7, <2>8, <2>9 DEF Good
<1>3. CASE MayLose /\ proc' = [Lose(proc) EXCEPT !.exe = "without"]
  <2>1. Good(Lose(proc)) /\ Lose(proc).exe = "none"
    BY <1>1, <1>3, LoseGood DEF MayLose
  <2> QED BY <1>3, <2>1, WithoutGood
<1>4. CASE proc' = [proc EXCEPT !.exe = "without"]
  BY <1>1, <1>4, WithoutGood
<1> QED BY <1>2, <1>3, <1>4 DEF Compile

\* LoadedExecutableDestroy.
LEMMA LoadedExecutableDestroyGood ==
    ASSUME Good(proc), LoadedExecutableDestroy PROVE Good(proc')
<1> DEFINE p == IF proc.exe = "with_bos" THEN FreeAll(proc, Activation) ELSE proc
           r == Forget(p, Activation)
<1>1. proc.exe # "none" /\ proc' = [r EXCEPT !.exe = "none"]
  BY DEF LoadedExecutableDestroy
<1>2. /\ Core(proc) /\ ExeKnown(proc)
      /\ Activation \in SUBSET Names /\ Activation \cap CnaNames = {}
  BY GoodIs, OwnerIs, ArraysApart
<1>3. /\ Core(p) /\ (Leakless(proc) => Leakless(p))
      /\ \A o \in Owners : IsOpen(p, o) <=> IsOpen(proc, o)
      /\ \A y \in Names \ Activation : p.bo[y] = proc.bo[y]
      /\ \/ p = proc /\ proc.exe # "with_bos"
         \/ \A x \in Activation : p.bo[x].h = 0
  <2>1. CASE proc.exe = "with_bos"
    <3>1. p = FreeAll(proc, Activation)
      BY <2>1
    <3> HIDE DEF p
    <3>2. /\ Core(p)
          /\ \A o \in Owners : IsOpen(p, o) <=> IsOpen(proc, o)
          /\ \A y \in Names : p.bo[y] = IF y \in Activation THEN NoBO ELSE proc.bo[y]
          /\ Leakless(proc) => Leakless(p)
      BY <1>2, <3>1, FreeAllCore
    <3> QED BY <1>2, <3>2, NoBOIsOne
  <2>2. CASE proc.exe # "with_bos"
    <3>1. p = proc
      BY <2>2
    <3> HIDE DEF p
    <3> QED BY <3>1, <2>2, <1>2
  <2> QED BY <2>1, <2>2
<1>4. r = Forget(p, Activation)
  OBVIOUS
<1> HIDE DEF p, r
<1>5. /\ Core(r)
      /\ \A o \in Owners : IsOpen(r, o) <=> IsOpen(p, o)
      /\ \A y \in Names : r.bo[y] = IF y \in Activation THEN NoBO ELSE p.bo[y]
  BY <1>2, <1>3, <1>4, ForgetCore
<1>6. Leakless(r)
  <2>1. Leakless(p) /\ \A x \in Activation : p.bo[x].h = 0
    <3>1. Leakless(proc) /\ (proc.exe # "with_bos" => \A x \in Activation : proc.bo[x].h = 0)
      BY <1>2 DEF ExeKnown
    <3> QED BY <1>3, <3>1
  <2>2. \A x \in Activation \ {Lost} : OwnerOf(x) \in {"c", "mfd"} => p.bo[x].h = 0
    BY <2>1
  <2> QED BY <1>2, <1>3, <1>4, <2>1, <2>2, ForgetCore
<1>7. /\ Core(proc') /\ proc'.exe = "none" /\ proc'.bo = r.bo
      /\ \A o \in Owners : IsOpen(proc', o) <=> IsOpen(r, o)
      /\ Leakless(r) => Leakless(proc')
  BY <1>1, <1>5, ExeCore
<1>8. CnaReady(proc')
  <2>1. "cna" \in Owners /\ \A x \in Working : x \in Names \ Activation
    BY OwnerIs, ArraysApart
  <2> QED BY <2>1, <1>3, <1>5, <1>7, GoodIs DEF CnaReady
<1>9. ExeKnown(proc')
  <2>1. \A x \in Activation : proc'.bo[x].h = 0
    BY <1>2, <1>5, <1>7, NoBOIsOne
  <2>2. proc'.bo[Lost].h = 0
    BY <1>2, <1>3, <1>5, <1>7, OwnerIs, ArraysApart DEF ExeKnown
  <2> QED BY <2>1, <2>2, <1>6, <1>7 DEF ExeKnown
<1>10. ~IsOpen(proc', "op")
  BY <1>3, <1>5, <1>7, Apart, GoodIs
<1> QED BY <1>7, <1>8, <1>9, <1>10 DEF Good

\* The CNA context and the BOs of the executable are as they were.
Untouched(p, q) ==
    /\ q.exe = p.exe
    /\ Leakless(p) => Leakless(q)
    /\ \A z \in Activation \cup {Lost} \cup Working : q.bo[z].h = p.bo[z].h
    /\ IsOpen(q, "cna") <=> IsOpen(p, "cna")

LEMMA UntouchedTwice ==
    ASSUME NEW p, NEW q, NEW r, Untouched(p, q), Untouched(q, r) PROVE Untouched(p, r)
  BY DEF Untouched

LEMMA UntouchedGood ==
    ASSUME NEW p, Good(p), NEW q, Core(q), Untouched(p, q), ~IsOpen(q, "op") PROVE Good(q)
  BY StaysGood DEF Untouched

\* c->fd is closed, after the operands xs were freed.
LEMMA ClientDown ==
    ASSUME Good(proc), IsOpen(proc, "c"), NEW xs \in SUBSET Arrays,
           NothingElseHeld(xs), NEW q, q = Close(FreeAll(proc, xs), "c")
    PROVE  /\ Core(q) /\ Untouched(proc, q)
           /\ \A o \in Owners : IsOpen(q, o) <=> IsOpen(proc, o) /\ o # "c"
           /\ \A y \in Arrays : q.bo[y].h = 0
           /\ Slack(q) = Slack(proc) + 1
<1> DEFINE r == FreeAll(proc, xs)
<1>0. r = FreeAll(proc, xs) /\ q = Close(r, "c")
  OBVIOUS
<1> HIDE DEF r
<1>1. /\ Good(r)
      /\ \A o \in Owners : IsOpen(r, o) <=> IsOpen(proc, o)
      /\ \A y \in Names : r.bo[y] = IF y \in xs THEN NoBO ELSE proc.bo[y]
      /\ Slack(r) = Slack(proc)
  BY <1>0, FewerArrays
<1>2. Core(r) /\ Slack(r) \in Nat
  BY <1>1, GoodIs
<1>3. r.exe = proc.exe /\ (Leakless(proc) => Leakless(r))
  <2>1. xs \in SUBSET Names /\ xs \cap CnaNames = {} /\ Core(proc)
    BY OwnerIs, ArraysApart, GoodIs
  <2> QED BY <1>0, <2>1, FreeAllCore
<1>4. "c" \in Owners /\ "cna" \in Owners /\ "c" # "cna"
  BY DEF Owners
<1>5. \A x \in Names : OwnerOf(x) = "c" => r.bo[x].h = 0
  <2>1. \A x \in Names \ xs : OwnerOf(x) = "c" => proc.bo[x].h = 0
    BY NothingElseIs
  <2> QED BY <1>1, <2>1, NoBOIsOne
<1>6. IsOpen(r, "c")
  BY <1>1, <1>4
<1>7. /\ Core(q)
      /\ \A o \in Owners : IsOpen(q, o) <=> IsOpen(r, o) /\ o # "c"
      /\ q.bo = r.bo /\ q.exe = r.exe
      /\ Leakless(r) => Leakless(q)
      /\ Slack(q) = Slack(r) + 1
  BY <1>0, <1>2, <1>4, <1>5, <1>6, CloseCore
<1>8. \A y \in Arrays : q.bo[y].h = 0
  BY <1>5, <1>7, OwnerIs
<1>9. Untouched(proc, q)
  <2>1. \A z \in Activation \cup {Lost} \cup Working : q.bo[z] = proc.bo[z]
    BY <1>1, <1>7, OwnerIs, ArraysApart
  <2>2. IsOpen(q, "cna") <=> IsOpen(proc, "cna")
    BY <1>1, <1>4, <1>7
  <2> QED BY <1>3, <1>7, <2>1, <2>2 DEF Untouched
<1> QED BY <1>1, <1>7, <1>8, <1>9

\* c->fd is opened again; ok: the output gets its BO.
LEMMA ClientUp ==
    ASSUME NEW p, Core(p), ~IsOpen(p, "c"), Slack(p) > 0, NEW ok \in BOOLEAN,
           NEW out \in Arrays, p.bo[out].h = 0, NEW r, r = Open(p, "c"),
           NEW q, q = IF ok THEN Create(r, "c", out) ELSE r
    PROVE  /\ Core(q) /\ Untouched(p, q)
           /\ \A o \in Owners : IsOpen(q, o) <=> IsOpen(p, o) \/ o = "c"
<1>0. "c" \in Owners \ {"other"} /\ "cna" \in Owners /\ "c" # "cna"
  BY DEF Owners
<1>1. /\ Core(r)
      /\ \A o \in Owners : IsOpen(r, o) <=> IsOpen(p, o) \/ o = "c"
      /\ r.bo = p.bo /\ r.exe = p.exe
      /\ Leakless(p) => Leakless(r)
      /\ FreeHandles(r, "c") = Handles
  BY <1>0, OpenCore
<1>2. Untouched(p, r)
  <2>1. IsOpen(r, "cna") <=> IsOpen(p, "cna")
    BY <1>0, <1>1
  <2> QED BY <1>1, <2>1 DEF Untouched
<1>3. CASE ~ok
  BY <1>1, <1>2, <1>3
<1>4. CASE ok
  <2>1. q = Create(r, "c", out)
    BY <1>4
  <2>2. IsOpen(r, "c") /\ Room(r, "c") > 0
    <3>1. Room(r, "c") >= 4 /\ Room(r, "c") \in Nat
      BY <1>1, FourHandles, RoomIsNat
    <3> QED BY <3>1, <1>0, <1>1
  <2>3. Created(r, q, "c", {out})
    BY <1>1, <2>1, <2>2, ClientBO
  <2>4. Core(q) /\ \A o \in Owners : IsOpen(q, o) <=> IsOpen(r, o)
    BY <2>3 DEF Created
  <2>5. Untouched(r, q)
    <3>1. q.exe = r.exe /\ (Leakless(r) => Leakless(q))
      BY <1>1, <2>3 DEF Created
    <3>2. \A z \in Names \ {out} : q.bo[z] = r.bo[z]
      BY <2>3 DEF Created
    <3>3. \A z \in Activation \cup {Lost} \cup Working : z \in Names \ {out}
      BY OwnerIs, ArraysApart
    <3> QED BY <1>0, <2>4, <3>1, <3>2, <3>3 DEF Untouched
  <2>6. Untouched(p, q)
    BY <1>2, <2>5, UntouchedTwice
  <2> QED BY <1>1, <2>4, <2>6
<1> QED BY <1>3, <1>4

\* SlowPath.
LEMMA SlowPathGood ==
    ASSUME Good(proc), NEW x \in Arrays, NEW w \in Arrays, NEW out \in Arrays,
           NEW ok \in BOOLEAN, SlowPath(x, w, out, ok), ~astray'
    PROVE  Good(proc')
<1> DEFINE closed == Close(FreeAll(proc, {x, w}), "c")
           down == CacheClose(closed)
           mid == IF ok THEN CacheSetup(down) ELSE down
           up == Open(mid, "c")
<1>0. /\ closed = Close(FreeAll(proc, {x, w}), "c") /\ down = CacheClose(closed)
      /\ mid = IF ok THEN CacheSetup(down) ELSE down
      /\ up = Open(mid, "c")
      /\ proc' = IF ok THEN Create(up, "c", out) ELSE up
      /\ IsOpen(proc, "c") /\ NothingElseHeld({x, w}) /\ FreeNumbers(proc) # {}
  BY DEF SlowPath
<1> HIDE DEF closed, down, mid, up
<1>1. "c" \in Owners /\ "mfd" \in Owners /\ "cna" \in Owners
  BY DEF Owners
<1>2. /\ Core(closed) /\ Untouched(proc, closed)
      /\ \A o \in Owners : IsOpen(closed, o) <=> IsOpen(proc, o) /\ o # "c"
      /\ \A y \in Arrays : closed.bo[y].h = 0
      /\ Slack(closed) = Slack(proc) + 1
  <2>1. {x, w} \in SUBSET Arrays
    OBVIOUS
  <2> QED BY <1>0, <2>1, ClientDown
<1>3. Slack(proc) > 0 /\ Slack(proc) \in Nat
  BY <1>0, GoodIs
<1>4. /\ Core(down)
      /\ \A o \in Owners : IsOpen(down, o) <=> IsOpen(closed, o) /\ o # "mfd"
      /\ \A z \in Names \ Cache : down.bo[z] = closed.bo[z]
      /\ down.exe = closed.exe
      /\ Leakless(closed) => Leakless(down)
      /\ Slack(down) >= Slack(closed) /\ Slack(down) \in Nat
  <2>0. Core(closed) /\ down = CacheClose(closed)
    BY <1>0, <1>2
  <2>1. Core(down) /\ down.exe = closed.exe /\ (Leakless(closed) => Leakless(down))
    BY <2>0, CacheCloseCore
  <2>2. \A o \in Owners : IsOpen(down, o) <=> IsOpen(closed, o) /\ o # "mfd"
    BY <2>0, CacheCloseCore
  <2>3. \A z \in Names \ Cache : down.bo[z] = closed.bo[z]
    BY <2>0, CacheCloseCore
  <2>4. Slack(down) >= Slack(closed) /\ Slack(down) \in Nat
    BY <2>0, CacheCloseCore
  <2> QED BY <2>1, <2>2, <2>3, <2>4
<1>5. Slack(down) >= 2
  BY <1>2, <1>3, <1>4
<1>6. \A z \in Activation \cup {Lost} \cup Working \cup Arrays : z \in Names \ Cache
  BY OwnerIs
<1>7. Untouched(closed, down) /\ down.bo[out].h = 0
  BY <1>1, <1>2, <1>4, <1>6 DEF Untouched
<1>8. /\ Core(mid) /\ Untouched(down, mid) /\ mid.bo[out].h = 0 /\ Slack(mid) > 0
      /\ \A o \in Owners : IsOpen(mid, o) <=> IsOpen(down, o) \/ (ok /\ o = "mfd")
  <2>1. CASE ~ok
    <3>1. mid = down
      BY <1>0, <2>1
    <3>2. Untouched(down, down)
      BY DEF Untouched
    <3> QED BY <1>4, <1>5, <1>7, <2>1, <3>1, <3>2
  <2>2. CASE ok
    <3>1. mid = CacheSetup(down)
      BY <1>0, <2>2
    <3>2. ~IsOpen(down, "mfd") /\ Slack(down) > 0
      BY <1>1, <1>4, <1>5
    <3>3. /\ Core(mid)
          /\ \A o \in Owners : IsOpen(mid, o) <=> IsOpen(down, o) \/ o = "mfd"
          /\ \A z \in Names \ Cache : mid.bo[z] = down.bo[z]
          /\ mid.exe = down.exe
          /\ Leakless(down) => Leakless(mid)
          /\ Slack(mid) = Slack(down) - 1
      BY <1>4, <3>1, <3>2, CacheSetupCore
    <3>4. Slack(mid) > 0
      BY <1>4, <1>5, <3>3
    <3>5. Untouched(down, mid) /\ mid.bo[out].h = 0
      BY <1>1, <1>6, <1>7, <3>3 DEF Untouched
    <3> QED BY <2>2, <3>3, <3>4, <3>5
  <2> QED BY <2>1, <2>2
<1>9. ~IsOpen(mid, "c")
  BY <1>1, <1>2, <1>4, <1>8
<1>10. /\ Core(proc') /\ Untouched(mid, proc')
       /\ \A o \in Owners : IsOpen(proc', o) <=> IsOpen(mid, o) \/ o = "c"
  <2>1. up = Open(mid, "c") /\ proc' = IF ok THEN Create(up, "c", out) ELSE up
    BY <1>0
  <2>2. Core(proc') /\ Untouched(mid, proc')
    BY <2>1, <1>8, <1>9, ClientUp
  <2>3. \A o \in Owners : IsOpen(proc', o) <=> IsOpen(mid, o) \/ o = "c"
    BY <2>1, <1>8, <1>9, ClientUp
  <2> QED BY <2>2, <2>3
<1>11. Untouched(proc, proc')
  BY <1>2, <1>7, <1>8, <1>10, UntouchedTwice
<1>12. ~IsOpen(proc', "op")
  BY <1>2, <1>4, <1>8, <1>10, Apart, GoodIs
<1> QED BY <1>10, <1>11, <1>12, UntouchedGood

\* GraphHost.
LEMMA GraphHostGood ==
    ASSUME Good(proc), NEW args \in SUBSET Arrays, NEW out \in Arrays,
           NEW ok \in BOOLEAN, NEW g, GraphHost(args, out, ok, g), ~astray'
    PROVE  Good(proc')
<1> DEFINE freed == FreeAll(proc, args)
           closed == Close(FreeAll(proc, args), "c")
           busy == Open(closed, "op")
           ran == Close(busy, "op")
           up == Open(ran, "c")
<1>01. StackFree(busy, g) = busy \/ ~ok
  BY StrayIs DEF GraphHost
<1>0. /\ closed = Close(FreeAll(proc, args), "c") /\ busy = Open(closed, "op")
      /\ ran = Close(busy, "op") /\ up = Open(ran, "c")
      /\ proc' = IF ok THEN Create(up, "c", out) ELSE freed
      /\ IsOpen(proc, "c") /\ (ok => NothingElseHeld(args))
  BY <1>01 DEF GraphHost
<1>1. freed = FreeAll(proc, args)
  OBVIOUS
<1> HIDE DEF freed, closed, busy, ran, up
<1>2. CASE ~ok
  <2>1. proc' = FreeAll(proc, args)
    BY <1>0, <1>1, <1>2
  <2> QED BY <2>1, FewerArrays
<1>3. CASE ok
  <2>0. "c" \in Owners /\ "op" \in Owners \ {"other"} /\ "cna" \in Owners
    BY DEF Owners
  <2>1. /\ Core(closed) /\ Untouched(proc, closed)
        /\ \A o \in Owners : IsOpen(closed, o) <=> IsOpen(proc, o) /\ o # "c"
        /\ \A y \in Arrays : closed.bo[y].h = 0
        /\ Slack(closed) = Slack(proc) + 1
    BY <1>0, <1>3, ClientDown
  <2>2. Slack(closed) > 0
    <3>1. Slack(proc) \in Nat
      BY GoodIs
    <3> QED BY <2>1, <3>1
  <2>3. ~IsOpen(closed, "op") /\ "op" # "cna"
    BY <2>0, <2>1, GoodIs
  <2>4. /\ Core(busy)
        /\ \A o \in Owners : IsOpen(busy, o) <=> IsOpen(closed, o) \/ o = "op"
        /\ busy.bo = closed.bo /\ busy.exe = closed.exe
        /\ Leakless(closed) => Leakless(busy)
    BY <1>0, <2>0, <2>1, <2>2, <2>3, OpenCore
  <2>5. IsOpen(busy, "op") /\ \A x \in Names : OwnerOf(x) # "op"
    BY <2>0, <2>4, OwnerIs
  <2>6. /\ Core(ran)
        /\ \A o \in Owners : IsOpen(ran, o) <=> IsOpen(busy, o) /\ o # "op"
        /\ ran.bo = busy.bo /\ ran.exe = busy.exe
        /\ Leakless(busy) => Leakless(ran)
    BY <1>0, <2>0, <2>3, <2>4, <2>5, CloseCore
  <2>7. Slack(ran) > 0
    <3>1. Slack(ran) = Slack(busy) + 1 /\ Slack(busy) \in Nat
      BY <1>0, <2>0, <2>3, <2>4, <2>5, CloseCore
    <3> QED BY <3>1
  <2>8. Untouched(closed, ran)
    BY <2>0, <2>3, <2>4, <2>6 DEF Untouched
  <2>9. ~IsOpen(ran, "c") /\ ~IsOpen(ran, "op") /\ ran.bo[out].h = 0
    BY <2>0, <2>1, <2>4, <2>6
  <2>10. /\ Core(proc') /\ Untouched(ran, proc')
         /\ \A o \in Owners : IsOpen(proc', o) <=> IsOpen(ran, o) \/ o = "c"
    <3>1. up = Open(ran, "c") /\ proc' = IF TRUE THEN Create(up, "c", out) ELSE up
      BY <1>0, <1>3
    <3>2. Core(proc') /\ Untouched(ran, proc')
      BY <3>1, <2>6, <2>7, <2>9, ClientUp
    <3>3. \A o \in Owners : IsOpen(proc', o) <=> IsOpen(ran, o) \/ o = "c"
      BY <3>1, <2>6, <2>7, <2>9, ClientUp
    <3> QED BY <3>2, <3>3
  <2>11. Untouched(proc, proc')
    BY <2>1, <2>8, <2>10, UntouchedTwice
  <2>12. ~IsOpen(proc', "op")
    BY <2>9, <2>10, Apart
  <2> QED BY <2>10, <2>11, <2>12, UntouchedGood
<1> QED BY <1>2, <1>3

\* CnaSetup.
LEMMA CnaSetupGood == ASSUME Good(proc), CnaSetup PROVE Good(proc')
<1>1. proc' = CnaInit(proc) /\ Core(proc) /\ (IsOpen(proc, "cna") \/ Slack(proc) > 0)
  BY GoodIs DEF CnaSetup
<1>2. /\ Core(proc')
      /\ \A o \in Owners : IsOpen(proc', o) <=> IsOpen(proc, o) \/ o = "cna"
      /\ \A x \in Names \ CnaNames : proc'.bo[x] = proc.bo[x]
      /\ \A x \in Working : proc'.bo[x].h # 0
      /\ proc'.exe = proc.exe
      /\ Leakless(proc) => Leakless(proc')
  BY <1>1, CnaInitCore
<1>3. ExeKnown(proc')
  <2>1. \A x \in Activation \cup {Lost} : proc'.bo[x] = proc.bo[x]
    BY <1>2, OwnerIs, ArraysApart
  <2> QED BY <1>2, <2>1, GoodIs DEF ExeKnown
<1>4. CnaReady(proc') /\ ~IsOpen(proc', "op")
  BY <1>2, Apart, GoodIs DEF CnaReady
<1> QED BY <1>2, <1>3, <1>4 DEF Good

\* CnaClose.
LEMMA CnaCloseGood == ASSUME Good(proc), CnaClose PROVE Good(proc')
<1>1. IsOpen(proc, "cna") /\ proc' = Close(proc, "cna") /\ Core(proc) /\ "cna" \in Owners
  BY GoodIs DEF CnaClose, Owners
<1>2. /\ Core(proc')
      /\ \A o \in Owners : IsOpen(proc', o) <=> IsOpen(proc, o) /\ o # "cna"
      /\ proc'.bo = proc.bo /\ proc'.exe = proc.exe
      /\ Leakless(proc) => Leakless(proc')
  BY <1>1, CloseCore
<1>3. ~IsOpen(proc', "op") /\ ~IsOpen(proc', "cna")
  BY <1>1, <1>2, Apart, GoodIs
<1> QED BY <1>2, <1>3, StaysGood

\* CnaLoad.
LEMMA CnaLoadGood == ASSUME Good(proc), NEW w \in Weights, CnaLoad(w) PROVE Good(proc')
<1>0. "cna" \in Owners /\ "cna" # "other"
  BY DEF Owners
<1>1. /\ IsOpen(proc, "cna") /\ HandlesLeft("cna", 1) /\ proc' = Create(proc, "cna", w)
      /\ Core(proc)
  BY GoodIs DEF CnaLoad
<1>2. Room(proc, "cna") > 0
  <2>1. Room(proc, "cna") >= 1
    BY <1>0, <1>1, HandlesLeftIs
  <2> QED BY <2>1, RoomIsNat
<1>3. w \in Names /\ "cna" = OwnerOf(w) /\ w \notin Working
  BY OwnerIs, NumberAssumption
<1>4. Created(proc, proc', "cna", {w})
  BY <1>1, <1>2, <1>3, CreateOne
<1>5. /\ Core(proc') /\ proc'.exe = proc.exe
      /\ Leakless(proc) => Leakless(proc')
      /\ \A o \in Owners : IsOpen(proc', o) <=> IsOpen(proc, o)
  BY <1>4 DEF Created
<1>6. \A z \in Names \ {w} : proc'.bo[z] = proc.bo[z]
  BY <1>4 DEF Created
<1>7. \A z \in Activation \cup {Lost} \cup Working : z \in Names \ {w}
  <2>1. w \in CnaNames
    BY OwnerIs
  <2> QED BY <2>1, <1>3, OwnerIs, ArraysApart
<1>8. ~IsOpen(proc', "op")
  BY <1>5, Apart, GoodIs
<1> QED BY <1>0, <1>1, <1>5, <1>6, <1>7, <1>8, StaysGood

\* CnaAttention.
LEMMA CnaAttentionGood == ASSUME Good(proc), CnaAttention, ~astray' PROVE Good(proc')
<1> DEFINE r == Reload(proc, "K")
<1>0. r = Reload(proc, "K") /\ proc' = Reload(r, "V")
  BY DEF CnaAttention
<1>1. ~Hits(proc, proc.bo["K"].h) /\ ~Hits(r, r.bo["V"].h)
  BY DEF CnaAttention
<1> HIDE DEF r
<1>2. /\ "cna" \in Owners /\ "cna" # "other" /\ "K" \in Attention /\ "V" \in Attention
  BY DEF Owners, Attention
<1>3. IsOpen(proc, "cna") /\ Core(proc)
  BY GoodIs DEF CnaAttention
<1>4. Room(proc, "cna") >= 2 /\ Room(proc, "cna") \in Nat
  BY <1>2, <1>3, HandlesLeftIs, RoomIsNat DEF CnaAttention
<1>5. Room(proc, "cna") > 0
  BY <1>4
<1>6. Core(r) /\ r.exe = proc.exe /\ (Leakless(proc) => Leakless(r))
  BY <1>0, <1>1, <1>2, <1>3, <1>5, ReloadCore
<1>7. \A o \in Owners : IsOpen(r, o) <=> IsOpen(proc, o)
  BY <1>0, <1>1, <1>2, <1>3, <1>5, ReloadCore
<1>8. \A y \in Names \ {"K"} : r.bo[y] = proc.bo[y]
  BY <1>0, <1>1, <1>2, <1>3, <1>5, ReloadCore
<1>9. Room(r, "cna") > 0 /\ IsOpen(r, "cna")
  <2>1. Room(r, "cna") = Room(proc, "cna") - 1
    BY <1>0, <1>1, <1>2, <1>3, <1>5, ReloadCore
  <2> QED BY <2>1, <1>2, <1>3, <1>4, <1>7
<1>10. Core(proc') /\ proc'.exe = r.exe /\ (Leakless(r) => Leakless(proc'))
  BY <1>0, <1>1, <1>2, <1>6, <1>9, ReloadCore
<1>11. \A o \in Owners : IsOpen(proc', o) <=> IsOpen(r, o)
  BY <1>0, <1>1, <1>2, <1>6, <1>9, ReloadCore
<1>12. \A y \in Names \ {"V"} : proc'.bo[y] = r.bo[y]
  BY <1>0, <1>1, <1>2, <1>6, <1>9, ReloadCore
<1>13. \A y \in Working \cup Activation \cup {Lost} : y \in Names \ {"K", "V"}
  <2>1. Working \cap Attention = {}
    BY DEF Working, Attention
  <2> QED BY <1>2, <2>1, OwnerIs, ArraysApart
<1>14. \A y \in Working \cup Activation \cup {Lost} : proc'.bo[y] = proc.bo[y]
  BY <1>8, <1>12, <1>13
<1>15. ~IsOpen(proc', "op")
  BY <1>7, <1>11, Apart, GoodIs
<1> QED BY <1>3, <1>6, <1>10, <1>14, <1>15, StaysGood

\* OtherOpen, OtherClose.
LEMMA OtherOpenGood == ASSUME Good(proc), OtherOpen PROVE Good(proc')
<1>1. /\ ~IsOpen(proc, "other") /\ Slack(proc) > 0 /\ Core(proc)
      /\ proc' = Take(proc, "other", OtherFile)
  BY GoodIs DEF OtherOpen
<1>2. \A n \in Fds : proc.fds[n] # OtherFile
  <2>1. \A n \in Fds : proc.fds[n] = OtherFile => proc.holds["other"].n = n
    BY <1>1 DEF Core, Owned
  <2>2. proc.holds["other"].n = Free
    BY <1>1 DEF IsOpen
  <2> QED BY <2>1, <2>2, Numerals
<1>3. "other" \in Owners /\ "other" # "cna" /\ "cna" \in Owners /\ OtherFile \in Files
  BY DEF Owners, Files
<1>4. /\ Core(proc')
      /\ \A o \in Owners : IsOpen(proc', o) <=> IsOpen(proc, o) \/ o = "other"
      /\ proc'.bo = proc.bo /\ proc'.exe = proc.exe
      /\ Leakless(proc) => Leakless(proc')
  BY <1>1, <1>2, <1>3, TakeCore
<1>5. ~IsOpen(proc', "op") /\ (IsOpen(proc', "cna") => IsOpen(proc, "cna"))
  BY <1>3, <1>4, Apart, GoodIs
<1> QED BY <1>4, <1>5, StaysGood

LEMMA OtherCloseGood == ASSUME Good(proc), OtherClose PROVE Good(proc')
<1>1. IsOpen(proc, "other") /\ Core(proc) /\ proc' = Close(proc, "other")
  BY GoodIs DEF OtherClose
<1>2. "other" \in Owners /\ "other" # "cna" /\ "cna" \in Owners
  BY DEF Owners
<1>3. \A x \in Names : OwnerOf(x) # "other"
  BY OwnerIs
<1>4. /\ Core(proc')
      /\ \A o \in Owners : IsOpen(proc', o) <=> IsOpen(proc, o) /\ o # "other"
      /\ proc'.bo = proc.bo /\ proc'.exe = proc.exe
      /\ Leakless(proc) => Leakless(proc')
  BY <1>1, <1>2, <1>3, CloseCore
<1>5. ~IsOpen(proc', "op") /\ (IsOpen(proc', "cna") => IsOpen(proc, "cna"))
  BY <1>2, <1>4, Apart, GoodIs
<1> QED BY <1>4, <1>5, StaysGood

(***************************************************************************)
(* The invariant holds at first, every call keeps it, and the properties   *)
(* follow.                                                                 *)
(***************************************************************************)
LEMMA InitGood == Init => Good(proc)
<1> SUFFICES ASSUME Init PROVE Good(proc)
  OBVIOUS
<1>1. /\ proc.fds = [n \in Fds |-> Free] /\ proc.holds = [who \in Owners |-> Closed]
      /\ proc.gem = [f \in NewFiles |-> NoHandles] /\ proc.bo = [x \in Names |-> NoBO]
      /\ proc.exe = "none"
      /\ proc = [fds |-> proc.fds, holds |-> proc.holds, gem |-> proc.gem,
                 bo |-> proc.bo, exe |-> proc.exe]
  BY DEF Init
<1>2. /\ Closed \in [n : Fds \cup {Free}, file : Files] /\ Closed.n = Free
      /\ NoHandles \in [Handles -> Names \cup {""}]
      /\ \A h \in Handles : NoHandles[h] = ""
  BY Numerals DEF Closed, NoHandles, OtherFile
<1>3. proc \in States
  <2>1. proc.fds \in [Fds -> {Free} \cup Files] /\ proc.exe \in {"none", "with_bos", "without"}
    BY <1>1
  <2>2. proc.holds \in [Owners -> [n : Fds \cup {Free}, file : Files]]
    BY <1>1, <1>2
  <2>3. proc.gem \in [NewFiles -> [Handles -> Names \cup {""}]]
    <3> DEFINE S == [Handles -> Names \cup {""}]
    <3>1. NoHandles \in S /\ proc.gem = [f \in NewFiles |-> NoHandles]
      BY <1>1, <1>2
    <3> HIDE DEF S
    <3>2. proc.gem \in [NewFiles -> S]
      BY <3>1
    <3> QED BY <3>2 DEF S
  <2>4. proc.bo \in [Names -> [n : Fds \cup {0}, h : Handles \cup {0}, file : Files]]
    BY <1>1, NoBOIsOne
  <2> QED BY <1>1, <2>1, <2>2, <2>3, <2>4 DEF States
<1>4. \A who \in Owners : ~IsOpen(proc, who)
  BY <1>1, <1>2 DEF IsOpen
<1>5. /\ \A n \in Fds : proc.fds[n] = Free
      /\ \A f \in NewFiles, h \in Handles : proc.gem[f][h] = ""
      /\ \A x \in Names : proc.bo[x] = NoBO /\ proc.bo[x].h = 0
  BY <1>1, <1>2, NoBOIsOne
<1>6. Numbers(proc)
  BY <1>5 DEF Numbers
<1>7. Owned(proc)
  BY <1>4, <1>5, Numerals DEF Owned, OtherFile, Free
<1>8. Boxes(proc)
  <2>2. NewFiles # {}
    BY Numerals
  <2>3. \A x \in CnaNames : proc.bo[x].h = 0
    BY <1>5, OwnerIs
  <2> QED BY <1>5, <2>2, <2>3 DEF Boxes, Held
<1>9. "cna" \in Owners /\ "op" \in Owners /\ {"c", "mfd"} \subseteq Owners
  BY DEF Owners
<1>10. CnaReady(proc)
  BY <1>4, <1>9 DEF CnaReady
<1>11. Leakless(proc)
  BY <1>4, <1>9 DEF Leakless
<1>12. ExeKnown(proc)
  BY <1>1, <1>5, <1>11, OwnerIs DEF ExeKnown
<1> QED BY <1>3, <1>4, <1>6, <1>7, <1>8, <1>9, <1>10, <1>12 DEF Good, Core

LEMMA CallGood == ASSUME Good(proc), Call, ~astray' PROVE Good(proc')
<1>1. CASE ClientCreate \/ ClientDestroy
  BY <1>1, ClientCreateGood, ClientDestroyGood
<1>2. CASE \E a \in Arrays : NewArray(a) \/ BufferDestroy(a)
  BY <1>2, NewArrayGood, BufferDestroyGood
<1>3. CASE Compile
  BY <1>3, CompileGood
<1>4. CASE LoadedExecutableDestroy
  BY <1>4, LoadedExecutableDestroyGood
<1>5. CASE \E x, w, out \in Arrays, ok \in BOOLEAN : SlowPath(x, w, out, ok)
  BY <1>5, SlowPathGood
<1>6. CASE \/ \E out \in Arrays, g \in Garbage : BinaryExecute(out, g)
           \/ \E g \in Garbage : BinaryFails(g)
  BY <1>6, BinaryExecuteGood, BinaryFailsGood
<1>7. CASE \E args \in SUBSET Arrays, out \in Arrays, ok \in BOOLEAN, g \in Garbage :
             GraphHost(args, out, ok, g)
  BY <1>7, GraphHostGood
<1>8. CASE CnaSetup \/ CnaClose \/ CnaAttention
  BY <1>8, CnaSetupGood, CnaCloseGood, CnaAttentionGood
<1>9. CASE \E w \in Weights : CnaLoad(w)
  BY <1>9, CnaLoadGood
<1>10. CASE OtherOpen \/ OtherClose
  BY <1>10, OtherOpenGood, OtherCloseGood
<1> QED BY <1>1, <1>2, <1>3, <1>4, <1>5, <1>6, <1>7, <1>8, <1>9, <1>10 DEF Call

LEMMA CallTyped == ASSUME Call, astray \in BOOLEAN PROVE astray' \in BOOLEAN
<1>1. CASE UNCHANGED astray
  BY <1>1
<1>2. CASE \E x, w : astray' = ~NothingElseHeld({x, w})
  BY <1>2
<1>3. CASE \E g : astray' = Hits(proc, g)
  BY <1>3 DEF Hits
<1>4. CASE \E ok, args, g, p : astray' = (ok /\ (~NothingElseHeld(args) \/ Hits(p, g)))
  BY <1>4
<1>5. CASE \E h, p, k : astray' = (Hits(proc, h) \/ Hits(p, k))
  BY <1>5
<1>6. ASSUME NEW a, NewArray(a) \/ BufferDestroy(a) PROVE UNCHANGED astray
  BY <1>6 DEF NewArray, BufferDestroy
<1>7. ASSUME Compile PROVE UNCHANGED astray
  BY <1>7 DEF Compile
<1>8. ASSUME NEW x, NEW w, NEW out, NEW ok, SlowPath(x, w, out, ok)
      PROVE  astray' = ~NothingElseHeld({x, w})
  BY <1>8 DEF SlowPath
<1>9. ASSUME NEW out, NEW g, BinaryExecute(out, g) PROVE astray' = Hits(proc, g)
  BY <1>9 DEF BinaryExecute
<1>10. ASSUME NEW g, BinaryFails(g) PROVE UNCHANGED astray \/ astray' = Hits(proc, g)
  BY <1>10 DEF BinaryFails
<1>11. ASSUME NEW args, NEW out, NEW ok, NEW g, GraphHost(args, out, ok, g)
       PROVE  \E p : astray' = (ok /\ (~NothingElseHeld(args) \/ Hits(p, g)))
  BY <1>11 DEF GraphHost
<1>12. ASSUME CnaAttention PROVE \E h, p, k : astray' = (Hits(proc, h) \/ Hits(p, k))
  BY <1>12 DEF CnaAttention
<1>13. ASSUME NEW w, CnaLoad(w) PROVE UNCHANGED astray
  BY <1>13 DEF CnaLoad
<1>14. ASSUME \/ ClientCreate \/ ClientDestroy \/ LoadedExecutableDestroy
              \/ CnaSetup \/ CnaClose \/ OtherOpen \/ OtherClose
       PROVE  UNCHANGED astray
  BY <1>14 DEF ClientCreate, ClientDestroy, LoadedExecutableDestroy, CnaSetup, CnaClose,
               OtherOpen, OtherClose
<1> QED BY <1>1, <1>2, <1>3, <1>4, <1>5, <1>6, <1>7, <1>8, <1>9, <1>10, <1>11, <1>12, <1>13,
           <1>14 DEF Call

LEMMA Always == Spec => []IInv
<1>1. Init => IInv
  <2>1. Init => astray \in BOOLEAN
    BY DEF Init
  <2> QED BY <2>1, InitGood DEF IInv
<1>2. IInv /\ [Next]_vars => IInv'
  <2>1. IInv' <=> astray' \in BOOLEAN /\ (~astray' => Good(proc'))
    BY DEF IInv, Good
  <2>2. CASE Next
    BY <2>1, <2>2, CallGood, CallTyped DEF Next, IInv
  <2>3. CASE UNCHANGED vars
    BY <2>1, <2>3 DEF IInv, vars
  <2> QED BY <2>2, <2>3
<1> QED BY <1>1, <1>2, PTL DEF Spec

\* Type correctness of the process's numbers, whatever calls JAX and the users of
\* the CNA context make and however they fail, until a call goes astray: two numbers
\* are never one open of the device, a file that nobody has open has no handles, and
\* an executable remembers all its BOs or none.
THEOREM HandlesTyped == Spec => []TypeOK
<1>1. IInv => TypeOK
  <2> SUFFICES ASSUME IInv, ~astray PROVE TypeOK
    BY DEF IInv, TypeOK
  <2>0. astray \in BOOLEAN
    BY DEF IInv
  <2>1. proc \in States /\ Numbers(proc) /\ ExeKnown(proc)
    BY DEF IInv, Good, Core
  <2>2. /\ proc.fds \in [Fds -> {Free, OtherFile} \cup NewFiles]
        /\ proc.exe \in {"none", "with_bos", "without"}
        /\ DOMAIN proc.fds = Fds
    BY <2>1 DEF States, Files
  <2>3. /\ proc.holds \in [Owners -> [n : Fds \cup {Free}, file : {OtherFile} \cup NewFiles]]
        /\ proc.bo \in [Names -> [n : Fds \cup {0}, h : Handles \cup {0},
                                  file : {OtherFile} \cup NewFiles]]
    BY <2>1 DEF States, Files
  <2>4. ASSUME NEW f \in NewFiles, f \notin Range(proc.fds) PROVE proc.gem[f] = NoHandles
    <3>1. \A h \in Handles : proc.gem[f][h] = ""
      BY <2>1, <2>2, <2>4 DEF Numbers, Range
    <3>2. proc.gem[f] \in [Handles -> Names \cup {""}]
      BY <2>1 DEF States
    <3> QED BY <3>1, <3>2 DEF NoHandles
  <2>5. \A m, n \in Fds : proc.fds[m] = proc.fds[n] => m = n \/ proc.fds[m] = Free
    BY <2>1 DEF Numbers
  <2>6. proc.exe = "with_bos" => \A x \in Activation : proc.bo[x].h # 0
    BY <2>1 DEF ExeKnown
  <2> QED BY <2>0, <2>2, <2>3, <2>4, <2>5, <2>6 DEF TypeOK
<1> QED BY <1>1, Always, PTL

\* Nothing but a handle or garbage given to close(2) takes a number from its owner:
\* until attention or npu_bo_free closes the number of an open file, or c->fd is
\* closed under a BO that is held, the client, the cache and the CNA context never
\* transfer through, or close, an fd of somebody else.  Slow paths that hand the
\* number of c->fd to the cache, host executors and set-ups come in any order.
THEOREM NumbersAreOwned == Spec => []FdsOwned
<1>1. IInv => FdsOwned
  <2> SUFFICES ASSUME IInv, ~astray PROVE FdsStay
    BY DEF FdsOwned
  <2>1. proc \in States /\ Numbers(proc) /\ Owned(proc)
    BY DEF IInv, Good, Core
  <2>2. \A who \in Owners : IsOpen(proc, who) =>
            /\ proc.holds[who].n \in Fds
            /\ proc.fds[proc.holds[who].n] = proc.holds[who].file
    BY <2>1, OwnNumber
  <2> QED BY <2>2 DEF FdsStay, FileAt
<1> QED BY <1>1, Always, PTL

\* Until such a step, a BO that is still going to be used or freed is the BO its
\* number and handle name.  That c->fd is not closed under an array that is held
\* is one of the steps: the code does not see to it, though it says it does
\* (pjrt_npu_impl.c:252-256), and this theorem says nothing of what follows it.
THEOREM BosStayLive == Spec => []HeldBosLive
<1>1. IInv => HeldBosLive
  <2> SUFFICES ASSUME IInv, ~astray, NEW x \in Remembered PROVE IsLive(x)
    BY DEF HeldBosLive
  <2>1. proc \in States /\ Numbers(proc) /\ Owned(proc) /\ Boxes(proc)
    BY DEF IInv, Good, Core
  <2>2. x \in Names /\ Held(proc, x)
    BY DEF Remembered, Held
  <2>3. /\ IsOpen(proc, OwnerOf(x))
        /\ proc.bo[x].n = proc.holds[OwnerOf(x)].n
        /\ proc.bo[x].file = proc.holds[OwnerOf(x)].file
        /\ proc.gem[proc.bo[x].file][proc.bo[x].h] = x
    BY <2>1, <2>2 DEF Boxes
  <2>4. /\ proc.holds[OwnerOf(x)].n \in Fds
        /\ proc.fds[proc.holds[OwnerOf(x)].n] = proc.holds[OwnerOf(x)].file
    BY <2>1, <2>2, <2>3, OwnNumber, OwnerIs
  <2> QED BY <2>3, <2>4 DEF IsLive, FileAt
<1> QED BY <1>1, Always, PTL

\* Each live handle of the client and of the cache is remembered by whoever is to
\* free it, those of an executable by an executable that has_relu_bos, until a call
\* goes astray: nothing but a compile or call that fails leaves a BO behind.
THEOREM HandlesAreRemembered == Spec => []NothingElseLeaks
<1>1. IInv => NothingElseLeaks
  <2> SUFFICES ASSUME IInv, ~astray, NEW who \in {"c", "mfd"}, NEW h \in Handles,
                      IsOpen(proc, who), At(proc, who, h) \notin {"", Lost}
               PROVE  /\ proc.bo[At(proc, who, h)].h = h
                      /\ proc.bo[At(proc, who, h)].file = proc.holds[who].file
                      /\ At(proc, who, h) \in Activation => proc.exe = "with_bos"
    BY DEF NothingElseLeaks, At
  <2>1. ExeKnown(proc) /\ Leakless(proc)
    BY DEF IInv, Good, ExeKnown
  <2>2. Remembers(proc, who, h)
    BY <2>1 DEF Leakless
  <2>3. proc.bo[At(proc, who, h)].h # 0
    BY <2>2, Numerals DEF Remembers
  <2> QED BY <2>1, <2>2, <2>3 DEF Remembers, ExeKnown
<1> QED BY <1>1, Always, PTL
===============================================================================
