---------------------- MODULE InstallationManagerProofs ---------------------
(***************************************************************************)
(* Safety of InstallationManager for any manifest, any requests and any    *)
(* number of operations and crashes.  An install goes through the first    *)
(* places of its list in order (Places), so the shared base is the first   *)
(* it installs and the last it rolls back (BaseFirst); whatever it finds   *)
(* or puts there beside what it recorded is history (Known).               *)
(***************************************************************************)
EXTENDS InstallationManager, TLAPS, WellFoundedInduction

Installing == stage \in {"check", "install"}

\* What is left to see to, and what an install has seen to.
Places ==
    stage \in {"check", "install", "rollback"} =>
        /\ list # <<>> /\ list[1] = GeoCommon
        /\ Elements(list) = asked
        /\ todo \subseteq FirstPlaces(list)
        /\ Installing => \A p \in asked : p \in installed \/ \E i \in todo : list[i] = p
        /\ Elements(newly) \subseteq asked
        /\ stage = "install" => \A i \in todo : IsNext(i) => list[i] \notin installed
        /\ Installing => \A i \in todo : \A k \in DOMAIN newly : newly[k] # list[i]

\* No package is recorded twice, and the base before any other.
BaseFirst ==
    stage \in {"check", "install", "rollback"} =>
        /\ \A i, j \in DOMAIN newly : newly[i] = newly[j] => i = j
        /\ GeoCommon \in Elements(newly) => newly[1] = GeoCommon
        /\ Installing /\ 1 \in todo => newly = <<>>
        /\ Installing /\ 1 \notin todo => GeoCommon \in installed

\* What is installed now that was not before, and what was not lost.
Known ==
    /\ stage \in {"check", "install", "rollback"} =>
          /\ Elements(newly) \cap before = {} /\ rolled \cap before = {}
          /\ rolled \cap installed = {}
          /\ installed \ before \subseteq Elements(newly) \cup unseen \cup stuck
    /\ Installing => rolled = {}
    /\ GeoCommon \notin before => before \cap Servers \subseteq unseen \cup stuck
    /\ stage = "remove" => asked \subseteq Servers
    /\ stage # "idle" => reply = "none"

Inv ==
    /\ TypeOK
    /\ Places
    /\ BaseFirst
    /\ Known
    /\ OthersUntouched
    /\ AllOrNothing

-----------------------------------------------------------------------------
(* Sequences and their first places.                                        *)

LEMMA LeastOf ==
    ASSUME NEW T \in SUBSET Nat, T # {}
    PROVE  \E x \in T : \A y \in T : x <= y
<1> DEFINE R == OpToRel(<, Nat)
<1>1. \A x, y \in Nat : <<x, y>> \in R <=> x < y
  BY DEF OpToRel
<1>2. IsWellFoundedOn(R, Nat)
  BY NatLessThanWellFounded
<1> HIDE DEF R
<1>3. PICK x \in T : \A y \in T : ~(<<y, x>> \in R)
  BY <1>2, WFMin
<1>4. \A y \in T : x <= y
  <2> SUFFICES ASSUME NEW y \in T PROVE x <= y
    OBVIOUS
  <2>1. x \in Nat /\ y \in Nat /\ ~(y < x)
    BY <1>1, <1>3
  <2> QED
    BY <2>1
<1> QED
  BY <1>4

\* Whatever a sequence holds, it holds at a first place, and the first place of
\* all is one.
LEMMA FirstPlacesSuffice ==
    ASSUME NEW S, NEW q \in Seq(S), q # <<>>
    PROVE  /\ FirstPlaces(q) \subseteq DOMAIN q
           /\ 1 \in FirstPlaces(q)
           /\ \A p \in Elements(q) : \E i \in FirstPlaces(q) : q[i] = p
           /\ \A i, j \in FirstPlaces(q) : q[i] = q[j] => i = j
<1>1. DOMAIN q = 1..Len(q) /\ Len(q) \in Nat /\ Len(q) # 0
  OBVIOUS
<1>2. FirstPlaces(q) \subseteq DOMAIN q
  BY DEF FirstPlaces
<1>3. 1 \in FirstPlaces(q)
  BY <1>1 DEF FirstPlaces
<1>4. ASSUME NEW p \in Elements(q)
      PROVE  \E i \in FirstPlaces(q) : q[i] = p
  <2> DEFINE T == {i \in DOMAIN q : q[i] = p}
  <2>1. T \in SUBSET Nat /\ T # {}
    BY <1>1 DEF Elements
  <2> HIDE DEF T
  <2>2. PICK i \in T : \A j \in T : i <= j
    BY <2>1, LeastOf
  <2>3. i \in DOMAIN q /\ q[i] = p
    BY DEF T
  <2>4. ASSUME NEW j \in 1..i - 1 PROVE q[j] # q[i]
    <3>1. j \in DOMAIN q /\ ~(i <= j)
      BY <1>1, <2>3
    <3>2. j \notin T
      BY <2>2, <3>1
    <3> QED
      BY <2>3, <3>1, <3>2 DEF T
  <2> QED
    BY <2>3, <2>4 DEF FirstPlaces
<1>5. ASSUME NEW i \in FirstPlaces(q), NEW j \in FirstPlaces(q), q[i] = q[j]
      PROVE  i = j
  <2>1. i \in Nat /\ j \in Nat /\ i >= 1 /\ j >= 1
    BY <1>1, <1>2
  <2>2. ~(i < j) /\ ~(j < i)
    BY <1>5, <2>1 DEF FirstPlaces
  <2> QED
    BY <2>1, <2>2
<1> QED
  BY <1>2, <1>3, <1>4, <1>5

LEMMA AppendIs ==
    ASSUME NEW S, NEW q \in Seq(S), NEW p \in S
    PROVE  /\ Append(q, p) \in Seq(S)
           /\ Elements(Append(q, p)) = Elements(q) \cup {p}
           /\ \A i \in DOMAIN Append(q, p) :
                 (i \in DOMAIN q /\ Append(q, p)[i] = q[i])
                 \/ (i = Len(q) + 1 /\ Append(q, p)[i] = p)
           /\ q = <<>> => Append(q, p)[1] = p
           /\ q # <<>> => Append(q, p)[1] = q[1]
           /\ DOMAIN q = 1..Len(q) /\ Len(q) \in Nat
<1>1. /\ Append(q, p) \in Seq(S)
      /\ DOMAIN Append(q, p) = 1..Len(q) + 1 /\ DOMAIN q = 1..Len(q) /\ Len(q) \in Nat
      /\ \A i \in 1..Len(q) : Append(q, p)[i] = q[i]
      /\ Append(q, p)[Len(q) + 1] = p
  OBVIOUS
<1>2. 1..Len(q) + 1 = (1..Len(q)) \cup {Len(q) + 1}
  BY <1>1
<1>3. Elements(Append(q, p)) = Elements(q) \cup {p}
  BY <1>1, <1>2 DEF Elements
<1>4. q # <<>> => 1 \in 1..Len(q)
  OBVIOUS
<1>5. q = <<>> => Len(q) + 1 = 1
  OBVIOUS
<1> QED
  BY <1>1, <1>2, <1>3, <1>4, <1>5

\* Taking the last element off.
LEMMA FrontIs ==
    ASSUME NEW S, NEW q \in Seq(S), q # <<>>,
           \A i, j \in DOMAIN q : q[i] = q[j] => i = j
    PROVE  LET front == SubSeq(q, 1, Len(q) - 1)
               last == q[Len(q)]
           IN  /\ front \in Seq(S) /\ last \in S /\ last \in Elements(q)
               /\ Elements(front) = Elements(q) \ {last}
               /\ \A i, j \in DOMAIN front : front[i] = front[j] => i = j
               /\ front # <<>> => front[1] = q[1]
               /\ last = q[1] => front = <<>>
<1> DEFINE n == Len(q)
           front == SubSeq(q, 1, n - 1)
<1>1. DOMAIN q = 1..n /\ n \in Nat \ {0}
  OBVIOUS
<1>2. n \in DOMAIN q /\ 1 \in DOMAIN q
  BY <1>1
<1>3. /\ front \in Seq(S) /\ Len(front) = n - 1 /\ DOMAIN front = 1..n - 1
      /\ \A i \in 1..n - 1 : front[i] = q[i]
  BY <1>1
<1>4. 1..n = (1..n - 1) \cup {n} /\ n \notin 1..n - 1
  BY <1>1
<1> HIDE DEF front, n
<1>5. Elements(front) = Elements(q) \ {q[n]}
  <2>1. Elements(front) = {q[i] : i \in 1..n - 1}
    BY <1>3 DEF Elements
  <2>2. \A i \in 1..n - 1 : q[i] # q[n]
    BY <1>1, <1>2, <1>4
  <2> QED
    BY <1>1, <1>4, <2>1, <2>2 DEF Elements
<1>6. \A i, j \in DOMAIN front : front[i] = front[j] => i = j
  BY <1>1, <1>3, <1>4
<1>7. front # <<>> => 1 \in 1..n - 1
  BY <1>3
<1>8. q[n] = q[1] => front = <<>>
  <2>1. q[n] = q[1] => n = 1
    BY <1>2
  <2> QED
    BY <1>3, <2>1
<1>9. q[n] \in S /\ q[n] \in Elements(q)
  BY <1>1, <1>2 DEF Elements
<1> QED
  BY <1>3, <1>5, <1>6, <1>7, <1>8, <1>9 DEF front, n

LEMMA ListedIs ==
    ASSUME NEW request \in Requests
    PROVE  /\ Listed(request) # <<>> /\ Listed(request)[1] = GeoCommon
           /\ Elements(Listed(request)) = Elements(request) \cup {GeoCommon}
           /\ Elements(request) \subseteq Packages \cup Unknown
           /\ Elements(request) \cap Unknown = {} => Listed(request) \in Seq(Packages)
<1> DEFINE q == request
           l == Listed(request)
<1>1. q \in Seq(Packages \cup Unknown)
  BY InstallAssumption
<1>2. DOMAIN q = 1..Len(q) /\ Len(q) \in Nat /\ \A i \in 1..Len(q) : q[i] \in Packages \cup Unknown
  BY <1>1
<1>3. l = <<GeoCommon>> \o q
  BY DEF Listed
<1>4. <<GeoCommon>> \in Seq(Packages \cup Unknown)
  BY DEF Packages
<1>5. /\ l \in Seq(Packages \cup Unknown) /\ Len(l) = Len(q) + 1 /\ DOMAIN l = 1..Len(q) + 1
      /\ l[1] = GeoCommon /\ \A i \in 1..Len(q) : l[i + 1] = q[i]
  BY <1>1, <1>3, <1>4
<1> HIDE DEF l
<1>6. \A j \in 1..Len(q) + 1 : j = 1 \/ \E i \in 1..Len(q) : j = i + 1
  <2> SUFFICES ASSUME NEW j \in 1..Len(q) + 1, j # 1
               PROVE  \E i \in 1..Len(q) : j = i + 1
    OBVIOUS
  <2>1. j - 1 \in 1..Len(q) /\ j = (j - 1) + 1
    BY <1>2
  <2> QED
    BY <2>1
<1>7. \A i \in 1..Len(q) : i + 1 \in 1..Len(q) + 1
  BY <1>2
<1>8. 1 \in 1..Len(q) + 1
  BY <1>2
<1>9. Elements(l) = Elements(q) \cup {GeoCommon}
  BY <1>2, <1>5, <1>6, <1>7, <1>8 DEF Elements
<1>10. Elements(q) \subseteq Packages \cup Unknown
  BY <1>2 DEF Elements
<1>11. ASSUME Elements(q) \cap Unknown = {} PROVE l \in Seq(Packages)
  <2>1. \A i \in DOMAIN l : l[i] \in Packages
    BY <1>9, <1>10, <1>11 DEF Elements, Packages
  <2>2. l \in [1..Len(l) -> Packages] /\ Len(l) \in Nat
    BY <1>5, <2>1
  <2> QED
    BY <2>2
<1>12. l # <<>>
  BY <1>2, <1>5
<1> QED
  BY <1>5, <1>9, <1>10, <1>11, <1>12 DEF l

LEMMA InitInv == Init => Inv
<1> SUFFICES ASSUME Init PROVE Inv
  OBVIOUS
<1>1. TypeOK
  BY InstallAssumption DEF Init, TypeOK
<1>2. BaseKept /\ (GeoCommon \notin before => before \cap Servers \subseteq unseen \cup stuck)
  BY DEF Init, BaseKept
<1> QED
  BY <1>1, <1>2 DEF Init, Inv, Places, BaseFirst, Known, OthersUntouched, AllOrNothing, Installing

LEMMA InstallKeepsInv ==
    ASSUME Inv, NEW request \in Requests, Install(request)
    PROVE  Inv'
<1>1. /\ stage = "idle" /\ ops < MaxOps /\ ops' = ops + 1 /\ before' = installed
      /\ asked' = Elements(request) \cup {GeoCommon} /\ newly' = <<>> /\ rolled' = {}
      /\ failed' = NoModule /\ UNCHANGED <<installed, crashes, unseen, stuck>>
  BY DEF Install, Begin
<1>2. ops' \in 0..MaxOps /\ asked' \subseteq Packages \cup Unknown /\ <<>> \in Seq(Packages)
  <2>1. ops \in 0..MaxOps /\ MaxOps \in Nat
    BY InstallAssumption DEF Inv, TypeOK
  <2>2. ops' \in 0..MaxOps
    BY <1>1, <2>1
  <2>3. Elements(request) \subseteq Packages \cup Unknown
    BY ListedIs
  <2> QED
    BY <1>1, <2>2, <2>3 DEF Packages
<1>3. BaseKept /\ BaseKept' /\ OthersUntouched'
  BY <1>1 DEF Inv, AllOrNothing, BaseKept, OthersUntouched
<1>4. GeoCommon \notin before' => before' \cap Servers \subseteq unseen' \cup stuck'
  BY <1>1, <1>3 DEF BaseKept
<1>5. CASE Elements(request) \cap Unknown # {}
  <2>1. reply' = "validation" /\ UNCHANGED <<stage, list, todo>>
    BY <1>5 DEF Install
  <2>2. TypeOK'
    BY <1>1, <1>2, <2>1 DEF Inv, TypeOK
  <2> QED
    BY <1>1, <1>3, <1>4, <2>1, <2>2
    DEF Inv, Places, BaseFirst, Known, AllOrNothing, Installing
<1>6. CASE Elements(request) \cap Unknown = {}
  <2>1. /\ reply' = "none" /\ stage' = "check" /\ list' = Listed(request)
        /\ todo' = FirstPlaces(Listed(request))
    BY <1>6 DEF Install
  <2>2. /\ list' # <<>> /\ list'[1] = GeoCommon /\ list' \in Seq(Packages)
        /\ Elements(list') = asked'
    BY <1>1, <1>6, <2>1, ListedIs
  <2>3. /\ todo' = FirstPlaces(list') /\ todo' \subseteq DOMAIN list' /\ 1 \in todo'
        /\ \A p \in Elements(list') : \E i \in todo' : list'[i] = p
    BY <2>1, <2>2, FirstPlacesSuffice
  <2>4. TypeOK'
    BY <1>1, <1>2, <2>1, <2>2, <2>3 DEF Inv, TypeOK
  <2>5. Elements(newly') = {} /\ \A k \in DOMAIN newly' : FALSE
    BY <1>1 DEF Elements
  <2>6. Places' /\ BaseFirst'
    BY <1>1, <2>1, <2>2, <2>3, <2>5 DEF Places, BaseFirst, Installing
  <2>7. Known' /\ AllOrNothing'
    BY <1>1, <1>3, <1>4, <2>1, <2>5 DEF Known, AllOrNothing, Installing
  <2> QED
    BY <1>3, <2>4, <2>6, <2>7 DEF Inv
<1> QED
  BY <1>5, <1>6

LEMMA RemoveKeepsInv ==
    ASSUME Inv, NEW name \in Packages \cup Unknown, Remove(name)
    PROVE  Inv'
<1>1. /\ stage = "idle" /\ ops < MaxOps /\ ops' = ops + 1 /\ before' = installed
      /\ asked' = {name} /\ newly' = <<>> /\ rolled' = {}
      /\ failed' = NoModule /\ UNCHANGED <<installed, list, todo, crashes, unseen, stuck>>
      /\ \/ reply' \in {"validation", "uvx error", "not-found"} /\ stage' = stage
         \/ name \in Servers /\ reply' = "none" /\ stage' = "remove"
  BY DEF Remove, Begin
<1>2. ops' \in 0..MaxOps /\ asked' \subseteq Packages \cup Unknown /\ <<>> \in Seq(Packages)
  <2>1. ops \in 0..MaxOps /\ MaxOps \in Nat
    BY InstallAssumption DEF Inv, TypeOK
  <2>2. ops < MaxOps /\ ops' = ops + 1 /\ asked' = {name}
    BY <1>1
  <2>3. ops' \in 0..MaxOps
    BY <2>1, <2>2
  <2> QED
    BY <2>2, <2>3
<1>3. BaseKept /\ BaseKept' /\ OthersUntouched'
  BY <1>1 DEF Inv, AllOrNothing, BaseKept, OthersUntouched
<1>4. GeoCommon \notin before' => before' \cap Servers \subseteq unseen' \cup stuck'
  BY <1>1, <1>3 DEF BaseKept
<1>5. TypeOK'
  BY <1>1, <1>2 DEF Inv, TypeOK
<1>6. stage' \in {"idle", "remove"} /\ (stage' = "remove" => asked' \subseteq Servers /\ reply' = "none")
      /\ reply' \notin {"report", "upstream"}
  BY <1>1
<1> QED
  BY <1>1, <1>3, <1>4, <1>5, <1>6
  DEF Inv, Places, BaseFirst, Known, AllOrNothing, Installing

\* Facts about the position the loop is at.
LEMMA AtPosition ==
    ASSUME Inv, Installing, NEW i \in todo, IsNext(i)
    PROVE  /\ list \in Seq(Packages) /\ todo \subseteq DOMAIN list /\ i \in DOMAIN list
           /\ list[i] \in Packages /\ list[i] \in asked
           /\ \A k \in DOMAIN newly : newly[k] # list[i]
           /\ \A j \in After(i) : list[j] # list[i]
           /\ i # 1 => 1 \notin todo /\ list[i] # GeoCommon
           /\ i = 1 => list[i] = GeoCommon
           /\ rolled = {} /\ reply = "none"
<1>1. stage \in {"check", "install", "rollback"} /\ stage # "idle"
  BY DEF Installing
<1>2. /\ list # <<>> /\ list[1] = GeoCommon /\ Elements(list) = asked
      /\ todo \subseteq FirstPlaces(list)
      /\ \A k \in DOMAIN newly : newly[k] # list[i]
  BY <1>1 DEF Inv, Places
<1>3. list \in Seq(Packages) /\ todo \subseteq DOMAIN list
  BY DEF Inv, TypeOK
<1>4. i \in DOMAIN list /\ list[i] \in Packages /\ list[i] \in asked /\ i \in Nat \ {0}
  BY <1>2, <1>3 DEF Elements
<1>5. \A j \in todo : list[j] = list[i] => j = i
  BY <1>2, <1>3, FirstPlacesSuffice
<1>6. i # 1 => 1 \notin todo
  BY <1>4 DEF IsNext
<1>7. i # 1 => list[i] # GeoCommon
  <2>1. 1 \in FirstPlaces(list) /\ i \in FirstPlaces(list)
    BY <1>2, <1>3, FirstPlacesSuffice
  <2> QED
    BY <1>2, <1>3, <2>1, FirstPlacesSuffice
<1> QED
  BY <1>1, <1>2, <1>3, <1>4, <1>5, <1>6, <1>7 DEF After, Inv, Known

\* A command of the loop failed: with nothing installed, or with the package
\* installed and not recorded.
LEMMA FailKeepsInv ==
    ASSUME Inv, Installing, NEW i \in todo, IsNext(i),
           stage' = "rollback", failed' \in Packages \cup {NoModule},
           UNCHANGED <<list, todo, newly, rolled, reply, told, stuck>>,
           \/ UNCHANGED <<installed, unseen>>
           \/ /\ stage = "install"
              /\ installed' = installed \cup {list[i]} /\ unseen' = unseen \cup {list[i]}
    PROVE  Inv'
<1>1. /\ list[i] \in Packages /\ list[i] \in asked /\ (i # 1 => 1 \notin todo)
      /\ (i = 1 => list[i] = GeoCommon)
      /\ rolled = {} /\ reply = "none"
  BY AtPosition
<1>2. /\ installed \subseteq installed' /\ unseen \subseteq unseen'
      /\ installed' \subseteq installed \cup {list[i]}
      /\ installed' \ installed \subseteq unseen'
      /\ unseen' \subseteq unseen \cup {list[i]}
  OBVIOUS
<1>3. stage \in {"check", "install", "rollback"}
  BY DEF Installing
<1>4. /\ ops' = ops /\ crashes' = crashes /\ before' = before /\ asked' = asked
  BY DEF told
<1>5. TypeOK'
  BY <1>1, <1>2, <1>4 DEF Inv, TypeOK
<1>6. Places' /\ BaseFirst'
  BY <1>3, <1>4 DEF Inv, Places, BaseFirst, Installing
<1>7. Known'
  BY <1>1, <1>2, <1>3, <1>4 DEF Inv, Known, Installing
<1>8. OthersUntouched'
  BY <1>1, <1>2, <1>3, <1>4 DEF Inv, OthersUntouched
<1>9. AllOrNothing'
  <2>1. BaseKept'
    BY <1>2 DEF Inv, AllOrNothing, BaseKept
  <2> QED
    BY <1>1, <2>1 DEF AllOrNothing
<1> QED
  BY <1>5, <1>6, <1>7, <1>8, <1>9 DEF Inv

LEMMA CheckKeepsInv == Inv /\ Check => Inv'
<1> SUFFICES ASSUME Inv, Check PROVE Inv'
  OBVIOUS
<1>1. /\ stage = "check" /\ UNCHANGED <<installed, list, rolled, reply, told, unseen, stuck>>
      /\ ops' = ops /\ crashes' = crashes /\ before' = before /\ asked' = asked
  BY DEF Check, told
<1>2. PICK i \in todo :
         /\ IsNext(i)
         /\ \/ /\ IsInstalled(list[i]) /\ todo' = After(i)
               /\ UNCHANGED <<stage, newly, failed>>
            \/ ~IsInstalled(list[i]) /\ stage' = "install" /\ UNCHANGED <<todo, newly, failed>>
            \/ Fail(NoModule)
  BY DEF Check
<1>3. Installing
  BY <1>1 DEF Installing
<1>4. CASE Fail(NoModule)
  BY <1>1, <1>2, <1>3, <1>4, FailKeepsInv DEF Fail
<1>5. CASE ~IsInstalled(list[i]) /\ stage' = "install" /\ UNCHANGED <<todo, newly, failed>>
  <2>1. ASSUME NEW j \in todo, IsNext(j) PROVE j = i
    <3>1. todo \subseteq Nat
      <4>1. list \in Seq(Packages) /\ todo \subseteq DOMAIN list
        BY DEF Inv, TypeOK
      <4>2. DOMAIN list = 1..Len(list) /\ Len(list) \in Nat
        BY <4>1
      <4> QED
        BY <4>1, <4>2
    <3> QED
      BY <1>2, <2>1, <3>1 DEF IsNext
  <2>2. \A j \in todo' : IsNext(j)' => list'[j] \notin installed'
    BY <1>1, <1>5, <2>1 DEF IsNext, IsInstalled
  <2>3. Places'
    BY <1>1, <1>5, <2>2 DEF Inv, Places, Installing
  <2> QED
    BY <1>1, <1>5, <2>3 DEF Inv, TypeOK, BaseFirst, Known, OthersUntouched, AllOrNothing,
                            BaseKept, Installing
<1>6. CASE IsInstalled(list[i]) /\ todo' = After(i) /\ UNCHANGED <<stage, newly, failed>>
  <2>1. list[i] \in installed /\ todo' = todo \ {i}
    BY <1>6 DEF IsInstalled, After
  <2>2. TypeOK'
    BY <1>1, <1>6, <2>1 DEF Inv, TypeOK
  <2>3. Places'
    BY <1>1, <1>3, <1>6, <2>1 DEF Inv, Places, Installing
  <2>4. BaseFirst'
    <3>1. (i # 1 => 1 \notin todo) /\ (i = 1 => list[i] = GeoCommon)
      BY <1>2, <1>3, AtPosition
    <3> QED
      BY <1>1, <1>3, <1>6, <2>1, <3>1 DEF Inv, BaseFirst, Installing
  <2>5. Known' /\ OthersUntouched' /\ AllOrNothing'
    BY <1>1, <1>6 DEF Inv, Known, OthersUntouched, AllOrNothing, BaseKept, Installing
  <2> QED
    BY <2>2, <2>3, <2>4, <2>5 DEF Inv
<1> QED
  BY <1>2, <1>4, <1>5, <1>6

LEMMA RunInstallKeepsInv == Inv /\ RunInstall => Inv'
<1> SUFFICES ASSUME Inv, RunInstall PROVE Inv'
  OBVIOUS
<1>1. /\ stage = "install" /\ UNCHANGED <<list, rolled, reply, told, stuck>>
      /\ ops' = ops /\ crashes' = crashes /\ before' = before /\ asked' = asked
  BY DEF RunInstall, told
<1>2. PICK i \in todo :
         /\ IsNext(i)
         /\ \/ /\ installed' = installed \cup {list[i]} /\ newly' = Recorded(list[i])
               /\ todo' = After(i) /\ stage' = "check" /\ UNCHANGED <<failed, unseen>>
            \/ Fail(list[i]) /\ UNCHANGED <<installed, unseen>>
            \/ /\ \E module \in {list[i], NoModule} : Fail(module)
               /\ installed' = installed \cup {list[i]}
               /\ unseen' = unseen \cup {list[i]}
  BY DEF RunInstall
<1>3. Installing
  BY <1>1 DEF Installing
<1>4. /\ list[i] \in Packages /\ list[i] \in asked
      /\ \A k \in DOMAIN newly : newly[k] # list[i]
      /\ \A j \in After(i) : list[j] # list[i]
      /\ i # 1 => 1 \notin todo /\ list[i] # GeoCommon
      /\ i = 1 => list[i] = GeoCommon
      /\ rolled = {} /\ reply = "none"
  BY <1>2, <1>3, AtPosition
<1>5. CASE Fail(list[i]) /\ UNCHANGED <<installed, unseen>>
  BY <1>1, <1>2, <1>3, <1>4, <1>5, FailKeepsInv DEF Fail
<1>6. CASE /\ \E module \in {list[i], NoModule} : Fail(module)
           /\ installed' = installed \cup {list[i]}
           /\ unseen' = unseen \cup {list[i]}
  <2>1. stage' = "rollback" /\ failed' \in Packages \cup {NoModule} /\ UNCHANGED <<todo, newly>>
    BY <1>4, <1>6 DEF Fail
  <2> QED
    BY <1>1, <1>2, <1>3, <1>6, <2>1, FailKeepsInv
<1>7. CASE /\ installed' = installed \cup {list[i]} /\ newly' = Recorded(list[i])
           /\ todo' = After(i) /\ stage' = "check" /\ UNCHANGED <<failed, unseen>>
  <2>1. newly \in Seq(Packages) /\ newly' = Append(newly, list[i]) /\ todo' = todo \ {i}
    BY <1>7 DEF Inv, TypeOK, Recorded, After
  <2>2. /\ newly' \in Seq(Packages)
        /\ Elements(newly') = Elements(newly) \cup {list[i]}
        /\ \A j \in DOMAIN newly' :
              (j \in DOMAIN newly /\ newly'[j] = newly[j])
              \/ (j = Len(newly) + 1 /\ newly'[j] = list[i])
        /\ newly = <<>> => newly'[1] = list[i]
        /\ newly # <<>> => newly'[1] = newly[1]
    BY <1>4, <2>1, AppendIs
  <2>3. TypeOK'
    BY <1>1, <1>4, <1>7, <2>1, <2>2 DEF Inv, TypeOK
  <2>4. Places'
    <3>1. \A p \in asked : p \in installed' \/ \E j \in todo' : list[j] = p
      BY <1>3, <1>7, <2>1 DEF Inv, Places, Installing
    <3>2. \A j \in todo' : \A k \in DOMAIN newly' : newly'[k] # list[j]
      BY <1>3, <1>4, <1>7, <2>1, <2>2 DEF Inv, Places, Installing
    <3> QED
      BY <1>1, <1>3, <1>4, <1>7, <2>1, <2>2, <3>1, <3>2 DEF Inv, Places, Installing
  <2>5. BaseFirst'
    <3>1. \A j, k \in DOMAIN newly' : newly'[j] = newly'[k] => j = k
      BY <1>3, <1>4, <2>2 DEF Inv, BaseFirst, Installing
    <3>2. GeoCommon \in Elements(newly') => newly'[1] = GeoCommon
      <4>1. CASE i = 1
        <5>1. newly = <<>>
          BY <1>2, <1>3, <4>1 DEF Inv, BaseFirst, Installing
        <5> QED
          BY <1>4, <2>2, <4>1, <5>1
      <4>2. CASE i # 1
        <5>1. GeoCommon \in Elements(newly') => GeoCommon \in Elements(newly)
          BY <1>4, <2>2, <4>2
        <5>2. GeoCommon \in Elements(newly) => newly # <<>> /\ newly[1] = GeoCommon
          BY <1>3 DEF Inv, BaseFirst, Installing, Elements
        <5> QED
          BY <2>2, <5>1, <5>2
      <4> QED
        BY <4>1, <4>2
    <3>3. 1 \notin todo'
      BY <1>4, <2>1
    <3>4. GeoCommon \in installed'
      BY <1>2, <1>3, <1>4, <1>7 DEF Inv, BaseFirst, Installing
    <3> QED
      BY <3>1, <3>2, <3>3, <3>4 DEF BaseFirst
  <2>6. GeoCommon \in installed'
    BY <1>2, <1>3, <1>4, <1>7 DEF Inv, BaseFirst, Installing
  <2>7. list[i] \notin before /\ before \subseteq installed
    <3>1. list[i] \notin installed
      BY <1>1, <1>2 DEF Inv, Places
    <3> QED
      BY <1>3, <3>1 DEF Inv, OthersUntouched, Installing
  <2>8. Known'
    BY <1>1, <1>3, <1>4, <1>7, <2>2, <2>7 DEF Inv, Known, Installing
  <2>9. OthersUntouched'
    BY <1>1, <1>3, <1>4, <1>7, <2>7 DEF Inv, OthersUntouched, Installing
  <2>10. AllOrNothing'
    BY <1>1, <1>4, <2>6 DEF AllOrNothing, BaseKept
  <2> QED
    BY <2>3, <2>4, <2>5, <2>8, <2>9, <2>10 DEF Inv
<1> QED
  BY <1>2, <1>5, <1>6, <1>7

LEMMA FinishInstallKeepsInv == Inv /\ FinishInstall => Inv'
<1> SUFFICES ASSUME Inv, FinishInstall PROVE Inv'
  OBVIOUS
<1>1. /\ stage = "check" /\ todo = {} /\ stage' = "idle" /\ reply' \in {"report", "uvx error"}
      /\ UNCHANGED <<installed, list, todo, newly, rolled, failed, told, unseen, stuck>>
      /\ ops' = ops /\ crashes' = crashes /\ before' = before /\ asked' = asked
  BY DEF FinishInstall, told
<1>2. asked \subseteq installed
  BY <1>1 DEF Inv, Places, Installing
<1>3. TypeOK'
  BY <1>1 DEF Inv, TypeOK
<1>4. AllOrNothing'
  BY <1>1, <1>2 DEF Inv, AllOrNothing, BaseKept
<1> QED
  BY <1>1, <1>3, <1>4 DEF Inv, Places, BaseFirst, Known, OthersUntouched, Installing

LEMMA RollBackKeepsInv == Inv /\ RollBack => Inv'
<1> SUFFICES ASSUME Inv, RollBack PROVE Inv'
  OBVIOUS
<1> DEFINE p == newly[Len(newly)]
<1>1. /\ stage = "rollback" /\ newly # <<>> /\ newly' = SubSeq(newly, 1, Len(newly) - 1)
      /\ UNCHANGED <<stage, list, todo, failed, reply, told, unseen>>
      /\ ops' = ops /\ crashes' = crashes /\ before' = before /\ asked' = asked
      /\ reply = "none"
  BY DEF RollBack, LeftToRoll, told, Inv, Known
<1>2. \/ /\ installed' = installed \ {p} /\ stuck' = stuck /\ rolled' = rolled \cup {p}
      \/ /\ installed' = installed \ {p} /\ stuck' = stuck /\ rolled' = rolled
      \/ installed' = installed /\ stuck' = stuck \cup {p} /\ rolled' = rolled
  BY DEF RollBack, NextToRoll
<1>3. /\ newly \in Seq(Packages)
      /\ \A i, j \in DOMAIN newly : newly[i] = newly[j] => i = j
  BY <1>1 DEF Inv, TypeOK, BaseFirst
<1>4. /\ newly' \in Seq(Packages) /\ p \in Packages /\ p \in Elements(newly)
      /\ Elements(newly') = Elements(newly) \ {p}
      /\ \A i, j \in DOMAIN newly' : newly'[i] = newly'[j] => i = j
      /\ newly' # <<>> => newly'[1] = newly[1]
      /\ p = newly[1] => newly' = <<>>
  BY <1>1, <1>3, FrontIs
<1>5. p \in asked /\ p \notin before
  BY <1>1, <1>4 DEF Inv, Places, Known
<1>6. TypeOK'
  BY <1>1, <1>2, <1>4 DEF Inv, TypeOK
<1>7. Places'
  BY <1>1, <1>4 DEF Inv, Places, Installing
<1>8. BaseFirst'
  <2>1. GeoCommon \in Elements(newly') => newly'[1] = GeoCommon
    <3>1. GeoCommon \in Elements(newly') => newly' # <<>>
      BY DEF Elements
    <3> QED
      BY <1>1, <1>4, <3>1 DEF Inv, BaseFirst
  <2> QED
    BY <1>1, <1>4, <2>1 DEF BaseFirst, Installing
<1>9. Known'
  BY <1>1, <1>2, <1>4, <1>5 DEF Inv, Known, Installing
<1>10. OthersUntouched'
  BY <1>1, <1>2, <1>5 DEF Inv, OthersUntouched
<1>11. BaseKept'
  <2>1. CASE GeoCommon \notin installed
    BY <1>1, <1>2, <2>1 DEF Inv, AllOrNothing, BaseKept
  <2>2. CASE GeoCommon \in installed /\ p # GeoCommon
    BY <1>2, <2>2 DEF BaseKept
  <2>3. CASE p = GeoCommon
    <3>1. Elements(newly') = {}
      BY <1>1, <1>4, <2>3 DEF Inv, BaseFirst, Elements
    <3>2. Elements(newly) = {GeoCommon}
      BY <1>4, <2>3, <3>1
    <3>3. before \cap Servers \subseteq unseen \cup stuck
      BY <1>5, <2>3 DEF Inv, Known
    <3>4. installed \cap Servers \subseteq unseen \cup stuck
      BY <1>1, <3>2, <3>3, InstallAssumption DEF Inv, Known
    <3> QED
      BY <1>1, <1>2, <3>4 DEF BaseKept
  <2> QED
    BY <2>1, <2>2, <2>3
<1> QED
  BY <1>1, <1>6, <1>7, <1>8, <1>9, <1>10, <1>11 DEF Inv, AllOrNothing

LEMMA FinishRollBackKeepsInv == Inv /\ FinishRollBack => Inv'
<1> SUFFICES ASSUME Inv, FinishRollBack PROVE Inv'
  OBVIOUS
<1>1. /\ stage = "rollback" /\ newly = <<>> /\ stage' = "idle" /\ reply' = "upstream"
      /\ UNCHANGED <<installed, list, todo, newly, rolled, failed, told, unseen, stuck>>
      /\ ops' = ops /\ crashes' = crashes /\ before' = before /\ asked' = asked
  BY DEF FinishRollBack, told
<1>2. Elements(newly) = {}
  BY <1>1 DEF Elements
<1>3. TypeOK'
  BY <1>1 DEF Inv, TypeOK
<1>4. AllOrNothing'
  BY <1>1, <1>2 DEF Inv, Known, OthersUntouched, AllOrNothing, BaseKept
<1> QED
  BY <1>1, <1>3, <1>4 DEF Inv, Places, BaseFirst, Known, OthersUntouched, Installing

LEMMA RunRemoveKeepsInv == Inv /\ RunRemove => Inv'
<1> SUFFICES ASSUME Inv, RunRemove PROVE Inv'
  OBVIOUS
<1>1. /\ stage = "remove" /\ stage' = "idle" /\ reply' \in {"removed", "uvx error"}
      /\ installed' \in {installed, installed \ asked}
      /\ UNCHANGED <<list, todo, newly, rolled, failed, told, unseen, stuck>>
      /\ ops' = ops /\ crashes' = crashes /\ before' = before /\ asked' = asked
  BY DEF RunRemove, told
<1>2. asked \subseteq Servers
  BY <1>1 DEF Inv, Known
<1>3. TypeOK'
  BY <1>1 DEF Inv, TypeOK
<1>4. BaseKept'
  BY <1>1, <1>2, InstallAssumption DEF Inv, AllOrNothing, BaseKept
<1>5. OthersUntouched'
  BY <1>1 DEF Inv, OthersUntouched
<1> QED
  BY <1>1, <1>3, <1>4, <1>5 DEF Inv, Places, BaseFirst, Known, AllOrNothing, Installing

LEMMA CrashKeepsInv == Inv /\ Crash => Inv'
<1> SUFFICES ASSUME Inv, Crash PROVE Inv'
  OBVIOUS
<1>1. /\ crashes < MaxCrashes /\ crashes' = crashes + 1 /\ stage' = "idle" /\ list' = <<>>
      /\ todo' = {} /\ newly' = <<>> /\ rolled' = {} /\ failed' = NoModule /\ reply' = "none"
      /\ UNCHANGED <<installed, ops, before, asked, unseen, stuck>>
  BY DEF Crash
<1>2. crashes' \in 0..MaxCrashes
  <2>1. crashes \in 0..MaxCrashes /\ MaxCrashes \in Nat
    BY InstallAssumption DEF Inv, TypeOK
  <2> QED
    BY <1>1, <2>1
<1>3. <<>> \in Seq(Packages)
  OBVIOUS
<1>4. TypeOK'
  BY <1>1, <1>2, <1>3 DEF Inv, TypeOK
<1>5. Places' /\ BaseFirst' /\ Known'
  BY <1>1 DEF Inv, Places, BaseFirst, Known, Installing
<1>6. OthersUntouched'
  BY <1>1 DEF Inv, OthersUntouched
<1>7. BaseKept'
  BY <1>1 DEF Inv, AllOrNothing, BaseKept
<1>8. AllOrNothing'
  BY <1>1, <1>7 DEF AllOrNothing
<1> QED
  BY <1>4, <1>5, <1>6, <1>8 DEF Inv

LEMMA StepInv == Inv /\ [Next]_vars => Inv'
<1> SUFFICES ASSUME Inv, [Next]_vars
             PROVE  Inv'
  OBVIOUS
<1>1. CASE UNCHANGED vars
  <2>1. TypeOK'
    BY <1>1 DEF vars, Inv, TypeOK
  <2>2. Places'
    BY <1>1 DEF vars, Inv, Places, Installing, IsNext
  <2>3. BaseFirst' /\ Known'
    BY <1>1 DEF vars, Inv, BaseFirst, Known, Installing
  <2>4. OthersUntouched'
    BY <1>1 DEF vars, Inv, OthersUntouched
  <2>5. AllOrNothing'
    BY <1>1 DEF vars, Inv, AllOrNothing, BaseKept
  <2> QED
    BY <2>1, <2>2, <2>3, <2>4, <2>5 DEF Inv
<1>2. CASE \E request \in Requests : Install(request)
  BY <1>2, InstallKeepsInv
<1>3. CASE \E name \in Packages \cup Unknown : Remove(name)
  BY <1>3, RemoveKeepsInv
<1> QED
  BY <1>1, <1>2, <1>3, CheckKeepsInv, RunInstallKeepsInv, FinishInstallKeepsInv,
     RollBackKeepsInv, FinishRollBackKeepsInv, RunRemoveKeepsInv, CrashKeepsInv
  DEF Next, Done

-----------------------------------------------------------------------------

\* Types of the operation in progress.
THEOREM InstallTypes == Spec => []TypeOK
<1>1. Inv => TypeOK
  BY DEF Inv
<1> QED
  BY <1>1, InitInv, StepInv, PTL DEF Spec

\* No operation touches what it was not asked about, whatever fails and whenever
\* the Hub dies.
THEOREM OthersStay == Spec => []OthersUntouched
<1>1. Inv => OthersUntouched
  BY DEF Inv
<1> QED
  BY <1>1, InitInv, StepInv, PTL DEF Spec

\* No server is left without the shared base by a rollback or a death of the Hub.
THEOREM BaseStays == Spec => []BaseKept
<1>1. Inv => BaseKept
  BY DEF Inv, AllOrNothing
<1> QED
  BY <1>1, InitInv, StepInv, PTL DEF Spec

\* An install is reported only when it is whole, and is rolled back but for what
\* the manager could not see or not uninstall.
THEOREM WholeOrNone == Spec => []AllOrNothing
<1>1. Inv => AllOrNothing
  BY DEF Inv
<1> QED
  BY <1>1, InitInv, StepInv, PTL DEF Spec
=============================================================================
