--------------------------- MODULE PlatformProofs ---------------------------
(***************************************************************************)
(* What MCPlatform checks on one instance, for any number of users,        *)
(* requests, repositories and jobs: a behaviour of the platform about one  *)
(* part is a behaviour of that part, so what the part's own specification  *)
(* promises holds of the platform.  Repositories comes first, whose        *)
(* variables are the platform's own, and at the end of it the names of the *)
(* paths inside a repository.                                              *)
(***************************************************************************)
EXTENDS MCPlatform, TLAPS

-----------------------------------------------------------------------------
(***************************************************************************)
(* Repositories, whose variables are the platform's own: a row never       *)
(* stands without its directory, and a slug at rest is whole or free.      *)
(***************************************************************************)

\* The initial values have their types.
LEMMA TypeInit == Init => TypeOK
<1> SUFFICES ASSUME Init PROVE TypeOK
  OBVIOUS
<1>1. owner \in BOOLEAN /\ indexed \in BOOLEAN /\ overlap \in BOOLEAN
  BY Zenon DEF Init
<1>2. call \in [Clients -> [step : Steps, id : Nat]]
  BY DEF Init, Idle, None, Steps
<1>3. row \in Nat /\ ids \in Nat /\ row <= ids /\ dir \in Dirs /\ hook \in Nat /\ faults \in Nat
  BY DEF Init, None, Dirs
<1> QED BY <1>1, <1>2, <1>3 DEF TypeOK

\* Every step keeps the types.
LEMMA TypeStep == TypeOK /\ [Next]_vars => TypeOK'
<1> SUFFICES ASSUME TypeOK, [Next]_vars PROVE TypeOK'
  OBVIOUS
<1> USE DEF TypeOK, At, GoTo, Finish, Fault, Idle, None, Steps, Dirs, files
<1>1. ASSUME NEW c \in Clients, Create(c) PROVE TypeOK'
  BY <1>1 DEF Create
<1>2. ASSUME NEW c \in Clients, SvnAdminCreate(c) PROVE TypeOK'
  BY <1>2 DEF SvnAdminCreate
<1>3. ASSUME NEW c \in Clients, SvnMkdir(c) PROVE TypeOK'
  BY <1>3 DEF SvnMkdir
<1>4. ASSUME NEW c \in Clients, InsertRow(c) PROVE TypeOK'
  <2>1. owner' \in BOOLEAN /\ indexed' \in BOOLEAN /\ overlap' \in BOOLEAN
    BY <1>4, Zenon DEF InsertRow
  <2>2. /\ row' \in Nat /\ ids' \in Nat /\ row' <= ids' /\ faults' \in Nat
        /\ call' \in [Clients -> [step : Steps, id : Nat]]
    BY <1>4 DEF InsertRow
  <2> QED BY <1>4, <2>1, <2>2 DEF InsertRow
<1>5. ASSUME NEW c \in Clients, InstallHooks(c) PROVE TypeOK'
  BY <1>5 DEF InstallHooks
<1>6. ASSUME NEW c \in Clients, MakeOwner(c) PROVE TypeOK'
  <2>1. owner' \in BOOLEAN
    BY <1>6, Zenon DEF MakeOwner
  <2>2. call' \in [Clients -> [step : Steps, id : Nat]]
    BY <1>6 DEF MakeOwner
  <2> QED BY <1>6, <2>1, <2>2 DEF MakeOwner
<1>7. ASSUME NEW c \in Clients, IndexFirst(c) PROVE TypeOK'
  <2>1. indexed' \in BOOLEAN
    BY <1>7 DEF IndexFirst
  <2>2. call' \in [Clients -> [step : Steps, id : Nat]]
    BY <1>7 DEF IndexFirst
  <2> QED BY <1>7, <2>1, <2>2 DEF IndexFirst
<1>8. ASSUME NEW c \in Clients, RemoveRow(c) PROVE TypeOK'
  <2>1. owner' \in BOOLEAN /\ indexed' \in BOOLEAN /\ overlap' \in BOOLEAN
    BY <1>8, Zenon DEF RemoveRow
  <2>2. call' \in [Clients -> [step : Steps, id : Nat]]
    BY <1>8 DEF RemoveRow
  <2> QED BY <1>8, <2>1, <2>2 DEF RemoveRow
<1>9. ASSUME NEW c \in Clients, RemoveContents(c) PROVE TypeOK'
  BY <1>9 DEF RemoveContents
<1>10. ASSUME NEW c \in Clients, RemoveDirectory(c) PROVE TypeOK'
  BY <1>10 DEF RemoveDirectory
<1>11. ASSUME NEW c \in Clients, Fails(c) PROVE TypeOK'
  BY <1>11 DEF Fails
<1>12. CASE RestartApi
  BY <1>12 DEF RestartApi
<1>13. CASE UNCHANGED vars
  BY <1>13 DEF vars
<1> QED BY <1>1, <1>2, <1>3, <1>4, <1>5, <1>6, <1>7, <1>8, <1>9, <1>10, <1>11, <1>12, <1>13 DEF Next

\* The types of the variables hold in every reachable state.
THEOREM TypeCorrect == Spec => []TypeOK
<1>1. Init => TypeOK
  BY TypeInit
<1> QED BY <1>1, TypeStep, PTL DEF Spec

-----------------------------------------------------------------------------
(***************************************************************************)
(* The requests between svnadmin create and the insertion of the row, and  *)
(* between the deletion of the row and that of the files, hold the         *)
(* directory: while one does, the directory is not empty, so svnadmin      *)
(* refuses every other creation, and there is no row that a removal could  *)
(* find.                                                                   *)
(***************************************************************************)

Holder(c) == call[c].step \in {"mkdir", "insert", "clear"}

OneHolder == \A c, d \in Clients : Holder(c) /\ Holder(d) => c = d

HolderAlone ==
  \A c \in Clients : Holder(c) => row = None /\ dir = IF At(c, "mkdir") THEN "bare" ELSE "layout"

IInv == TypeOK /\ OneHolder /\ HolderAlone /\ RowHasDirectory

\* Nobody holds a directory that svnadmin accepts, or that of a row.
LEMMA NoHolder ==
  ASSUME IInv, dir \in {"absent", "empty"} \/ row # None
  PROVE  \A c \in Clients : ~Holder(c)
BY DEF IInv, HolderAlone

\* Every step keeps the invariant.
LEMMA Inductive == IInv /\ [Next]_vars => IInv'
<1> SUFFICES ASSUME IInv, [Next]_vars PROVE (OneHolder /\ HolderAlone /\ RowHasDirectory)'
  BY TypeStep DEF IInv
<1> USE DEF IInv, TypeOK, OneHolder, HolderAlone, RowHasDirectory, Holder, At, GoTo, Finish, Idle, None, files
<1>1. ASSUME NEW c \in Clients, Create(c) PROVE (OneHolder /\ HolderAlone /\ RowHasDirectory)'
  BY <1>1 DEF Create
<1>2. ASSUME NEW c \in Clients, SvnAdminCreate(c) PROVE (OneHolder /\ HolderAlone /\ RowHasDirectory)'
  <2>1. CASE dir \in {"absent", "empty"}
    BY <1>2, <2>1, NoHolder DEF SvnAdminCreate
  <2>2. CASE dir \notin {"absent", "empty"}
    BY <1>2, <2>2 DEF SvnAdminCreate
  <2> QED BY <2>1, <2>2
<1>3. ASSUME NEW c \in Clients, SvnMkdir(c) PROVE (OneHolder /\ HolderAlone /\ RowHasDirectory)'
  BY <1>3 DEF SvnMkdir
<1>4. ASSUME NEW c \in Clients, InsertRow(c) PROVE (OneHolder /\ HolderAlone /\ RowHasDirectory)'
  <2>1. CASE row = None
    BY <1>4, <2>1 DEF InsertRow
  <2>2. CASE row # None
    BY <1>4, <2>2 DEF InsertRow
  <2> QED BY <2>1, <2>2
<1>5. ASSUME NEW c \in Clients, InstallHooks(c) PROVE (OneHolder /\ HolderAlone /\ RowHasDirectory)'
  BY <1>5 DEF InstallHooks
<1>6. ASSUME NEW c \in Clients, MakeOwner(c) PROVE (OneHolder /\ HolderAlone /\ RowHasDirectory)'
  BY <1>6 DEF MakeOwner
<1>7. ASSUME NEW c \in Clients, IndexFirst(c) PROVE (OneHolder /\ HolderAlone /\ RowHasDirectory)'
  BY <1>7 DEF IndexFirst
<1>8. ASSUME NEW c \in Clients, RemoveRow(c) PROVE (OneHolder /\ HolderAlone /\ RowHasDirectory)'
  BY <1>8, NoHolder DEF RemoveRow
<1>9. ASSUME NEW c \in Clients, RemoveContents(c) PROVE (OneHolder /\ HolderAlone /\ RowHasDirectory)'
  BY <1>9 DEF RemoveContents
<1>10. ASSUME NEW c \in Clients, RemoveDirectory(c) PROVE (OneHolder /\ HolderAlone /\ RowHasDirectory)'
  BY <1>10 DEF RemoveDirectory
<1>11. ASSUME NEW c \in Clients, Fails(c) PROVE (OneHolder /\ HolderAlone /\ RowHasDirectory)'
  BY <1>11 DEF Fails
<1>12. CASE RestartApi
  BY <1>12 DEF RestartApi
<1>13. CASE UNCHANGED vars
  BY <1>13 DEF vars
<1> QED BY <1>1, <1>2, <1>3, <1>4, <1>5, <1>6, <1>7, <1>8, <1>9, <1>10, <1>11, <1>12, <1>13 DEF Next

\* Whatever creations and removals of a slug run side by side, and wherever they fail or
\* the API stops: a repository in the database has its directory with the layout in it.
THEOREM RowsHaveDirectories == Spec => []RowHasDirectory
<1>1. Init => IInv
  <2>1. Init => OneHolder /\ HolderAlone /\ RowHasDirectory
    BY DEF Init, OneHolder, HolderAlone, RowHasDirectory, Holder, Idle
  <2> QED BY <2>1, TypeInit DEF IInv
<1>2. IInv => RowHasDirectory
  BY DEF IInv
<1> QED BY <1>1, <1>2, Inductive, PTL DEF Spec

-----------------------------------------------------------------------------
(***************************************************************************)
(* Until something fails or a removal meets a creation, the requests after *)
(* the insertion of a row work for this very row, one at most, and have    *)
(* done what their step says; without one the row is complete.  Without a  *)
(* row and a holder there is nothing but what a removal is about to clear. *)
(***************************************************************************)

Calm == faults = 0 /\ ~overlap
CreatorOf(c) == call[c].step \in {"hooks", "owner", "index"}

CreatorsWork ==
  \A c \in Clients : CreatorOf(c) =>
    /\ row # None /\ call[c].id = row
    /\ ~At(c, "hooks") => hook = row
    /\ At(c, "index") => owner
OneCreator == \A c, d \in Clients : CreatorOf(c) /\ CreatorOf(d) => c = d
RowComplete == row # None /\ (\A c \in Clients : ~CreatorOf(c)) => hook = row /\ owner /\ indexed
FreeWithoutRow ==
  row = None =>
    /\ (\A c \in Clients : ~Holder(c)) => dir \in {"absent", "empty"} /\ hook = None
    /\ \A c \in Clients : At(c, "mkdir") \/ At(c, "insert") => hook = None
EmptyIsCleared == dir = "empty" => \E c \in Clients : At(c, "rmdir")

CalmInv == Calm => CreatorsWork /\ OneCreator /\ RowComplete /\ FreeWithoutRow /\ EmptyIsCleared

\* Every step keeps the account of the calm states.
LEMMA CalmStep == IInv /\ CalmInv /\ [Next]_vars => CalmInv'
<1> SUFFICES ASSUME IInv, CalmInv, [Next]_vars, Calm'
             PROVE  (CreatorsWork /\ OneCreator /\ RowComplete /\ FreeWithoutRow /\ EmptyIsCleared)'
  BY DEF CalmInv
<1> DEFINE Goal == CreatorsWork /\ OneCreator /\ RowComplete /\ FreeWithoutRow /\ EmptyIsCleared
<1> USE DEF IInv, TypeOK, HolderAlone, OneHolder, RowHasDirectory, CalmInv, Calm, CreatorsWork, OneCreator,
      RowComplete, FreeWithoutRow, EmptyIsCleared, CreatorOf, Holder, At, GoTo, Finish, Idle, None, files
<1>1. ASSUME NEW c \in Clients, Create(c) PROVE Goal'
  BY <1>1 DEF Create
<1>2. ASSUME NEW c \in Clients, SvnAdminCreate(c) PROVE Goal'
  BY <1>2 DEF SvnAdminCreate
<1>3. ASSUME NEW c \in Clients, SvnMkdir(c) PROVE Goal'
  BY <1>3 DEF SvnMkdir
<1>4. ASSUME NEW c \in Clients, InsertRow(c) PROVE Goal'
  BY <1>4 DEF InsertRow
<1>5. ASSUME NEW c \in Clients, InstallHooks(c) PROVE Goal'
  BY <1>5 DEF InstallHooks
<1>6. ASSUME NEW c \in Clients, MakeOwner(c) PROVE Goal'
  BY <1>6 DEF MakeOwner
<1>7. ASSUME NEW c \in Clients, IndexFirst(c) PROVE Goal'
  BY <1>7 DEF IndexFirst
<1>8. ASSUME NEW c \in Clients, RemoveRow(c) PROVE Goal'
  BY <1>8 DEF RemoveRow, Creating
<1>9. ASSUME NEW c \in Clients, RemoveContents(c) PROVE Goal'
  BY <1>9 DEF RemoveContents
<1>10. ASSUME NEW c \in Clients, RemoveDirectory(c) PROVE Goal'
  BY <1>10 DEF RemoveDirectory
<1>11. ASSUME NEW c \in Clients, Fails(c) PROVE FALSE
  BY <1>11 DEF Fails, Fault
<1>12. CASE RestartApi
  BY <1>12 DEF RestartApi, Fault
<1>13. CASE UNCHANGED vars
  BY <1>13 DEF vars
<1> QED BY <1>1, <1>2, <1>3, <1>4, <1>5, <1>6, <1>7, <1>8, <1>9, <1>10, <1>11, <1>12, <1>13 DEF Next

\* At rest, if nothing failed and no removal met a creation, a slug has either its whole
\* repository (row, layout, hooks of this row, OWNER, revision 1) or nothing at all.
THEOREM QuietSlugIsWhole == Spec => []QuietIsWhole
<1>1. Init => IInv /\ CalmInv
  <2>1. Init => OneHolder /\ HolderAlone /\ RowHasDirectory
    BY DEF Init, OneHolder, HolderAlone, RowHasDirectory, Holder, Idle
  <2>2. Init => CalmInv
    BY DEF Init, CalmInv, CreatorsWork, OneCreator, RowComplete, FreeWithoutRow, EmptyIsCleared, CreatorOf, Idle, None
  <2> QED BY <2>1, <2>2, TypeInit DEF IInv
<1>2. IInv /\ CalmInv => QuietIsWhole
  BY DEF QuietIsWhole, IInv, TypeOK, RowHasDirectory, CalmInv, Calm, RowComplete, FreeWithoutRow, EmptyIsCleared,
     CreatorOf, Holder, At
<1> QED BY <1>1, <1>2, Inductive, CalmStep, PTL DEF Spec

-----------------------------------------------------------------------------
(***************************************************************************)
(* The translation between the names of the web application and the paths  *)
(* of a repository, for paths without empty segments.                      *)
(***************************************************************************)

\* A path without empty segments is normal already: the code's two passes of replace
\* leave it as it is.
LEMMA CleanIsNormal ==
  ASSUME NEW p \in Paths
  PROVE  NormalizeSvnPath(p) = p /\ Trimmed(p) = p
<1>1. \A n \in 1..Len(p) : p[n] # Blank
  BY NamesAssumption DEF Paths
<1>2. CASE p = <<>>
  BY <1>2 DEF NormalizeSvnPath, Trimmed
<1>3. CASE p # <<>>
  <2>1. Len(p) \in Nat /\ Len(p) > 0
    BY <1>3 DEF Paths
  <2>2. \A n \in 1..Len(p) : IsLast(p, n) <=> n = Len(p)
    BY <1>1, <2>1 DEF IsLast
  <2>3. \A n \in 1..Len(p) : IsFirst(p, n) <=> n = 1
    BY <1>1, <2>1 DEF IsFirst
  <2>4. (CHOOSE n \in 1..Len(p) : IsLast(p, n)) = Len(p)
    BY <2>1, <2>2
  <2>5. (CHOOSE n \in 1..Len(p) : IsFirst(p, n)) = 1
    BY <2>1, <2>3
  <2>6. SubSeq(p, 1, Len(p)) = p
    BY DEF Paths
  <2>7. \E n \in 1..Len(p) : p[n] # Blank
    BY <1>1, <2>1
  <2>8. NormalizeSvnPath(p) = p
    BY <2>4, <2>6, <2>7 DEF NormalizeSvnPath
  <2>9. Trimmed(p) = p
    BY <2>4, <2>5, <2>6, <2>7 DEF Trimmed
  <2> QED BY <2>8, <2>9
<1> QED BY <1>2, <1>3

\* The path of a branch or a tag is a path without empty segments, at least one long.
LEMMA RefPath ==
  ASSUME NEW ref \in Refs, NEW kind \in Kinds
  PROVE  UiRefToSvnPath(ref, kind) \in Paths /\ Len(UiRefToSvnPath(ref, kind)) > 0
BY NamesAssumption DEF Refs, Paths, Kinds, UiRefToSvnPath

\* What is put behind a prefix is what is left when the prefix is cut off again.
LEMMA CutPrefix ==
  ASSUME NEW a \in Paths, NEW b \in Paths
  PROVE  /\ a \o b \in Paths
         /\ IsBelow(a \o b, a)
         /\ SubSeq(a \o b, Len(a) + 1, Len(a \o b)) = b
<1>1. a \o b \in Paths
  BY DEF Paths
<1>2. SubSeq(a \o b, 1, Len(a)) = a
  BY DEF Paths
<1>3. SubSeq(a \o b, Len(a) + 1, Len(a \o b)) = b
  BY DEF Paths
<1> QED BY <1>1, <1>2, <1>3 DEF IsBelow, Paths

\* A segment in front of a name of one segment.
LEMMA PairOf ==
  ASSUME NEW S, NEW t \in S, NEW r \in Seq(S), Len(r) = 1
  PROVE  <<t>> \o r = <<t, r[1]>>
<1>1. <<t>> \in Seq(S) /\ Len(<<t>>) = 1 /\ <<t>>[1] = t
  OBVIOUS
<1>2. <<t>> \o r \in Seq(S) /\ Len(<<t>> \o r) = 2
  BY <1>1
<1>3. (<<t>> \o r)[1] = t /\ (<<t>> \o r)[2] = r[1]
  BY <1>1
<1>4. ASSUME NEW s \in Seq(S), Len(s) = 2 PROVE s = <<s[1], s[2]>>
  BY <1>4
<1> QED BY <1>2, <1>3, <1>4

\* The file browser gets back the path it asked for, for every branch, tag and path.
THEOREM PathsComeBack ==
  ASSUME NEW p \in Paths, NEW ref \in Refs, NEW kind \in Kinds
  PROVE  PathComesBack(p, ref, kind)
<1> DEFINE a == UiRefToSvnPath(ref, kind)
<1>1. a \in Paths
  BY RefPath
<1>2. Trimmed(p) = p
  BY CleanIsNormal
<1>3. /\ a \o p \in Paths
      /\ IsBelow(a \o p, a)
      /\ SubSeq(a \o p, Len(a) + 1, Len(a \o p)) = p
  BY <1>1, CutPrefix
<1>4. NormalizeSvnPath(a \o p) = a \o p
  BY <1>3, CleanIsNormal
<1> QED BY <1>2, <1>3, <1>4 DEF PathComesBack, SvnPathToUiPath, UiPathToSvnPath

\* The root found for a change below a branch or a tag has at most two segments.
LEMMA RootOfPath ==
  ASSUME NEW p \in Paths
  PROVE  ResolveBranchRoot(p) = IF Len(p) > 0 /\ p[1] = SVN_TRUNK THEN <<SVN_TRUNK>>
                                ELSE IF Len(p) > 1 /\ p[1] \in {SVN_BRANCHES, SVN_TAGS} THEN <<p[1], p[2]>>
                                ELSE NoRoot
<1>1. NormalizeSvnPath(p) = p
  BY CleanIsNormal
<1>2. Len(p) > 1 => p[2] # Blank
  BY NamesAssumption DEF Paths
<1> QED BY <1>1, <1>2 DEF ResolveBranchRoot

\* The pipeline file of a change below a branch is looked for in the root of this branch
\* if its name has one segment, and never if it has more.
THEOREM ChangesFindBranches ==
  ASSUME NEW p \in Paths, NEW ref \in Refs, NEW kind \in Kinds
  PROVE  ChangeFindsBranch(p, ref, kind)
<1> DEFINE a == UiRefToSvnPath(ref, kind)
           c == a \o p
<1>1. a \in Paths /\ c \in Paths
  BY RefPath, CutPrefix
<1>2. UiPathToSvnPath(p, ref, kind) = c
  BY CleanIsNormal DEF UiPathToSvnPath
<1>3. ref \in Seq(Names) /\ Len(ref) \in Nat /\ Len(ref) > 0
  BY DEF Refs, Paths
<1>4. CASE kind = "branch" /\ ref = <<DEFAULT_BRANCH_UI>>
  <2>1. a = <<SVN_TRUNK>> /\ c[1] = SVN_TRUNK /\ Len(c) > 0
    BY <1>1, <1>4 DEF UiRefToSvnPath, Paths
  <2>2. ResolveBranchRoot(c) = a
    BY <1>1, <2>1, RootOfPath
  <2> QED BY <1>2, <1>4, <2>2 DEF ChangeFindsBranch
<1>5. CASE ~(kind = "branch" /\ ref = <<DEFAULT_BRANCH_UI>>)
  <2> DEFINE top == IF kind = "tag" THEN SVN_TAGS ELSE SVN_BRANCHES
  <2>1. a = <<top>> \o ref
    BY <1>5 DEF UiRefToSvnPath, Kinds
  <2>2. top \in Names /\ top \in {SVN_BRANCHES, SVN_TAGS} /\ top # SVN_TRUNK
    BY NamesAssumption
  <2> HIDE DEF top
  <2>3. Len(a) = Len(ref) + 1 /\ a[1] = top /\ a[2] = ref[1]
    BY <1>3, <2>1, <2>2
  <2>4. Len(c) > 1 /\ c[1] = top /\ c[2] = ref[1]
    BY <1>1, <1>3, <2>3 DEF Paths
  <2>5. ResolveBranchRoot(c) = <<top, ref[1]>>
    BY <1>1, <2>2, <2>4, RootOfPath
  <2>6. ASSUME Len(ref) = 1 PROVE a = <<top, ref[1]>>
    <3>1. Len(a) = 2 /\ a \in Seq(Names)
      BY <1>1, <1>3, <2>3, <2>6 DEF Paths
    <3>2. a = <<a[1], a[2]>>
      BY <3>1
    <3> QED BY <2>3, <3>2
  <2>7. ASSUME a = <<top, ref[1]>> PROVE Len(ref) = 1
    <3>1. Len(<<top, ref[1]>>) = 2
      OBVIOUS
    <3>2. Len(a) = 2
      BY <2>7, <3>1
    <3>3. Len(ref) + 1 = 2
      BY <2>3, <3>2
    <3>4. \A n \in Nat : n + 1 = 2 => n = 1
      OBVIOUS
    <3> QED BY <1>3, <3>3, <3>4, Zenon
  <2> QED BY <1>2, <2>5, <2>6, <2>7 DEF ChangeFindsBranch
<1> QED BY <1>4, <1>5

\* Branches, and tags, with different names lie at different paths, and the path of one
\* with a name of one segment gives this name again.
THEOREM NamesStayApart ==
  ASSUME NEW ref \in Refs, NEW other \in Refs, NEW kind \in Kinds
  PROVE  NamesApart(ref, other, kind)
<1>1. /\ ref \in Seq(Names) /\ Len(ref) \in Nat /\ Len(ref) > 0
      /\ other \in Seq(Names) /\ Len(other) \in Nat /\ Len(other) > 0
  BY DEF Refs, Paths
<1>2. ASSUME NEW top \in Names, <<top>> \o ref = <<top>> \o other PROVE ref = other
  <2>1. SubSeq(<<top>> \o ref, 2, Len(<<top>> \o ref)) = ref
    BY <1>1
  <2>2. SubSeq(<<top>> \o other, 2, Len(<<top>> \o other)) = other
    BY <1>1
  <2> QED BY <1>2, <2>1, <2>2
<1>3. ASSUME NEW r \in Seq(Names) PROVE <<SVN_TRUNK>> # <<SVN_BRANCHES>> \o r
  BY NamesAssumption
<1>4. UiRefToSvnPath(ref, kind) = UiRefToSvnPath(other, kind) => ref = other
  BY <1>1, <1>2, <1>3, NamesAssumption DEF UiRefToSvnPath
<1>5. ASSUME Len(ref) = 1 PROVE SvnPathToUiRef(UiRefToSvnPath(ref, kind)) = [name |-> ref, kind |-> kind]
  <2>1. ref = <<ref[1]>> /\ ref[1] \in Names
    BY <1>1, <1>5
  <2>2. CASE kind = "branch" /\ ref = <<DEFAULT_BRANCH_UI>>
    <3>1. UiRefToSvnPath(ref, kind) = <<SVN_TRUNK>> /\ <<SVN_TRUNK>> \in Paths
      BY <2>2, NamesAssumption DEF UiRefToSvnPath, Paths
    <3>2. Len(<<SVN_TRUNK>>) = 1 /\ <<SVN_TRUNK>>[1] = SVN_TRUNK
      OBVIOUS
    <3>3. ResolveBranchRoot(<<SVN_TRUNK>>) = <<SVN_TRUNK>>
      BY <3>1, <3>2, RootOfPath
    <3>4. <<SVN_TRUNK>> # NoRoot
      BY <3>1, NamesAssumption DEF Paths
    <3> QED BY <2>2, <3>1, <3>3, <3>4 DEF SvnPathToUiRef
  <2>3. CASE ~(kind = "branch" /\ ref = <<DEFAULT_BRANCH_UI>>)
    <3> DEFINE top == IF kind = "tag" THEN SVN_TAGS ELSE SVN_BRANCHES
    <3>1. top \in Names /\ top \in {SVN_BRANCHES, SVN_TAGS} /\ top # SVN_TRUNK /\ (top = SVN_TAGS <=> kind = "tag")
      BY NamesAssumption
    <3>2. UiRefToSvnPath(ref, kind) = <<top>> \o ref
      BY <2>3 DEF UiRefToSvnPath, Kinds
    <3> HIDE DEF top
    <3>3. <<top>> \o ref = <<top, ref[1]>> /\ <<top, ref[1]>> \in Paths
      <4>1. ref \in Seq(Names) /\ top \in Names
        BY <1>1, <3>1
      <4>2. <<top>> \o ref = <<top, ref[1]>>
        BY <1>5, <4>1, PairOf
      <4>3. <<top, ref[1]>> \in Seq(Names)
        BY <2>1, <3>1
      <4> QED BY <4>2, <4>3 DEF Paths
    <3>4. ResolveBranchRoot(<<top, ref[1]>>) = <<top, ref[1]>>
      <4> DEFINE q == <<top, ref[1]>>
      <4>1. q \in Paths
        BY <3>3
      <4>2. Len(q) = 2 /\ q[1] = top /\ <<q[1], q[2]>> = q
        OBVIOUS
      <4> HIDE DEF q
      <4>3. ResolveBranchRoot(q) = IF Len(q) > 0 /\ q[1] = SVN_TRUNK THEN <<SVN_TRUNK>>
                                   ELSE IF Len(q) > 1 /\ q[1] \in {SVN_BRANCHES, SVN_TAGS}
                                        THEN <<q[1], q[2]>> ELSE NoRoot
        BY <4>1, RootOfPath
      <4>4. Len(q) > 1 /\ q[1] # SVN_TRUNK /\ q[1] \in {SVN_BRANCHES, SVN_TAGS}
        BY <3>1, <4>2
      <4>5. ResolveBranchRoot(q) = q
        BY <4>2, <4>3, <4>4
      <4> QED BY <4>5 DEF q
    <3>5. <<top, ref[1]>> # NoRoot
      BY <3>3, NamesAssumption DEF Paths
    <3>6. <<top, ref[1]>> # <<SVN_TRUNK>>
      <4>1. <<top, ref[1]>>[1] = top /\ <<SVN_TRUNK>>[1] = SVN_TRUNK
        OBVIOUS
      <4> QED BY <3>1, <4>1
    <3>7. SvnPathToUiRef(<<top, ref[1]>>)
            = [name |-> <<<<top, ref[1]>>[2]>>, kind |-> IF <<top, ref[1]>>[1] = SVN_TAGS THEN "tag" ELSE "branch"]
      BY <3>4, <3>5, <3>6 DEF SvnPathToUiRef
    <3>8. <<top, ref[1]>>[1] = top /\ <<top, ref[1]>>[2] = ref[1]
      OBVIOUS
    <3> QED BY <2>1, <3>1, <3>2, <3>3, <3>7, <3>8 DEF Kinds
  <2> QED BY <2>2, <2>3
<1> QED BY <1>4, <1>5 DEF NamesApart

-----------------------------------------------------------------------------
(***************************************************************************)
(* The parts of the platform.                                              *)
(***************************************************************************)

\* The part of a behaviour never changes.
LEMMA PartStays == [PlatformNext]_<<part, vars, slots>> => part' = part
  BY DEF PlatformNext

\* What is assumed of the services holds of this instance.
LEMMA ServicesAssumptions ==
  /\ Sv!AccountsAssumption /\ Sv!AccessAssumption /\ Sv!IssuesAssumption
  /\ Sv!AvatarsAssumption /\ Sv!BackupsAssumption /\ Sv!DeliveriesAssumption /\ Sv!MutexAssumption
  /\ Sv!SvnCliAssumption
<1>1. Sv!AccountsAssumption /\ Sv!AccessAssumption /\ Sv!IssuesAssumption /\ Sv!AvatarsAssumption
  BY AccountsAssumption, AccessAssumption, IssuesAssumption, AvatarsAssumption
  DEF Sv!AccountsAssumption, Sv!AccessAssumption, Sv!IssuesAssumption, Sv!AvatarsAssumption
<1>2. Sv!BackupsAssumption /\ Sv!DeliveriesAssumption /\ Sv!MutexAssumption
  BY BackupsAssumption, DeliveriesAssumption, NobodyApart
  DEF Sv!BackupsAssumption, Sv!DeliveriesAssumption, Sv!MutexAssumption, Sv!IsFiniteSet, IsFiniteSet
<1>3. Sv!SvnCliAssumption
  BY SvnCliAssumption DEF Sv!SvnCliAssumption
<1> QED BY <1>1, <1>2, <1>3

\* What is assumed of the browser holds of this instance.
LEMMA BrowserAssumptions == Br!HistoryAssumption /\ Br!FeedsAssumption /\ Br!StatsAssumption
  BY HistoryAssumption, FeedsAssumption, StatsAssumption
  DEF Br!HistoryAssumption, Br!FeedsAssumption, Br!StatsAssumption

\* Whatever the part, the variables of Repositories behave as Repositories says: in a
\* behaviour about another one they rest at their start.
LEMMA RepositoriesPart == PlatformSpec => Spec
<1>1. PlatformInit => Init
  BY DEF PlatformInit
<1>2. [PlatformNext]_<<part, vars, slots>> => [Next]_vars
  BY DEF PlatformNext
<1> QED BY <1>1, <1>2, PTL DEF PlatformSpec, Spec

\* What Repositories promises, in the run's own terms.
THEOREM PlatformRepositories == PlatformSpec => [](RowHasDirectory /\ QuietIsWhole)
<1> QED BY RepositoriesPart, RowsHaveDirectories, QuietSlugIsWhole, PTL

-----------------------------------------------------------------------------

\* A behaviour about accounts is a behaviour of Accounts.
LEMMA AccountsPart == PlatformSpec => Sv!Ac!Spec \/ [](~(part = "accounts"))
<1>1. PlatformInit /\ part = "accounts" => Sv!Ac!Init
  BY DEF PlatformInit
<1>2. part = "accounts" /\ [PlatformNext]_<<part, vars, slots>> => [Sv!Ac!Next]_(Sv!Ac!vars)
  <2>1. UNCHANGED <<part, vars, slots>> => UNCHANGED Sv!Ac!vars
    BY DEF slots, Sv!Ac!vars, Sv!Ac!mutexVars, Sv!Ac!rows, Sv!Ac!history
  <2> QED BY <2>1 DEF PlatformNext
<1>3. part = "accounts" /\ [PlatformNext]_<<part, vars, slots>> => (part = "accounts")'
  BY PartStays
<1>4. ~(part = "accounts") /\ [PlatformNext]_<<part, vars, slots>> => (~(part = "accounts"))'
  BY PartStays
<1>5. PlatformInit /\ [][PlatformNext]_<<part, vars, slots>> /\ part = "accounts" => Sv!Ac!Init /\ [][Sv!Ac!Next]_(Sv!Ac!vars)
  BY <1>1, <1>2, <1>3, PTL
<1>6. PlatformInit /\ [][PlatformNext]_<<part, vars, slots>> /\ ~(part = "accounts") => [](~(part = "accounts"))
  BY <1>4, PTL
<1> QED BY <1>5, <1>6, PTL DEF PlatformSpec, Sv!Ac!Spec

\* No rewrite of the htpasswd file undoes another, in the run's own terms.
THEOREM PlatformLosesNoUpdate == PlatformSpec => []NoLostUpdate
<1>1. Sv!Ac!NoLostUpdate => NoLostUpdate
  BY DEF NoLostUpdate
<1>2. ~(part = "accounts") => NoLostUpdate
  BY DEF NoLostUpdate
<1>3. Sv!Ac!Spec => []Sv!Ac!NoLostUpdate
  BY ServicesAssumptions, Sv!AccountsLoseNoUpdate
<1> QED BY <1>1, <1>2, <1>3, AccountsPart, PTL

\* A deactivated account is out of the file and has no session left, in the run's own terms.
THEOREM PlatformClosesAccounts == PlatformSpec => []DeactivationCloses
<1>1. Sv!Ac!DeactivationCloses => DeactivationCloses
  BY DEF DeactivationCloses
<1>2. ~(part = "accounts") => DeactivationCloses
  BY DEF DeactivationCloses
<1>3. Sv!Ac!Spec => []Sv!Ac!DeactivationCloses
  BY ServicesAssumptions, Sv!AccountsClose
<1> QED BY <1>1, <1>2, <1>3, AccountsPart, PTL

-----------------------------------------------------------------------------

\* A behaviour about access is a behaviour of Access.
LEMMA AccessPart == PlatformSpec => Sv!Ax!Spec \/ [](~(part = "access"))
<1>1. PlatformInit /\ part = "access" => Sv!Ax!Init
  BY DEF PlatformInit
<1>2. part = "access" /\ [PlatformNext]_<<part, vars, slots>> => [Sv!Ax!Next]_(Sv!Ax!vars)
  <2>1. UNCHANGED <<part, vars, slots>> => UNCHANGED Sv!Ax!vars
    BY DEF slots, Sv!Ax!vars
  <2> QED BY <2>1 DEF PlatformNext
<1>3. part = "access" /\ [PlatformNext]_<<part, vars, slots>> => (part = "access")'
  BY PartStays
<1>4. ~(part = "access") /\ [PlatformNext]_<<part, vars, slots>> => (~(part = "access"))'
  BY PartStays
<1>5. PlatformInit /\ [][PlatformNext]_<<part, vars, slots>> /\ part = "access" => Sv!Ax!Init /\ [][Sv!Ax!Next]_(Sv!Ax!vars)
  BY <1>1, <1>2, <1>3, PTL
<1>6. PlatformInit /\ [][PlatformNext]_<<part, vars, slots>> /\ ~(part = "access") => [](~(part = "access"))
  BY <1>4, PTL
<1> QED BY <1>5, <1>6, PTL DEF PlatformSpec, Sv!Ax!Spec

\* The guard, the lists and the queries for recipients agree, in the run's own terms.
THEOREM PlatformQueriesAgree == PlatformSpec => []QueriesAgree
<1>1. Sv!Ax!QueriesAgree => QueriesAgree
  BY DEF QueriesAgree
<1>2. ~(part = "access") => QueriesAgree
  BY DEF QueriesAgree
<1>3. Sv!Ax!Spec => []Sv!Ax!QueriesAgree
  BY ServicesAssumptions, Sv!AccessQueriesAgree
<1> QED BY <1>1, <1>2, <1>3, AccessPart, PTL

\* The native client gets what the role on the web says, in the run's own terms.
THEOREM PlatformSvnFollowsRole == PlatformSpec => []SvnFollowsRole
<1>1. Sv!Ax!SvnFollowsRole => SvnFollowsRole
  BY DEF SvnFollowsRole
<1>2. ~(part = "access") => SvnFollowsRole
  BY DEF SvnFollowsRole
<1>3. Sv!Ax!Spec => []Sv!Ax!SvnFollowsRole
  BY ServicesAssumptions, Sv!AccessSvnFollows
<1> QED BY <1>1, <1>2, <1>3, AccessPart, PTL

-----------------------------------------------------------------------------

\* A behaviour about issues is a behaviour of Issues.
LEMMA IssuesPart == PlatformSpec => Sv!Is!Spec \/ [](~(part = "issues"))
<1>1. PlatformInit /\ part = "issues" => Sv!Is!Init
  BY DEF PlatformInit
<1>2. part = "issues" /\ [PlatformNext]_<<part, vars, slots>> => [Sv!Is!Next]_(Sv!Is!vars)
  <2>1. UNCHANGED <<part, vars, slots>> => UNCHANGED Sv!Is!vars
    BY DEF slots, Sv!Is!vars, Sv!Is!history
  <2> QED BY <2>1 DEF PlatformNext
<1>3. part = "issues" /\ [PlatformNext]_<<part, vars, slots>> => (part = "issues")'
  BY PartStays
<1>4. ~(part = "issues") /\ [PlatformNext]_<<part, vars, slots>> => (~(part = "issues"))'
  BY PartStays
<1>5. PlatformInit /\ [][PlatformNext]_<<part, vars, slots>> /\ part = "issues" => Sv!Is!Init /\ [][Sv!Is!Next]_(Sv!Is!vars)
  BY <1>1, <1>2, <1>3, PTL
<1>6. PlatformInit /\ [][PlatformNext]_<<part, vars, slots>> /\ ~(part = "issues") => [](~(part = "issues"))
  BY <1>4, PTL
<1> QED BY <1>5, <1>6, PTL DEF PlatformSpec, Sv!Is!Spec

\* The numbers of the issues are dense, in the run's own terms.
THEOREM PlatformNumbersDense == PlatformSpec => []NumbersDense
<1>1. Sv!Is!NumbersDense => NumbersDense
  BY DEF NumbersDense
<1>2. ~(part = "issues") => NumbersDense
  BY DEF NumbersDense
<1>3. Sv!Is!Spec => []Sv!Is!NumbersDense
  BY ServicesAssumptions, Sv!IssuesDense
<1> QED BY <1>1, <1>2, <1>3, IssuesPart, PTL

\* An issue at rest is as it was asked for unless requests raced, in the run's own terms.
THEOREM PlatformIssuesAsAsked == PlatformSpec => []AsAskedUnlessRaced
<1>1. Sv!Is!AsAskedUnlessRaced => AsAskedUnlessRaced
  BY DEF AsAskedUnlessRaced
<1>2. ~(part = "issues") => AsAskedUnlessRaced
  BY DEF AsAskedUnlessRaced
<1>3. Sv!Is!Spec => []Sv!Is!AsAskedUnlessRaced
  BY ServicesAssumptions, Sv!IssuesAsAsked
<1> QED BY <1>1, <1>2, <1>3, IssuesPart, PTL

-----------------------------------------------------------------------------

\* A behaviour about avatars is a behaviour of Avatars.
LEMMA AvatarsPart == PlatformSpec => Sv!Av!Spec \/ [](~(part = "avatars"))
<1>1. PlatformInit /\ part = "avatars" => Sv!Av!Init
  BY DEF PlatformInit
<1>2. part = "avatars" /\ [PlatformNext]_<<part, vars, slots>> => [Sv!Av!Next]_(Sv!Av!vars)
  <2>1. UNCHANGED <<part, vars, slots>> => UNCHANGED Sv!Av!vars
    BY DEF slots, Sv!Av!vars
  <2> QED BY <2>1 DEF PlatformNext
<1>3. part = "avatars" /\ [PlatformNext]_<<part, vars, slots>> => (part = "avatars")'
  BY PartStays
<1>4. ~(part = "avatars") /\ [PlatformNext]_<<part, vars, slots>> => (~(part = "avatars"))'
  BY PartStays
<1>5. PlatformInit /\ [][PlatformNext]_<<part, vars, slots>> /\ part = "avatars" => Sv!Av!Init /\ [][Sv!Av!Next]_(Sv!Av!vars)
  BY <1>1, <1>2, <1>3, PTL
<1>6. PlatformInit /\ [][PlatformNext]_<<part, vars, slots>> /\ ~(part = "avatars") => [](~(part = "avatars"))
  BY <1>4, PTL
<1> QED BY <1>5, <1>6, PTL DEF PlatformSpec, Sv!Av!Spec

\* Every page shows the picture in the file, in the run's own terms.
THEOREM PlatformPictureCurrent == PlatformSpec => []PictureCurrent
<1>1. Sv!Av!PictureCurrent => PictureCurrent
  BY DEF PictureCurrent
<1>2. ~(part = "avatars") => PictureCurrent
  BY DEF PictureCurrent
<1>3. Sv!Av!Spec => []Sv!Av!PictureCurrent
  BY ServicesAssumptions, Sv!AvatarsCurrent
<1> QED BY <1>1, <1>2, <1>3, AvatarsPart, PTL

-----------------------------------------------------------------------------

\* A behaviour about backups is a behaviour of Backups.
LEMMA BackupsPart == PlatformSpec => Sv!Ba!Spec \/ [](~(part = "backups"))
<1>1. PlatformInit /\ part = "backups" => Sv!Ba!Init
  BY DEF PlatformInit
<1>2. part = "backups" /\ [PlatformNext]_<<part, vars, slots>> => [Sv!Ba!Next]_(Sv!Ba!vars)
  <2>1. UNCHANGED <<part, vars, slots>> => UNCHANGED Sv!Ba!vars
    BY DEF slots, Sv!Ba!vars, Sv!Ba!history
  <2> QED BY <2>1 DEF PlatformNext
<1>3. part = "backups" /\ [PlatformNext]_<<part, vars, slots>> => (part = "backups")'
  BY PartStays
<1>4. ~(part = "backups") /\ [PlatformNext]_<<part, vars, slots>> => (~(part = "backups"))'
  BY PartStays
<1>5. PlatformInit /\ [][PlatformNext]_<<part, vars, slots>> /\ part = "backups" => Sv!Ba!Init /\ [][Sv!Ba!Next]_(Sv!Ba!vars)
  BY <1>1, <1>2, <1>3, PTL
<1>6. PlatformInit /\ [][PlatformNext]_<<part, vars, slots>> /\ ~(part = "backups") => [](~(part = "backups"))
  BY <1>4, PTL
<1> QED BY <1>5, <1>6, PTL DEF PlatformSpec, Sv!Ba!Spec

\* The newest good backup is on disk, in the run's own terms.
THEOREM PlatformBackupsKept == PlatformSpec => []LatestBackupKept
<1>1. Sv!Ba!LatestBackupKept => LatestBackupKept
  BY DEF LatestBackupKept
<1>2. ~(part = "backups") => LatestBackupKept
  BY DEF LatestBackupKept
<1>3. Sv!Ba!Spec => []Sv!Ba!LatestBackupKept
  BY ServicesAssumptions, Sv!BackupsKept
<1> QED BY <1>1, <1>2, <1>3, BackupsPart, PTL

\* What is shown as VERIFYING is being verified, in the run's own terms.
THEOREM PlatformVerifyingUnderWay == PlatformSpec => []VerifyingIsUnderWay
<1>1. Sv!Ba!VerifyingIsUnderWay => VerifyingIsUnderWay
  BY DEF VerifyingIsUnderWay
<1>2. ~(part = "backups") => VerifyingIsUnderWay
  BY DEF VerifyingIsUnderWay
<1>3. Sv!Ba!Spec => []Sv!Ba!VerifyingIsUnderWay
  BY ServicesAssumptions, Sv!BackupsUnderWay
<1> QED BY <1>1, <1>2, <1>3, BackupsPart, PTL

-----------------------------------------------------------------------------

\* A behaviour about deliveries is a behaviour of Deliveries.
LEMMA DeliveriesPart == PlatformSpec => Sv!De!Spec \/ [](~(part = "deliveries"))
<1>1. PlatformInit /\ part = "deliveries" => Sv!De!Init
  BY DEF PlatformInit
<1>2. part = "deliveries" /\ [PlatformNext]_<<part, vars, slots>> => [Sv!De!Next]_(Sv!De!vars)
  <2>1. UNCHANGED <<part, vars, slots>> => UNCHANGED Sv!De!vars
    BY DEF slots, Sv!De!vars, Sv!De!hooks
  <2> QED BY <2>1 DEF PlatformNext
<1>3. part = "deliveries" /\ [PlatformNext]_<<part, vars, slots>> => (part = "deliveries")'
  BY PartStays
<1>4. ~(part = "deliveries") /\ [PlatformNext]_<<part, vars, slots>> => (~(part = "deliveries"))'
  BY PartStays
<1>5. PlatformInit /\ [][PlatformNext]_<<part, vars, slots>> /\ part = "deliveries" => Sv!De!Init /\ [][Sv!De!Next]_(Sv!De!vars)
  BY <1>1, <1>2, <1>3, PTL
<1>6. PlatformInit /\ [][PlatformNext]_<<part, vars, slots>> /\ ~(part = "deliveries") => [](~(part = "deliveries"))
  BY <1>4, PTL
<1> QED BY <1>5, <1>6, PTL DEF PlatformSpec, Sv!De!Spec

\* What a request owed is not dropped, in the run's own terms.
THEOREM PlatformNothingDropped == PlatformSpec => []NothingDropped
<1>1. Sv!De!NothingDropped => NothingDropped
  BY DEF NothingDropped
<1>2. ~(part = "deliveries") => NothingDropped
  BY DEF NothingDropped
<1>3. Sv!De!Spec => []Sv!De!NothingDropped
  BY ServicesAssumptions, Sv!DeliveriesKept
<1> QED BY <1>1, <1>2, <1>3, DeliveriesPart, PTL

-----------------------------------------------------------------------------

\* A behaviour about session is a behaviour of Session.
LEMMA SessionPart == PlatformSpec => Br!We!Spec \/ [](~(part = "session"))
<1>1. PlatformInit /\ part = "session" => Br!We!Init
  BY DEF PlatformInit
<1>2. part = "session" /\ [PlatformNext]_<<part, vars, slots>> => [Br!We!Next]_(Br!We!vars)
  <2>1. UNCHANGED <<part, vars, slots>> => UNCHANGED Br!We!vars
    BY DEF slots, Br!We!vars, Br!We!history
  <2> QED BY <2>1 DEF PlatformNext
<1>3. part = "session" /\ [PlatformNext]_<<part, vars, slots>> => (part = "session")'
  BY PartStays
<1>4. ~(part = "session") /\ [PlatformNext]_<<part, vars, slots>> => (~(part = "session"))'
  BY PartStays
<1>5. PlatformInit /\ [][PlatformNext]_<<part, vars, slots>> /\ part = "session" => Br!We!Init /\ [][Br!We!Next]_(Br!We!vars)
  BY <1>1, <1>2, <1>3, PTL
<1>6. PlatformInit /\ [][PlatformNext]_<<part, vars, slots>> /\ ~(part = "session") => [](~(part = "session"))
  BY <1>4, PTL
<1> QED BY <1>5, <1>6, PTL DEF PlatformSpec, Br!We!Spec

\* Nobody is signed out but by a logout, in the run's own terms.
THEOREM PlatformSessionKept == PlatformSpec => []SessionKept
<1>1. Br!We!SessionKept => SessionKept
  BY DEF SessionKept
<1>2. ~(part = "session") => SessionKept
  BY DEF SessionKept
<1>3. Br!We!Spec => []Br!We!SessionKept
  BY BrowserAssumptions, Br!SessionStaysKept
<1> QED BY <1>1, <1>2, <1>3, SessionPart, PTL

-----------------------------------------------------------------------------

\* A behaviour about panels is a behaviour of Panels.
LEMMA PanelsPart == PlatformSpec => Br!Pa!Spec \/ [](~(part = "panels"))
<1>1. PlatformInit /\ part = "panels" => Br!Pa!Init
  BY DEF PlatformInit
<1>2. part = "panels" /\ [PlatformNext]_<<part, vars, slots>> => [Br!Pa!Next]_(Br!Pa!vars)
  <2>1. UNCHANGED <<part, vars, slots>> => UNCHANGED Br!Pa!vars
    BY DEF slots, Br!Pa!vars
  <2> QED BY <2>1 DEF PlatformNext
<1>3. part = "panels" /\ [PlatformNext]_<<part, vars, slots>> => (part = "panels")'
  BY PartStays
<1>4. ~(part = "panels") /\ [PlatformNext]_<<part, vars, slots>> => (~(part = "panels"))'
  BY PartStays
<1>5. PlatformInit /\ [][PlatformNext]_<<part, vars, slots>> /\ part = "panels" => Br!Pa!Init /\ [][Br!Pa!Next]_(Br!Pa!vars)
  BY <1>1, <1>2, <1>3, PTL
<1>6. PlatformInit /\ [][PlatformNext]_<<part, vars, slots>> /\ ~(part = "panels") => [](~(part = "panels"))
  BY <1>4, PTL
<1> QED BY <1>5, <1>6, PTL DEF PlatformSpec, Br!Pa!Spec

\* A panel at rest shows what its user asked for, in the run's own terms.
THEOREM PlatformPanelsSettle == PlatformSpec => []PanelSettles
<1>1. Br!Pa!PanelSettles => PanelSettles
  BY DEF PanelSettles
<1>2. ~(part = "panels") => PanelSettles
  BY DEF PanelSettles
<1>3. Br!Pa!Spec => []Br!Pa!PanelSettles
  BY BrowserAssumptions, Br!PanelsSettle
<1> QED BY <1>1, <1>2, <1>3, PanelsPart, PTL

\* No press is lost, in the run's own terms.
THEOREM PlatformPressesKept == PlatformSpec => []NoPressLost
<1>1. Br!Pa!NoPressLost => NoPressLost
  BY DEF NoPressLost
<1>2. ~(part = "panels") => NoPressLost
  BY DEF NoPressLost
<1>3. Br!Pa!Spec => []Br!Pa!NoPressLost
  BY BrowserAssumptions, Br!PressesKept
<1> QED BY <1>1, <1>2, <1>3, PanelsPart, PTL

-----------------------------------------------------------------------------

\* A behaviour about logs is a behaviour of Logs.
LEMMA LogsPart == PlatformSpec => Br!Lo!Spec \/ [](~(part = "logs"))
<1>1. PlatformInit /\ part = "logs" => Br!Lo!Init
  BY DEF PlatformInit
<1>2. part = "logs" /\ [PlatformNext]_<<part, vars, slots>> => [Br!Lo!Next]_(Br!Lo!vars)
  <2>1. UNCHANGED <<part, vars, slots>> => UNCHANGED Br!Lo!vars
    BY DEF slots, Br!Lo!vars
  <2> QED BY <2>1 DEF PlatformNext
<1>3. part = "logs" /\ [PlatformNext]_<<part, vars, slots>> => (part = "logs")'
  BY PartStays
<1>4. ~(part = "logs") /\ [PlatformNext]_<<part, vars, slots>> => (~(part = "logs"))'
  BY PartStays
<1>5. PlatformInit /\ [][PlatformNext]_<<part, vars, slots>> /\ part = "logs" => Br!Lo!Init /\ [][Br!Lo!Next]_(Br!Lo!vars)
  BY <1>1, <1>2, <1>3, PTL
<1>6. PlatformInit /\ [][PlatformNext]_<<part, vars, slots>> /\ ~(part = "logs") => [](~(part = "logs"))
  BY <1>4, PTL
<1> QED BY <1>5, <1>6, PTL DEF PlatformSpec, Br!Lo!Spec

\* The log is stored and shown whole, in the run's own terms.
THEOREM PlatformLogsWhole == PlatformSpec => []LogWhole
<1>1. Br!Lo!LogWhole => LogWhole
  BY DEF LogWhole
<1>2. ~(part = "logs") => LogWhole
  BY DEF LogWhole
<1>3. Br!Lo!Spec => []Br!Lo!LogWhole
  BY BrowserAssumptions, Br!LogsWhole
<1> QED BY <1>1, <1>2, <1>3, LogsPart, PTL

-----------------------------------------------------------------------------

\* A behaviour about the history is a behaviour of History.
LEMMA HistoryPart == PlatformSpec => Br!Hi!Spec \/ [](~(part = "history"))
<1>1. PlatformInit /\ part = "history" => Br!Hi!Init
  BY DEF PlatformInit
<1>2. part = "history" /\ [PlatformNext]_<<part, vars, slots>> => [Br!Hi!Next]_(Br!Hi!vars)
  <2>1. UNCHANGED <<part, vars, slots>> => UNCHANGED Br!Hi!vars
    BY DEF slots, Br!Hi!vars
  <2> QED BY <2>1 DEF PlatformNext
<1>3. part = "history" /\ [PlatformNext]_<<part, vars, slots>> => (part = "history")'
  BY PartStays
<1>4. ~(part = "history") /\ [PlatformNext]_<<part, vars, slots>> => (~(part = "history"))'
  BY PartStays
<1>5. PlatformInit /\ [][PlatformNext]_<<part, vars, slots>> /\ part = "history" => Br!Hi!Init /\ [][Br!Hi!Next]_(Br!Hi!vars)
  BY <1>1, <1>2, <1>3, PTL
<1>6. PlatformInit /\ [][PlatformNext]_<<part, vars, slots>> /\ ~(part = "history") => [](~(part = "history"))
  BY <1>4, PTL
<1> QED BY <1>5, <1>6, PTL DEF PlatformSpec, Br!Hi!Spec

\* Pages of the log, changelogs and trees have what they should, in the run's own terms.
THEOREM PlatformReadersConsistent == PlatformSpec => []ReadersConsistent
<1>1. Br!Hi!ReadersConsistent => ReadersConsistent
  BY DEF ReadersConsistent
<1>2. ~(part = "history") => ReadersConsistent
  BY DEF ReadersConsistent
<1>3. Br!Hi!Spec => []Br!Hi!ReadersConsistent
  BY BrowserAssumptions, Br!ReadersStayConsistent
<1> QED BY <1>1, <1>2, <1>3, HistoryPart, PTL

-----------------------------------------------------------------------------

\* A behaviour about the feeds is a behaviour of Feeds.
LEMMA FeedsPart == PlatformSpec => Br!Fe!Spec \/ [](~(part = "feeds"))
<1>1. PlatformInit /\ part = "feeds" => Br!Fe!Init
  BY DEF PlatformInit
<1>2. part = "feeds" /\ [PlatformNext]_<<part, vars, slots>> => [Br!Fe!Next]_(Br!Fe!vars)
  <2>1. UNCHANGED <<part, vars, slots>> => UNCHANGED Br!Fe!vars
    BY DEF slots, Br!Fe!vars, Br!Fe!history
  <2> QED BY <2>1 DEF PlatformNext
<1>3. part = "feeds" /\ [PlatformNext]_<<part, vars, slots>> => (part = "feeds")'
  BY PartStays
<1>4. ~(part = "feeds") /\ [PlatformNext]_<<part, vars, slots>> => (~(part = "feeds"))'
  BY PartStays
<1>5. PlatformInit /\ [][PlatformNext]_<<part, vars, slots>> /\ part = "feeds" => Br!Fe!Init /\ [][Br!Fe!Next]_(Br!Fe!vars)
  BY <1>1, <1>2, <1>3, PTL
<1>6. PlatformInit /\ [][PlatformNext]_<<part, vars, slots>> /\ ~(part = "feeds") => [](~(part = "feeds"))
  BY <1>4, PTL
<1> QED BY <1>5, <1>6, PTL DEF PlatformSpec, Br!Fe!Spec

\* The feeds show what happened, in the order it did, in the run's own terms.
THEOREM PlatformFeedsTruthful == PlatformSpec => []FeedsTruthful
<1>1. Br!Fe!FeedsTruthful => FeedsTruthful
  BY DEF FeedsTruthful
<1>2. ~(part = "feeds") => FeedsTruthful
  BY DEF FeedsTruthful
<1>3. Br!Fe!Spec => []Br!Fe!FeedsTruthful
  BY BrowserAssumptions, Br!FeedsStayTruthful
<1> QED BY <1>1, <1>2, <1>3, FeedsPart, PTL

-----------------------------------------------------------------------------

\* A behaviour about the counts is a behaviour of Stats.
LEMMA StatsPart == PlatformSpec => Br!St!Spec \/ [](~(part = "stats"))
<1>1. PlatformInit /\ part = "stats" => Br!St!Init
  BY DEF PlatformInit
<1>2. part = "stats" /\ [PlatformNext]_<<part, vars, slots>> => [Br!St!Next]_(Br!St!vars)
  <2>1. UNCHANGED <<part, vars, slots>> => UNCHANGED Br!St!vars
    BY DEF slots, Br!St!vars
  <2> QED BY <2>1 DEF PlatformNext
<1>3. part = "stats" /\ [PlatformNext]_<<part, vars, slots>> => (part = "stats")'
  BY PartStays
<1>4. ~(part = "stats") /\ [PlatformNext]_<<part, vars, slots>> => (~(part = "stats"))'
  BY PartStays
<1>5. PlatformInit /\ [][PlatformNext]_<<part, vars, slots>> /\ part = "stats" => Br!St!Init /\ [][Br!St!Next]_(Br!St!vars)
  BY <1>1, <1>2, <1>3, PTL
<1>6. PlatformInit /\ [][PlatformNext]_<<part, vars, slots>> /\ ~(part = "stats") => [](~(part = "stats"))
  BY <1>4, PTL
<1> QED BY <1>5, <1>6, PTL DEF PlatformSpec, Br!St!Spec

\* No commit is left out of the counts, in the run's own terms.
THEOREM PlatformTotalsWhole == PlatformSpec => []TotalsWhole
<1>1. Br!St!TotalsWhole => TotalsWhole
  BY DEF TotalsWhole
<1>2. ~(part = "stats") => TotalsWhole
  BY DEF TotalsWhole
<1>3. Br!St!Spec => []Br!St!TotalsWhole
  BY BrowserAssumptions, Br!TotalsStayWhole
<1> QED BY <1>1, <1>2, <1>3, StatsPart, PTL

-----------------------------------------------------------------------------

\* A behaviour about a command is a behaviour of SvnCli.
LEMMA SvnPart == PlatformSpec => Sv!Cl!Spec \/ [](~(part = "svn"))
<1>1. PlatformInit /\ part = "svn" => Sv!Cl!Init
  BY DEF PlatformInit
<1>2. part = "svn" /\ [PlatformNext]_<<part, vars, slots>> => [Sv!Cl!Next]_(Sv!Cl!vars)
  <2>1. UNCHANGED <<part, vars, slots>> => UNCHANGED Sv!Cl!vars
    BY DEF slots, Sv!Cl!vars
  <2> QED BY <2>1 DEF PlatformNext
<1>3. part = "svn" /\ [PlatformNext]_<<part, vars, slots>> => (part = "svn")'
  BY PartStays
<1>4. ~(part = "svn") /\ [PlatformNext]_<<part, vars, slots>> => (~(part = "svn"))'
  BY PartStays
<1>5. PlatformInit /\ [][PlatformNext]_<<part, vars, slots>> /\ part = "svn" => Sv!Cl!Init /\ [][Sv!Cl!Next]_(Sv!Cl!vars)
  BY <1>1, <1>2, <1>3, PTL
<1>6. PlatformInit /\ [][PlatformNext]_<<part, vars, slots>> /\ ~(part = "svn") => [](~(part = "svn"))
  BY <1>4, PTL
<1> QED BY <1>5, <1>6, PTL DEF PlatformSpec, Sv!Cl!Spec

\* A command of Subversion has done what its promise says, in the run's own terms.
THEOREM PlatformOutcomeTrue == PlatformSpec => []OutcomeTrue
<1>1. Sv!Cl!OutcomeTrue => OutcomeTrue
  BY DEF OutcomeTrue
<1>2. ~(part = "svn") => OutcomeTrue
  BY DEF OutcomeTrue
<1>3. Sv!Cl!Spec => []Sv!Cl!OutcomeTrue
  BY ServicesAssumptions, Sv!OutcomesTrue
<1> QED BY <1>1, <1>2, <1>3, SvnPart, PTL

-----------------------------------------------------------------------------

\* A behaviour about ci is a behaviour of Ci.
LEMMA CiPart == PlatformSpec => Ci!Spec \/ [](~(part = "ci"))
<1>1. PlatformInit /\ part = "ci" => Ci!Init
  BY DEF PlatformInit
<1>2. part = "ci" /\ [PlatformNext]_<<part, vars, slots>> => [Ci!Next]_(Ci!vars)
  <2>1. UNCHANGED <<part, vars, slots>> => UNCHANGED Ci!vars
    BY DEF slots, Ci!vars, Ci!rows, Ci!bus, Ci!budget
  <2> QED BY <2>1 DEF PlatformNext
<1>3. part = "ci" /\ [PlatformNext]_<<part, vars, slots>> => (part = "ci")'
  BY PartStays
<1>4. ~(part = "ci") /\ [PlatformNext]_<<part, vars, slots>> => (~(part = "ci"))'
  BY PartStays
<1>5. PlatformInit /\ [][PlatformNext]_<<part, vars, slots>> /\ part = "ci" => Ci!Init /\ [][Ci!Next]_(Ci!vars)
  BY <1>1, <1>2, <1>3, PTL
<1>6. PlatformInit /\ [][PlatformNext]_<<part, vars, slots>> /\ ~(part = "ci") => [](~(part = "ci"))
  BY <1>4, PTL
<1> QED BY <1>5, <1>6, PTL DEF PlatformSpec, Ci!Spec

\* What is assumed of CI pipelines holds of the two of this instance.
LEMMA CiAssumption == Ci!PipelinesAssumption
  BY PipelinesApart DEF Ci!PipelinesAssumption

\* The theorem of CiPipelinesProofs.
LEMMA CiGreen == Ci!Spec => []Ci!GreenCheckEarned
  BY CiAssumption, Ci!GreenChecksEarned

\* Two pipelines of one branch: a green check was earned by the pipeline of its revision.
THEOREM PlatformGreenEarned == PlatformSpec => []GreenCheckEarned
<1>1. Ci!GreenCheckEarned => GreenCheckEarned
  BY DEF GreenCheckEarned
<1>2. ~(part = "ci") => GreenCheckEarned
  BY DEF GreenCheckEarned
<1> QED BY <1>1, <1>2, CiGreen, CiPart, PTL

=============================================================================
