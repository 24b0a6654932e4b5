-------------------------------- MODULE SvnPaths --------------------------------
(***************************************************************************)
(* packages/shared/src/svn-path.ts: where a branch or a tag of the web     *)
(* application lies in a repository, and back.                             *)
(*                                                                         *)
(* A path is the sequence of the segments after its leading slash, which   *)
(* every function here adds when it is missing; a segment is Blank where   *)
(* two slashes meet, and at the end for a slash there.  A ref is a         *)
(* sequence too: the branches and tags the API creates have no slash in    *)
(* their names (branches.service.ts tests them), but a ref that a request  *)
(* of the browser names may have one, as may a folder that a Subversion    *)
(* client has made below /branches.                                        *)
(***************************************************************************)
EXTENDS Naturals, Sequences

CONSTANTS
  Names,                 \* segments
  Blank,                 \* the segment between two slashes
  SVN_TRUNK, SVN_BRANCHES, SVN_TAGS,
  DEFAULT_BRANCH_UI,     \* the name the web application has for trunk
  NoRoot,                \* null
  ConfigFile             \* PIPELINE_CONFIG_FILENAME

ASSUME NamesAssumption ==
  /\ {SVN_TRUNK, SVN_BRANCHES, SVN_TAGS, DEFAULT_BRANCH_UI, ConfigFile} \subseteq Names
  /\ Blank \notin Names
  /\ SVN_TRUNK # SVN_BRANCHES /\ SVN_TRUNK # SVN_TAGS /\ SVN_BRANCHES # SVN_TAGS
  /\ NoRoot \notin Seq(Names)

Raw == Seq(Names \cup {Blank})
Paths == Seq(Names)
Refs == {ref \in Paths : Len(ref) > 0}
Kinds == {"branch", "tag"}

-----------------------------------------------------------------------------

\* n is the last, the first segment that is not empty.
IsLast(p, n) == n \in 1..Len(p) /\ p[n] # Blank /\ \A m \in 1..Len(p) : m > n => p[m] = Blank
IsFirst(p, n) == n \in 1..Len(p) /\ p[n] # Blank /\ \A m \in 1..Len(p) : m < n => p[m] = Blank

\* Slashes at the end are cut off.
NormalizeSvnPath(p) ==
  IF \E n \in 1..Len(p) : p[n] # Blank THEN SubSeq(p, 1, CHOOSE n \in 1..Len(p) : IsLast(p, n)) ELSE <<>>

\* uiPath.replace(...).replace(...): also those at the start.
Trimmed(p) ==
  IF \E n \in 1..Len(p) : p[n] # Blank
  THEN SubSeq(p, CHOOSE n \in 1..Len(p) : IsFirst(p, n), CHOOSE n \in 1..Len(p) : IsLast(p, n))
  ELSE <<>>

IsBelow(p, prefix) == Len(prefix) <= Len(p) /\ SubSeq(p, 1, Len(prefix)) = prefix

UiRefToSvnPath(ref, kind) ==
  IF kind = "tag" THEN <<SVN_TAGS>> \o ref
  ELSE IF ref = <<DEFAULT_BRANCH_UI>> THEN <<SVN_TRUNK>> ELSE <<SVN_BRANCHES>> \o ref

UiPathToSvnPath(uiPath, ref, kind) == UiRefToSvnPath(ref, kind) \o Trimmed(uiPath)

SvnPathToUiPath(svnPath, ref, kind) ==
  LET prefix == UiRefToSvnPath(ref, kind)
      normalized == NormalizeSvnPath(svnPath)
  IN  IF IsBelow(normalized, prefix)
      THEN SubSeq(normalized, Len(prefix) + 1, Len(normalized))
      ELSE normalized

\* The branch or tag a changed path belongs to: the first segment below /branches, /tags.
ResolveBranchRoot(svnPath) ==
  LET p == NormalizeSvnPath(svnPath) IN
  IF Len(p) > 0 /\ p[1] = SVN_TRUNK THEN <<SVN_TRUNK>>
  ELSE IF Len(p) > 1 /\ p[1] \in {SVN_BRANCHES, SVN_TAGS} /\ p[2] # Blank THEN <<p[1], p[2]>>
  ELSE NoRoot

SvnPathToUiRef(svnPath) ==
  LET root == ResolveBranchRoot(svnPath) IN
  IF root = NoRoot THEN NoRoot
  ELSE IF root = <<SVN_TRUNK>> THEN [name |-> <<DEFAULT_BRANCH_UI>>, kind |-> "branch"]
  ELSE [name |-> <<root[2]>>, kind |-> IF root[1] = SVN_TAGS THEN "tag" ELSE "branch"]

PipelineConfigSvnPath(branchPath) == NormalizeSvnPath(branchPath) \o <<ConfigFile>>

-----------------------------------------------------------------------------

\* The file browser gets back the path it asked for: getTree translates the path of the
\* page into one of the repository, and those of the entries into ones of the page.
PathComesBack(p, ref, kind) ==
  SvnPathToUiPath(UiPathToSvnPath(p, ref, kind), ref, kind) = Trimmed(p)

\* createPipelinesForRevision looks for the pipeline file of a change in the root of the
\* change: for a name of one segment this is the path of the branch, as pull requests and
\* the browser know it; for a name with a slash it never is.
ChangeFindsBranch(p, ref, kind) ==
  (ResolveBranchRoot(UiPathToSvnPath(p, ref, kind)) = UiRefToSvnPath(ref, kind)) <=> (Len(ref) = 1)

\* Two names of one kind lie at one path only if they are the same; and the path of a
\* branch of one segment names it again.
NamesApart(ref, other, kind) ==
  /\ UiRefToSvnPath(ref, kind) = UiRefToSvnPath(other, kind) => ref = other
  /\ Len(ref) = 1 => SvnPathToUiRef(UiRefToSvnPath(ref, kind)) = [name |-> ref, kind |-> kind]
=============================================================================
