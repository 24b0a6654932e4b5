------------------------------- MODULE History -------------------------------
(***************************************************************************)
(* The history of one repository as the API shows it: the revisions that   *)
(* Subversion has, the RevisionIndex that the post-commit hook fills in    *)
(* the background, and the requests that read both in several steps        *)
(* (pages of the log, the changelog, trees and files) while commits,       *)
(* branches and tags come and go.                                          *)
(*                                                                         *)
(* A revision touches one path: trunk, a branch or a tag.  The hook calls  *)
(* the API once and in the background; calls overtake each other, and one  *)
(* that fails is not repeated.                                             *)
(***************************************************************************)
EXTENDS Integers, FiniteSets, SequencesExt, FiniteSetsExt

CONSTANTS
  Refs,      \* paths under branches/ and tags/
  Tags,      \* those of them under tags/
  Clients,   \* requests for a branch or a tag in flight
  PageSize,  \* limit of a page of the log
  MaxRev     \* bound: revisions

VARIABLES
  log,     \* log[r]: the path revision r touches, how, and its author
  hook,    \* the calls of the post-commit hook under way
  index,   \* index[r]: the row of RevisionIndex, for the r that have one
  call,    \* call[c]: the branch or tag that c creates, or Nothing
  reader,  \* a request that reads in several steps
  missed   \* history: a reader has got less or more than it should

vars == <<log, hook, index, call, reader, missed>>

Nothing == "nothing"
Trunk == "trunk"
Paths == {Trunk} \cup Refs
Revisions == 1..MaxRev
Youngest == Len(log)
Indexed == DOMAIN index

Away == [step |-> "idle", at |-> 0, part |-> Nothing, todo |-> {}, want |-> {}, seen |-> <<>>]

Touching(p, r) == {q \in 1..r : log[q].path = p}

\* The newest revision, at most r, that touches p; 0 when there is none.
LastChange(p, r) == Max(Touching(p, r) \cup {0})

There(p, r) == LastChange(p, r) # 0 /\ log[LastChange(p, r)].how # "delete"

\* Repositories start with the revision of their layout; RepositoriesService.create
\* indexes it, unless it fails there.
Init ==
  /\ log = <<[path |-> Trunk, how |-> "add", author |-> "api"]>>
  /\ hook = {}
  /\ index \in {<<>>, <<[author |-> ""]>>}
  /\ call = [c \in Clients |-> Nothing]
  /\ reader = Away
  /\ missed = FALSE

-----------------------------------------------------------------------------
(***************************************************************************)
(* Commits and the index.                                                  *)
(***************************************************************************)

\* A revision, and the post-commit hook: a call in the background, whose outcome
\* nobody looks at.
Record(p, how, author) ==
  /\ Youngest < MaxRev
  /\ log' = Append(log, [path |-> p, how |-> how, author |-> author])
  /\ hook' = hook \cup {Youngest + 1}

\* A developer commits to trunk or to a branch or tag.
Commit(p) ==
  /\ There(p, Youngest)
  /\ Record(p, "edit", "dev")
  /\ UNCHANGED <<index, call, reader, missed>>

\* SvnEngineService.svnlookLogEntry.  It looks for lines "Author: ...", "Message: ...";
\* svnlook info prints the bare values, so both are empty.
SvnlookLogEntry(r) == [author |-> ""]

\* RepositoriesService.indexRevision: upsert.  The webhooks, pipelines and cross
\* references that follow read nothing that is modelled here.
IndexRevision(r) ==
  /\ r \in hook
  /\ index' = [q \in Indexed \cup {r} |-> IF q = r THEN SvnlookLogEntry(r) ELSE index[q]]
  /\ hook' = hook \ {r}
  /\ UNCHANGED <<log, call, reader, missed>>

\* The call is lost, or the API stops or fails before the upsert: nothing calls again.
LoseCall(r) ==
  /\ r \in hook
  /\ hook' = hook \ {r}
  /\ UNCHANGED <<log, index, call, reader, missed>>

-----------------------------------------------------------------------------
(***************************************************************************)
(* BranchesService.                                                        *)
(***************************************************************************)

\* createBranch and createTag: the name is free,
CheckRef(c, p) ==
  /\ call[c] = Nothing
  /\ ~There(p, Youngest)
  /\ call' = [call EXCEPT ![c] = p]
  /\ UNCHANGED <<log, hook, index, reader, missed>>

\* and svn copy.  Into a directory that is there by now, svn copies below it.
CopyRef(c) ==
  LET p == call[c] IN
  /\ p # Nothing
  /\ Record(p, IF There(p, Youngest) THEN "edit" ELSE "add", "api")
  /\ call' = [call EXCEPT ![c] = Nothing]
  /\ UNCHANGED <<index, reader, missed>>

\* The pre-commit hook refuses the copy.
CopyRefused(c) ==
  /\ call[c] # Nothing
  /\ call' = [call EXCEPT ![c] = Nothing]
  /\ UNCHANGED <<log, hook, index, reader, missed>>

\* deleteBranch, deleteTag.
DeleteRef(p) ==
  /\ p \in Refs /\ There(p, Youngest)
  /\ Record(p, "delete", "api")
  /\ UNCHANGED <<index, call, reader, missed>>

\* getPathRefInfo: "created" is the first entry that svn log -l 1 --stop-on-copy
\* prints, which is the newest.
CreatedRevision(p, r) == LastChange(p, r)

\* listTags: names and revisions.
ListTags == {[name |-> p, created |-> CreatedRevision(p, Youngest)] : p \in {q \in Tags : There(q, Youngest)}}

-----------------------------------------------------------------------------
(***************************************************************************)
(* Pages of the log.                                                       *)
(***************************************************************************)

Descending(S) ==
  [i \in 1..Cardinality(S) |-> CHOOSE r \in S : Cardinality({q \in S : q > r}) = i - 1]
Slice(s, from, to) == SubSeq(s, from, Min({to, Len(s)}))

\* A plausible slip: take is the limit itself.
IndexedPageShort(offset) ==
  LET rows == Slice(Descending(Indexed), offset + 1, offset + PageSize)
  IN [entries |-> rows, hasMore |-> Len(rows) > PageSize]

\* listIndexedRevisions, without the filter for a path: skip, take limit + 1.
IndexedPage(offset) ==
  LET rows == Slice(Descending(Indexed), offset + 1, offset + PageSize + 1)
  IN [entries |-> Slice(rows, 1, PageSize), hasMore |-> Len(rows) > PageSize]

\* SvnEngineService.log prints the newest PageSize revisions and drops offset of them;
\* getLog drops offset once more.
LivePage(offset) ==
  LET printed == Slice(Descending(1..Youngest), 1, PageSize)
      entries == Slice(printed, offset + 1, PageSize)
      slice == Slice(entries, offset + 1, offset + PageSize + 1)
  IN [entries |-> Slice(slice, 1, PageSize), hasMore |-> Len(slice) > PageSize]

\* RepositoriesService.getLog.
GetLog(offset) == IF Indexed # {} THEN IndexedPage(offset) ELSE LivePage(offset)

\* A client reads page after page as long as there is more.
StartPaging ==
  /\ reader.step = "idle"
  /\ reader' = [Away EXCEPT !.step = "page", !.want = Indexed]
  /\ UNCHANGED <<log, hook, index, call, missed>>

ReadPage ==
  LET page == GetLog(Len(reader.seen))
      seen == reader.seen \o page.entries
  IN
  /\ reader.step = "page"
  /\ reader' = IF page.hasMore THEN [reader EXCEPT !.seen = seen] ELSE Away
  /\ missed' = (missed \/ (~page.hasMore /\ ~(reader.want \subseteq ToSet(seen))))
  /\ UNCHANGED <<log, hook, index, call>>

-----------------------------------------------------------------------------
(***************************************************************************)
(* ChangelogService.getChangelog: a section for what no tag has yet, and   *)
(* one per tag, newest first.                                              *)
(***************************************************************************)

\* getRevisionsInRange, whose limit no section reaches here.
InRange(from, to) == {r \in Indexed : from < r /\ r <= to}

Below(tags, r) == Max({t.created : t \in {u \in tags : u.created < r}} \cup {0})

\* listTags, and then info: commits may land in between.
StartChangelog ==
  /\ reader.step = "idle"
  /\ reader' = [Away EXCEPT !.step = "changelog", !.todo = ListTags,
                             !.want = Indexed]
  /\ UNCHANGED <<log, hook, index, call, missed>>

ReadUnreleased ==
  LET newest == Below(reader.todo, MaxRev + 1) IN
  /\ reader.step = "changelog"
  /\ reader' = [reader EXCEPT !.step = "sections", !.at = Youngest,
                  !.seen = SetToSeq(IF Youngest > newest THEN InRange(newest, Youngest) ELSE {})]
  /\ UNCHANGED <<log, hook, index, call, missed>>

\* The section of the newest tag that has none yet.
ReadSection ==
  LET tags == reader.todo
      tag == CHOOSE t \in tags : \A u \in tags : u.created <= t.created
      section == InRange(Below(tags, tag.created), tag.created)
  IN
  /\ reader.step = "sections" /\ tags # {}
  /\ reader' = [reader EXCEPT !.todo = tags \ {tag}, !.seen = @ \o SetToSeq(section)]
  /\ missed' = (missed \/ section \cap ToSet(reader.seen) # {})
  /\ UNCHANGED <<log, hook, index, call>>

EndChangelog ==
  /\ reader.step = "sections" /\ reader.todo = {}
  /\ reader' = Away
  /\ missed' = (missed \/ ~(reader.want \subseteq ToSet(reader.seen)))
  /\ UNCHANGED <<log, hook, index, call>>

-----------------------------------------------------------------------------
(***************************************************************************)
(* Trees and files: info gives the revision that every later svn command   *)
(* of the request is run at.                                               *)
(***************************************************************************)

\* getTree, getFileContent, getBlame and exportZip of path p: info.
StartRead(p) ==
  /\ reader.step = "idle"
  /\ reader' = [Away EXCEPT !.step = "list", !.at = Youngest, !.part = p]
  /\ UNCHANGED <<log, hook, index, call, missed>>

\* A plausible slip: the command runs at the head of its own time.
PrintHead(p, r) == IF There(p, Youngest) THEN LastChange(p, Youngest) ELSE 0

\* What svn list, cat, blame or export prints of p with -r r: p as of the revision in
\* which it last changed.  The name is looked up in the head and followed back from
\* there, so it fails (0) if p has been deleted since, even if it is there again.
PrintAt(p, r) ==
  IF There(p, r) /\ \A q \in (r + 1)..Youngest : log[q].path = p => log[q].how = "edit"
  THEN LastChange(p, r) ELSE 0

\* svn list (or the only command of the request).  A failure ends it.
ReadList ==
  LET content == PrintAt(reader.part, reader.at) IN
  /\ reader.step = "list"
  /\ reader' = IF content = 0 THEN Away
               ELSE [reader EXCEPT !.step = "readme", !.seen = <<content>>]
  /\ UNCHANGED <<log, hook, index, call, missed>>

\* tryReadReadme: svn cat; a failure counts as no readme.
ReadReadme ==
  LET content == PrintAt(reader.part, reader.at) IN
  /\ reader.step = "readme"
  /\ reader' = Away
  /\ missed' = (missed \/ content \notin {0, reader.seen[1]})
  /\ UNCHANGED <<log, hook, index, call>>

Next ==
  \/ \E p \in Paths : Commit(p) \/ DeleteRef(p) \/ StartRead(p)
  \/ \E r \in Revisions : IndexRevision(r) \/ LoseCall(r)
  \/ \E c \in Clients : \/ \E p \in Refs : CheckRef(c, p)
                        \/ CopyRef(c) \/ CopyRefused(c)
  \/ StartPaging \/ ReadPage
  \/ StartChangelog \/ ReadUnreleased \/ ReadSection \/ EndChangelog
  \/ ReadList \/ ReadReadme

Spec == Init /\ [][Next]_vars

-----------------------------------------------------------------------------

\* Whoever reads in several steps gets one consistent answer, whatever is committed,
\* indexed late or out of order, or deleted between the steps: the pages of the log
\* leave out no revision that was indexed when the first was read, a changelog lists
\* each of those, and none in two sections, and the README of a tree is of the revision of its entries.
ReadersConsistent == ~missed

\* What PLAN-svnhub-v2-contas-teams-overview.md says of the index: the author of the
\* row of a developer's commit is his user.
IndexedAsCommitted == \A r \in Indexed : log[r].author = "dev" => index[r].author = "dev"

=============================================================================
