------------------------------- MODULE Access -------------------------------
(***************************************************************************)
(* Who may do what with a repository: PermissionsService, TeamsService and *)
(* the administration of users change the rows; RepoRoleGuard and          *)
(* AdminGuard, the lists of repositories, the search, the profiles, the    *)
(* recipients of notifications and the compiler of the authz file each     *)
(* derive an answer from them by a query of their own.                     *)
(*                                                                         *)
(* One repository is modelled: no query relates the rows of two.  A        *)
(* request is one step, but for the removal of a team, which deletes in    *)
(* two; when the authz file is rebuilt is the subject of AuthzSync.        *)
(***************************************************************************)
EXTENDS Integers, FiniteSets

CONSTANTS
  Users,
  Creator,     \* the administrator who has created the repository
  Teams,
  NoRole,
  MaxRules,    \* bound: path permissions at a time
  MaxChanges   \* bound: requests in a behaviour

VARIABLES
  admin,     \* User.isAdmin
  active,    \* User.isActive
  member,    \* member[u]: the role of u's RepoMember, or NoRole
  team,      \* the teams there are
  born,      \* the teams there have ever been: each has an identity of its own
  squad,     \* squad[t][u]: "MEMBER", "ADMIN" or NoRole: GroupMember
  link,      \* link[t]: the role of the RepoTeam of t, or NoRole
  rules,     \* the PathPermissions
  dying,     \* teams whose removal is between its two queries
  reviewed,  \* who has reviewed the pull request
  commits,   \* commits[u]: indexed revisions whose author is u
  changes

vars == <<admin, active, member, team, born, squad, link, rules, dying, reviewed, commits, changes>>

Roles == {"READER", "DEVELOPER", "MAINTAINER", "OWNER"}
Paths == {"/", "/trunk", "/tags"}
Rule == [path : Paths, who : Users \cup Teams, access : {"READ", "WRITE", "NONE"}]

Init ==
  /\ admin = {Creator}
  /\ active = Users
  /\ member = [u \in Users |-> IF u = Creator THEN "OWNER" ELSE NoRole]
  /\ team = {}
  /\ born = {}
  /\ squad = [t \in Teams |-> [u \in Users |-> NoRole]]
  /\ link = [t \in Teams |-> NoRole]
  /\ rules = {}
  /\ dying = {}
  /\ reviewed = {}
  /\ commits = [u \in Users |-> IF u = Creator THEN 1 ELSE 0]
  /\ changes = 0

-----------------------------------------------------------------------------
(***************************************************************************)
(* The role of a user.                                                     *)
(***************************************************************************)

Level == [READER |-> 0, DEVELOPER |-> 1, MAINTAINER |-> 2, OWNER |-> 3]
HasMinimum(role, required) == role # NoRole /\ Level[role] >= Level[required]

\* maxRepoRole, over the roles that are there.
MaxRole(roles) ==
  LET given == roles \ {NoRole} IN
  IF given = {} THEN NoRole
  ELSE CHOOSE r \in given : \A q \in given : Level[q] <= Level[r]

TeamsOf(u) == {t \in Teams : squad[t][u] # NoRole}

\* RepoRoleGuard and IssuesService.resolveEffectiveRole, administrators apart.
EffectiveRole(u) == MaxRole({member[u]} \cup {link[t] : t \in TeamsOf(u)})

\* RepoRoleGuard.canActivate for a request of a session of the web.
Allowed(u, required) == u \in admin \/ HasMinimum(EffectiveRole(u), required)

\* A plausible slip: the query of an earlier version, without the teams.
ListedMembers(u) == u \in admin \/ member[u] # NoRole

\* RepositoriesService.list: is the repository in the answer?
Listed(u) == u \in admin \/ member[u] # NoRole \/ \E t \in TeamsOf(u) : link[t] # NoRole

\* UserStatsService.resolveViewerAccess: the repositories that the search, the
\* dashboard and the profiles show a viewer.
ViewerAccess(u) ==
  IF u \notin active THEN "none"
  ELSE IF u \in admin THEN "all"
  ELSE IF member[u] # NoRole \/ \E t \in TeamsOf(u) : link[t] # NoRole THEN "repos"
  ELSE "empty"

\* buildRepositoryFilter over repositories: SearchService and DashboardService.
Found(u) == ViewerAccess(u) \in {"all", "repos"}

\* DashboardService.getRecentRepositories and getReviewRequestedPullRequests, below their
\* limits: what the dashboard of a viewer has of the repository and of an open pull
\* request in it.
Recent(u) == Found(u)
ReviewRequested(author) == {u \in Users \ {author} : Found(u) /\ u \notin reviewed}

\* UserStatsService.countCommits.  Its filter compares the id of the revision's row,
\* not its repositoryId, with the ids of repositories: of those none is equal.
CountCommits(viewer, u) == IF ViewerAccess(viewer) = "all" THEN commits[u] ELSE 0

\* UserStatsService.getHeatmap: the total of a range that holds every revision.
HeatmapTotal(viewer, u) == IF Found(viewer) THEN commits[u] ELSE 0

-----------------------------------------------------------------------------
(***************************************************************************)
(* The recipients of notifications.                                        *)
(***************************************************************************)

\* The two queries findEligiblePrReviewers and findRepoMaintainers are made of.
Holders(atLeast) ==
  LET ranked == {r \in Roles : Level[r] >= Level[atLeast]} IN
  {u \in Users : member[u] \in ranked \/ \E t \in TeamsOf(u) : link[t] \in ranked}

\* A plausible slip: only members of the repository itself are asked.
ReviewersAmongMembers(author) ==
  {u \in Users \ {author} : HasMinimum(member[u], "DEVELOPER")} \ reviewed

EligiblePrReviewers(author) == (Holders("DEVELOPER") \ {author}) \ reviewed
RepoMaintainers == Holders("MAINTAINER")

\* notifyMentions: the users a comment names.
Mentioned(author, names) == (names \cap active) \ {author}

-----------------------------------------------------------------------------
(***************************************************************************)
(* The authz file, compiled from the rows as they are.                     *)
(***************************************************************************)

RoleAccess(role) == IF role \in {"OWNER", "MAINTAINER"} THEN {"r", "w"} ELSE {"r"}
PathAccess(access) == IF access = "WRITE" THEN {"r", "w"} ELSE {"r"}

\* A permission NONE is not compiled: it takes nothing away.
RulesAt(p, who) == {r \in rules : r.path = p /\ r.who = who /\ r.access # "NONE"}

\* A plausible slip: the members are added before the administrators.
UserEntryMembersFirst(p, u) ==
  IF p = "/" /\ member[u] # NoRole THEN RoleAccess(member[u])
  ELSE IF p = "/" /\ u \in admin THEN {"r", "w"}
  ELSE UNION {PathAccess(r.access) : r \in RulesAt(p, u)}

\* The entry of user u in the section of path p: administrators, members and path
\* permissions are added in this order, and compileAuthz keeps the first of a principal.
UserEntry(p, u) ==
  IF p = "/" /\ u \in admin THEN {"r", "w"}
  ELSE IF p = "/" /\ member[u] # NoRole THEN RoleAccess(member[u])
  ELSE UNION {PathAccess(r.access) : r \in RulesAt(p, u)}

\* That of team t, whose principal is @t.
TeamEntry(p, t) ==
  IF p = "/" /\ link[t] # NoRole THEN RoleAccess(link[t])
  ELSE IF t \in team THEN UNION {PathAccess(r.access) : r \in RulesAt(p, t)} ELSE {}

\* That of everybody, in every repository.
EveryonesEntry(p) == IF p = "/tags" THEN {"r"} ELSE {}

\* What Subversion grants u at p: the entries of u, its groups and everybody together,
\* and those of the parent where there is none.
Entries(p, u) == UserEntry(p, u) \cup EveryonesEntry(p) \cup UNION {TeamEntry(p, t) : t \in TeamsOf(u)}
SvnGrants(p, u) == IF Entries(p, u) # {} THEN Entries(p, u) ELSE Entries("/", u)

-----------------------------------------------------------------------------
(***************************************************************************)
(* The requests.                                                           *)
(***************************************************************************)

Count == changes < MaxChanges /\ changes' = changes + 1

\* PermissionsService.addMember and updateMemberRole, by actor a.
SetMember(a, u, role) ==
  /\ Allowed(a, "MAINTAINER")
  /\ member' = [member EXCEPT ![u] = role]
  /\ Count
  /\ UNCHANGED <<admin, active, team, born, squad, link, rules, dying, reviewed, commits>>

\* PermissionsService.removeMember.
RemoveMember(a, u) ==
  /\ Allowed(a, "MAINTAINER")
  /\ member[u] # NoRole
  /\ member' = [member EXCEPT ![u] = NoRole]
  /\ Count
  /\ UNCHANGED <<admin, active, team, born, squad, link, rules, dying, reviewed, commits>>

\* PermissionsService.upsertPathPermission.  Nothing asks whether the principal exists.
UpsertRule(a, r) ==
  /\ Allowed(a, "MAINTAINER")
  /\ rules' = {q \in rules : q.path # r.path \/ q.who # r.who} \cup {r}
  /\ Cardinality(rules') <= MaxRules
  /\ Count
  /\ UNCHANGED <<admin, active, member, team, born, squad, link, dying, reviewed, commits>>

\* PermissionsService.deletePathPermission.
DeleteRule(a, r) ==
  /\ Allowed(a, "MAINTAINER")
  /\ r \in rules
  /\ rules' = rules \ {r}
  /\ Count
  /\ UNCHANGED <<admin, active, member, team, born, squad, link, dying, reviewed, commits>>

\* TeamsService.create.
CreateTeam(a, t) ==
  /\ a \in admin
  /\ t \notin born
  /\ team' = team \cup {t}
  /\ born' = born \cup {t}
  /\ Count
  /\ UNCHANGED <<admin, active, member, squad, link, rules, dying, reviewed, commits>>

\* TeamsService.deleteBySlug: its path permissions, and then the team, with which its
\* members and its links go.
DeleteTeamRules(a, t) ==
  /\ a \in admin
  /\ t \in team \ dying
  /\ rules' = {r \in rules : r.who # t}
  /\ dying' = dying \cup {t}
  /\ Count
  /\ UNCHANGED <<admin, active, member, team, born, squad, link, reviewed, commits>>

DeleteTeamRow(t) ==
  /\ t \in dying
  /\ dying' = dying \ {t}
  /\ team' = team \ {t}
  /\ squad' = [squad EXCEPT ![t] = [u \in Users |-> NoRole]]
  /\ link' = [link EXCEPT ![t] = NoRole]
  /\ UNCHANGED <<admin, active, member, born, rules, reviewed, commits, changes>>

\* TeamsService.isTeamAdmin.
IsTeamAdmin(a, t) == a \in admin \/ squad[t][a] = "ADMIN"

\* TeamsService.addMember and removeMember.
SetSquad(a, t, u, role) ==
  /\ t \in team
  /\ IsTeamAdmin(a, t)
  /\ role = NoRole => squad[t][u] # NoRole
  /\ squad' = [squad EXCEPT ![t][u] = role]
  /\ Count
  /\ UNCHANGED <<admin, active, member, team, born, link, rules, dying, reviewed, commits>>

\* TeamsService.linkRepoTeam and updateRepoTeam.
SetLink(a, t, role) ==
  /\ Allowed(a, "MAINTAINER")
  /\ t \in team
  /\ link' = [link EXCEPT ![t] = role]
  /\ Count
  /\ UNCHANGED <<admin, active, member, team, born, squad, rules, dying, reviewed, commits>>

\* TeamsService.unlinkRepoTeam.
Unlink(a, t) ==
  /\ Allowed(a, "MAINTAINER")
  /\ link[t] # NoRole
  /\ link' = [link EXCEPT ![t] = NoRole]
  /\ Count
  /\ UNCHANGED <<admin, active, member, team, born, squad, rules, dying, reviewed, commits>>

\* UsersService.updateAdmin: isAdmin and isActive.
UpdateAdmin(a, u, isAdmin, isActive) ==
  /\ a \in admin
  /\ ~(~isActive /\ u \in admin /\ u = a)
  /\ admin' = IF isAdmin THEN admin \cup {u} ELSE admin \ {u}
  /\ active' = IF isActive THEN active \cup {u} ELSE active \ {u}
  /\ Count
  /\ UNCHANGED <<member, team, born, squad, link, rules, dying, reviewed, commits>>

\* PullRequestsService.addReview, and a commit of u that the hook reports.
Review(u) ==
  /\ reviewed' = reviewed \cup {u}
  /\ Count
  /\ UNCHANGED <<admin, active, member, team, born, squad, link, rules, dying, commits>>

Commit(u) ==
  /\ u \in active /\ "w" \in SvnGrants("/trunk", u)
  /\ commits' = [commits EXCEPT ![u] = @ + 1]
  /\ Count
  /\ UNCHANGED <<admin, active, member, team, born, squad, link, rules, dying, reviewed>>

Next ==
  \/ \E a, u \in Users :
       \/ \E role \in Roles : SetMember(a, u, role)
       \/ RemoveMember(a, u)
       \/ \E t \in Teams, role \in {"MEMBER", "ADMIN", NoRole} : SetSquad(a, t, u, role)
       \/ \E isAdmin, isActive \in BOOLEAN : UpdateAdmin(a, u, isAdmin, isActive)
  \/ \E a \in Users :
       \/ \E r \in Rule : UpsertRule(a, r) \/ DeleteRule(a, r)
       \/ \E t \in Teams : \/ CreateTeam(a, t) \/ DeleteTeamRules(a, t) \/ Unlink(a, t)
                           \/ \E role \in Roles : SetLink(a, t, role)
       \/ Review(a) \/ Commit(a)
  \/ \E t \in Teams : DeleteTeamRow(t)

Spec == Init /\ [][Next]_vars

-----------------------------------------------------------------------------

\* The lists, the search and the dashboard show an active user the repository exactly
\* when its pages open for him: three queries, written apart, agree.
ListedMeansOpens ==
  \A u \in active : /\ Listed(u) <=> Allowed(u, "READER")
                    /\ Recent(u) <=> Allowed(u, "READER")

\* The queries that ask for the role of a user agree with the guard of the pages: those
\* of ListedMeansOpens, and the two by which those are found who are asked for a review
\* or told of a failed pipeline: those whose role, direct or by a team, is high enough,
\* and nobody else.  Who is asked for a review finds the pull request on his dashboard.
QueriesAgree ==
  /\ ListedMeansOpens
  /\ \A author \in Users :
       EligiblePrReviewers(author) =
         {u \in Users \ {author} : HasMinimum(EffectiveRole(u), "DEVELOPER") /\ u \notin reviewed}
  /\ \A author \in Users : EligiblePrReviewers(author) \cap active \subseteq ReviewRequested(author)
  /\ RepoMaintainers = {u \in Users : HasMinimum(EffectiveRole(u), "MAINTAINER")}

\* A path permission that grants something names u or a team of his at p.
NamedAt(p, u) == \E r \in rules : r.path = p /\ r.access # "NONE" /\ r.who \in {u} \cup TeamsOf(u)

\* On the trunk, where no path permission there or at the root grants a user something of
\* his own, the native client gets what his role on the web says: all for a maintainer or
\* an administrator, reading for any other role, nothing for none.  A permission NONE
\* does not lessen it, nor does a deactivated account (DeactivationCloses of Accounts is
\* about its way in).  The tags are another matter: everybody may read those of every
\* repository, and nobody, its owner included, may write there but by a permission.
SvnFollowsRole ==
  \A u \in Users :
    /\ ~NamedAt("/", u) /\ ~NamedAt("/trunk", u) =>
         SvnGrants("/trunk", u) =
           IF Allowed(u, "MAINTAINER") THEN {"r", "w"}
           ELSE IF Allowed(u, "READER") THEN {"r"} ELSE {}
    /\ ~NamedAt("/tags", u) => SvnGrants("/tags", u) = {"r"}

\* What PLAN-svnhub-v2-contas-teams-overview.md says of a profile: its counters tell a
\* viewer the indexed commits of the repositories that he sees.
ProfileCountsVisible ==
  \A viewer, u \in Users : CountCommits(viewer, u) = IF Found(viewer) THEN commits[u] ELSE 0

=============================================================================
