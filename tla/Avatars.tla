-------------------------------- MODULE Avatars --------------------------------
(***************************************************************************)
(* The picture of one user: AvatarService writes a file and the address    *)
(* under which it is found, which names a version; UsersController serves  *)
(* whatever file there is under any address, to be kept for a day, and     *)
(* the pages ask for the address they were rendered with.                  *)
(***************************************************************************)
EXTENDS Naturals

CONSTANTS
  Forms,      \* open settings pages
  MaxUploads, MaxRemovals,
  MaxStops    \* bound: stops of the API

VARIABLES
  file,     \* the picture in data/avatars, or 0
  url,      \* User.avatarUrl: its version, or 0 for null
  clock,    \* pictures taken and versions given so far
  request,  \* request[f]: what ProfileSettingsForm waits for; Idle while its buttons
            \* are enabled
  cache,    \* cache[v]: the picture a browser keeps for version v, 0 for none; v = 0: the
            \* address without a version, which pages use when the row has none
  removed, stops,
  calm      \* history: no two requests have overlapped and none was cut short

vars == <<file, url, clock, request, cache, removed, stops, calm>>

Idle == [kind |-> "none", step |-> "none", picture |-> 0]
Versions == 0..(2 * MaxUploads)

Init ==
  /\ file = 0 /\ url = 0 /\ clock = 0
  /\ request = [f \in Forms |-> Idle]
  /\ cache = [v \in Versions |-> 0]
  /\ removed = 0 /\ stops = 0
  /\ calm = TRUE

-----------------------------------------------------------------------------
(***************************************************************************)
(* AvatarService.                                                          *)
(***************************************************************************)

Go(f, kind, step, picture) ==
  request' = [request EXCEPT ![f] = [kind |-> kind, step |-> step, picture |-> picture]]
Alone(f) == \A g \in Forms \ {f} : request[g] = Idle

\* uploadAvatar: the file is validated; what follows awaits the disk.
Upload(f) ==
  /\ request[f] = Idle
  /\ clock < 2 * MaxUploads
  /\ clock' = clock + 1
  /\ Go(f, "upload", "write", clock')
  /\ calm' = (calm /\ Alone(f))
  /\ UNCHANGED <<file, url, cache, removed, stops>>

\* sharp(...).toFile.
WriteFile(f) ==
  /\ request[f].step = "write"
  /\ file' = request[f].picture
  /\ Go(f, "upload", "update", file')
  /\ UNCHANGED <<url, clock, cache, removed, stops, calm>>

\* A plausible slip: the address has no version.
SetUrlUnversioned(f) ==
  /\ request[f].step = "update"
  /\ url' = IF request[f].kind = "upload" THEN 1 ELSE 0
  /\ Go(f, request[f].kind, "answer", 0)
  /\ UNCHANGED <<file, clock, cache, removed, stops, calm>>

\* prisma.user.update: the version is the time; null for a removal.
SetUrl(f) ==
  /\ request[f].step = "update"
  /\ clock' = IF request[f].kind = "upload" THEN clock + 1 ELSE clock
  /\ url' = IF request[f].kind = "upload" THEN clock' ELSE 0
  /\ Go(f, request[f].kind, "answer", 0)
  /\ UNCHANGED <<file, cache, removed, stops, calm>>

\* removeAvatar: unlink, whether or not there is a file.
Remove(f) ==
  /\ request[f] = Idle
  /\ removed < MaxRemovals
  /\ removed' = removed + 1
  /\ file' = 0
  /\ Go(f, "removal", "update", 0)
  /\ calm' = (calm /\ Alone(f))
  /\ UNCHANGED <<url, clock, cache, stops>>

\* The answer reaches the form.
Answered(f) ==
  /\ request[f].step = "answer"
  /\ request' = [request EXCEPT ![f] = Idle]
  /\ UNCHANGED <<file, url, clock, cache, removed, stops, calm>>

\* The API stops: the requests under way fail.
Stop ==
  /\ stops < MaxStops
  /\ stops' = stops + 1
  /\ calm' = (calm /\ \A f \in Forms : request[f].step \in {"none", "answer"})
  /\ request' = [f \in Forms |-> Idle]
  /\ UNCHANGED <<file, url, clock, cache, removed>>

-----------------------------------------------------------------------------
(***************************************************************************)
(* A page with the address of the row, version v, shows what the browser   *)
(* keeps or what the API serves; a 404 is not kept.                        *)
(***************************************************************************)

Shown(v) == IF cache[v] # 0 THEN cache[v] ELSE file

Serve(v) ==
  /\ v = url
  /\ cache[v] = 0 /\ file # 0
  /\ cache' = [cache EXCEPT ![v] = file]
  /\ UNCHANGED <<file, url, clock, request, removed, stops, calm>>

\* max-age has passed: the next request is answered by the etag of the file.
Expire(v) ==
  /\ cache[v] # 0
  /\ cache' = [cache EXCEPT ![v] = 0]
  /\ UNCHANGED <<file, url, clock, request, removed, stops, calm>>

Next ==
  \/ \E f \in Forms : Upload(f) \/ WriteFile(f) \/ SetUrl(f) \/ Remove(f) \/ Answered(f)
  \/ Stop
  \/ \E v \in Versions : Serve(v) \/ Expire(v)

Spec == Init /\ [][Next]_vars

-----------------------------------------------------------------------------

\* When the changes of a picture have come one after the other, each to its end, the
\* address in the row shows the picture uploaded last, whatever a browser has kept, and
\* without an address there is no file.
PictureCurrent ==
  (calm /\ \A f \in Forms : request[f] = Idle) =>
    /\ url # 0 => file # 0 /\ Shown(url) = file
    /\ url = 0 => file = 0
=============================================================================
