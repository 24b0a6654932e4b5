--------------------------- MODULE AuthzSyncProofs ---------------------------
(***************************************************************************)
(* What holds of the authz file for any number of requests, writes,        *)
(* failures and restarts.  The invariant that carries the proof says where *)
(* a caller stands when it has the mutex, and that whatever such a caller  *)
(* has read is no older than the file, than its own write, and no newer    *)
(* than the database: nobody but the holder of the mutex changes the file. *)
(***************************************************************************)
EXTENDS AuthzSync, MutexProofs

\* The parts that have been read when the holder of the mutex stands at step s.
ReadAt(s) ==
  CASE s = "repos" -> {"groups"}
    [] s = "admins" -> {"groups", "repos", "uses"}
    [] s \in {"open", "write"} -> Parts
    [] OTHER -> {}

Outside == {"idle", "disband", "call"}

\* A caller stands in rebuildAll exactly while it has or awaits the mutex, and one
\* that awaits it has read nothing.
Places ==
  \A c \in Callers :
    /\ phase[c] = "out" <=> op[c].step \in Outside
    /\ phase[c] = "waiting" => op[c].step = "groups"

\* What caller c holds, in memory or in the temporary file, may replace the file.
Fresh(c, v, parts) ==
  \A x \in parts : op[c].wrote[x] <= v[x] /\ file.has[x] <= v[x] /\ v[x] <= db[x]

Ordered ==
  /\ file.whole
  /\ db["uses"] <= db["groups"]
  /\ AtMost(promised, file.has)
  /\ AtMost(file.has, db)
  /\ \A c \in Callers :
       /\ AtMost(op[c].wrote, db)
       /\ Fresh(c, op[c].got, ReadAt(op[c].step))
       /\ At(c, "rename") => tmp.whole /\ Fresh(c, tmp.has, Parts)
       /\ At(c, "chown") => AtMost(op[c].wrote, file.has)

IInv == TypeOK /\ MutexInv /\ Places /\ Ordered

-----------------------------------------------------------------------------

\* The accounts of the mutex depend on its variables only.
LEMMA MutexStutter == MutexInv /\ UNCHANGED mutexVars => MutexInv'
  BY DEF MutexInv, MutexTypeOK, LockAccounted, Exclusive, mutexVars

LEMMA ZeroVersions == Zero \in Versions /\ \A x \in Parts : Zero[x] = 0
  BY DEF Zero, Versions

\* A record of an operation with two fields replaced.
LEMMA ReplaceTwo ==
  ASSUME NEW r \in [step : Steps, wrote : Versions, got : Versions],
         NEW s \in Steps, NEW v \in Versions
  PROVE  /\ [r EXCEPT !.step = s, !.got = v] = [step |-> s, wrote |-> r.wrote, got |-> v]
         /\ [r EXCEPT !.step = s, !.wrote = v] = [step |-> s, wrote |-> v, got |-> r.got]
<1>1. ASSUME NEW q \in [step : Steps, wrote : Versions, got : Versions]
      PROVE  q = [step |-> q.step, wrote |-> q.wrote, got |-> q.got]
  OBVIOUS
<1>2. /\ [r EXCEPT !.step = s, !.got = v] \in [step : Steps, wrote : Versions, got : Versions]
      /\ [r EXCEPT !.step = s, !.wrote = v] \in [step : Steps, wrote : Versions, got : Versions]
  OBVIOUS
<1> QED BY <1>1, <1>2

LEMMA InitIInv == Init => IInv
<1> SUFFICES ASSUME Init PROVE IInv
  OBVIOUS
<1>1. MutexInv
  BY MutexInitInv DEF Init
<1>2. TypeOK
  BY <1>1, ZeroVersions DEF Init, TypeOK, MutexInv, Content, Torn, IdleOp, Steps
<1>3. Places
  BY DEF Init, MutexInit, Places, IdleOp, Outside
<1>4. Ordered
  BY ZeroVersions DEF Init, Ordered, AtMost, Fresh, ReadAt, At, IdleOp, Parts
<1> QED BY <1>1, <1>2, <1>3, <1>4 DEF IInv

\* A write that raises versions only, by a caller outside rebuildAll.
LEMMA WriteStep ==
  ASSUME IInv, NEW c \in Callers, NEW new \in Versions, NEW s \in Outside,
         op[c].step \in Outside, AtMost(db, new), new["uses"] <= new["groups"],
         Write(c, new, s), changes' \in Nat
  PROVE  IInv'
<1> USE DEF IInv
<1>1. MutexInv'
  BY MutexStutter DEF Write
<1>2. op' = [op EXCEPT ![c] = [step |-> s, wrote |-> new, got |-> Zero]]
  <2>1. [IdleOp EXCEPT !.step = s, !.wrote = new] = [step |-> s, wrote |-> new, got |-> Zero]
    <3>1. IdleOp \in [step : Steps, wrote : Versions, got : Versions]
      BY ZeroVersions DEF IdleOp, Steps
    <3>2. s \in Steps /\ IdleOp.got = Zero
      BY DEF Outside, Steps, IdleOp
    <3> QED BY <3>1, <3>2, ReplaceTwo
  <2> QED BY <2>1 DEF Write
<1>3. TypeOK'
  BY <1>1, <1>2, ZeroVersions DEF TypeOK, Write, disk, MutexInv, Steps, Outside, Content
<1>4. Places'
  BY <1>2 DEF TypeOK, Places, Write, mutexVars
<1>5. Ordered'
  <2>1. \A x \in Parts : db[x] <= db'[x] /\ db[x] \in Nat /\ db'[x] \in Nat
    BY DEF Write, AtMost, TypeOK, Versions
  <2>2. /\ file'.whole /\ AtMost(promised, file.has)' /\ AtMost(file.has, db)'
        /\ (db["uses"] <= db["groups"])'
    BY <2>1 DEF Ordered, Write, disk, AtMost, TypeOK, Content, Versions
  <2>3. ASSUME NEW d \in Callers, d # c
        PROVE  /\ AtMost(op[d].wrote, db)'
               /\ Fresh(d, op[d].got, ReadAt(op[d].step))'
               /\ At(d, "rename")' => tmp'.whole /\ Fresh(d, tmp.has, Parts)'
               /\ At(d, "chown")' => AtMost(op[d].wrote, file.has)'
    <3>1. op'[d] = op[d] /\ tmp' = tmp /\ file' = file
      BY <1>2, <2>3 DEF TypeOK, Write, disk
    <3>2. ReadAt(op[d].step) \subseteq Parts
      BY DEF ReadAt, Parts
    <3> QED BY <2>1, <3>1, <3>2 DEF Ordered, AtMost, Fresh, At, TypeOK, Content, Versions
  <2>4. /\ AtMost(op[c].wrote, db)'
        /\ Fresh(c, op[c].got, ReadAt(op[c].step))'
        /\ ~At(c, "rename")' /\ ~At(c, "chown")'
    <3>1. op'[c] = [step |-> s, wrote |-> new, got |-> Zero] /\ db' = new
      BY <1>2 DEF TypeOK, Write
    <3>2. ReadAt(s) = {}
      BY DEF ReadAt, Outside
    <3> QED BY <3>1, <3>2, <2>1 DEF AtMost, Fresh, At, Outside
  <2> QED BY <2>2, <2>3, <2>4 DEF Ordered
<1> QED BY <1>1, <1>3, <1>4, <1>5

\* A query of the holder of the mutex.
LEMMA QueryStep ==
  ASSUME IInv, NEW c \in Callers, NEW from \in Steps, NEW parts \in SUBSET Parts, NEW to \in Steps,
         Query(c, from, parts, to), to \notin Outside \cup {"rename", "chown"},
         ReadAt(to) = ReadAt(from) \cup parts
  PROVE  IInv'
<1> USE DEF IInv
<1> DEFINE got == [x \in Parts |-> IF x \in parts THEN db[x] ELSE op[c].got[x]]
<1>1. MutexInv'
  BY MutexStutter DEF Query
<1>2. /\ op'[c] = [step |-> to, wrote |-> op[c].wrote, got |-> got]
      /\ \A d \in Callers \ {c} : op'[d] = op[d]
      /\ op' \in [Callers -> [step : Steps, wrote : Versions, got : Versions]]
  <2>1. got \in Versions
    BY DEF TypeOK, Versions
  <2>2. op[c] \in [step : Steps, wrote : Versions, got : Versions]
    BY DEF TypeOK
  <2>3. op' = [op EXCEPT ![c] = [op[c] EXCEPT !.step = to, !.got = got]]
    BY DEF Query, TypeOK
  <2>4. [op[c] EXCEPT !.step = to, !.got = got] = [step |-> to, wrote |-> op[c].wrote, got |-> got]
    BY <2>1, <2>2, ReplaceTwo
  <2> QED BY <2>1, <2>2, <2>3, <2>4 DEF TypeOK
<1>3. got \in Versions
  BY DEF TypeOK, Versions
<1>4. TypeOK'
  BY <1>1, <1>2, <1>3 DEF TypeOK, Query, disk, store, MutexInv
<1>5. Places'
  BY <1>2 DEF TypeOK, Places, Query, mutexVars
<1>6. Ordered'
  <2>1. db' = db /\ tmp' = tmp /\ file' = file /\ promised' = promised
    BY DEF Query, store, disk
  <2>4. Fresh(c, got, ReadAt(to))
    <3>1. Fresh(c, op[c].got, ReadAt(from)) /\ ReadAt(from) \subseteq Parts
      BY DEF Ordered, Query, At, ReadAt, Parts
    <3>2. AtMost(op[c].wrote, db) /\ AtMost(file.has, db)
      BY DEF Ordered
    <3> QED BY <3>1, <3>2 DEF Fresh, AtMost, TypeOK, Versions, Content
  <2>5. /\ AtMost(op[c].wrote, db)'
        /\ Fresh(c, op[c].got, ReadAt(op[c].step))'
        /\ ~At(c, "rename")' /\ ~At(c, "chown")'
    <3> HIDE DEF got
    <3>1. op'[c].step = to /\ op'[c].wrote = op[c].wrote /\ op'[c].got = got
      BY <1>2
    <3>2. AtMost(op[c].wrote, db)
      BY DEF Ordered
    <3> QED BY <2>1, <2>4, <3>1, <3>2 DEF AtMost, Fresh, At
  <2> QED BY <1>2, <2>1, <2>5 DEF Ordered, AtMost, Fresh, At
<1> QED BY <1>1, <1>4, <1>5, <1>6

\* The call of withMutex: the caller stands before its first query.
LEMMA CallStep ==
  ASSUME IInv, NEW c \in Callers, CallRebuild(c)
  PROVE  IInv'
<1> USE DEF IInv
<1>1. MutexInv'
  BY EnterInv DEF CallRebuild
<1>2. /\ op'[c] = [op[c] EXCEPT !.step = "groups"]
      /\ \A d \in Callers \ {c} : op'[d] = op[d]
      /\ op' \in [Callers -> [step : Steps, wrote : Versions, got : Versions]]
  BY DEF CallRebuild, GoTo, TypeOK, Steps
<1>3. TypeOK'
  BY <1>1, <1>2 DEF TypeOK, CallRebuild, store, disk, MutexInv
<1>4. Places'
  BY <1>2 DEF TypeOK, MutexTypeOK, Places, CallRebuild, Enter, Outside
<1>5. Ordered'
  <2>1. db' = db /\ tmp' = tmp /\ file' = file /\ promised' = promised
    BY DEF CallRebuild, store, disk
  <2>2. op'[c].step = "groups" /\ op'[c].wrote = op[c].wrote
    BY <1>2 DEF TypeOK
  <2>3. ReadAt("groups") = {}
    BY DEF ReadAt
  <2> QED BY <1>2, <2>1, <2>2, <2>3 DEF Ordered, AtMost, Fresh, At
<1> QED BY <1>1, <1>3, <1>4, <1>5

\* Nobody but one caller is in the mutex, so nobody else stands past its queries.
LEMMA OneWriter ==
  ASSUME IInv, NEW c \in Callers, NEW d \in Callers, c # d,
         op[c].step \notin Outside, op[c].step # "groups"
  PROVE  op[d].step \in Outside \cup {"groups"} /\ phase[c] = "in"
<1>1. phase[c] = "in"
  BY DEF IInv, Places, TypeOK, MutexTypeOK
<1>2. phase[d] # "in"
  BY <1>1 DEF IInv, MutexInv, LockAccounted, Exclusive
<1> QED BY <1>1, <1>2 DEF IInv, Places, TypeOK, MutexTypeOK

\* The temporary file is opened, and written.
LEMMA TmpStep ==
  ASSUME IInv, NEW c \in Callers, OpenTmp(c) \/ WriteTmp(c)
  PROVE  IInv'
<1> USE DEF IInv
<1>1. MutexInv'
  BY MutexStutter DEF OpenTmp, WriteTmp
<1>2. Torn \in Content
  BY ZeroVersions DEF Torn, Content
<1>3. op[c].step \in {"open", "write"} /\ Fresh(c, op[c].got, Parts)
  BY DEF OpenTmp, WriteTmp, At, Ordered, ReadAt
<1>4. db' = db /\ file' = file /\ promised' = promised /\ phase' = phase
  BY DEF OpenTmp, WriteTmp, store, mutexVars
<1>5. \A d \in Callers \ {c} : op'[d] = op[d] /\ op[d].step # "rename"
  BY <1>3, OneWriter DEF OpenTmp, WriteTmp, GoTo, TypeOK, Outside
<1>6. CASE OpenTmp(c)
  <2>1. /\ op'[c] = [op[c] EXCEPT !.step = "write"]
        /\ op' \in [Callers -> [step : Steps, wrote : Versions, got : Versions]]
    BY <1>6 DEF OpenTmp, GoTo, TypeOK, Steps
  <2>2. op'[c].step = "write" /\ op'[c].wrote = op[c].wrote /\ op'[c].got = op[c].got
    BY <2>1 DEF TypeOK
  <2>3. TypeOK'
    BY <1>1, <1>2, <1>6, <2>1 DEF TypeOK, OpenTmp, store, disk, MutexInv
  <2>4. Places'
    BY <1>3, <1>4, <1>5, <2>2 DEF Places, Outside
  <2>5. ReadAt("write") = Parts
    BY DEF ReadAt
  <2>6. Ordered'
    BY <1>3, <1>4, <1>5, <2>2, <2>5 DEF Ordered, AtMost, Fresh, At
  <2> QED BY <1>1, <2>3, <2>4, <2>6
<1>7. CASE WriteTmp(c)
  <2>1. /\ op'[c] = [step |-> "rename", wrote |-> op[c].wrote, got |-> Zero]
        /\ op' \in [Callers -> [step : Steps, wrote : Versions, got : Versions]]
    <3>1. op[c] \in [step : Steps, wrote : Versions, got : Versions] /\ "rename" \in Steps
      BY DEF TypeOK, Steps
    <3>2. op' = [op EXCEPT ![c] = [op[c] EXCEPT !.step = "rename", !.got = Zero]]
      BY <1>7 DEF WriteTmp, TypeOK
    <3> QED BY <3>1, <3>2, ReplaceTwo, ZeroVersions DEF TypeOK
  <2>2. tmp' = [whole |-> TRUE, has |-> op[c].got]
    BY <1>7 DEF WriteTmp
  <2>3. TypeOK'
    BY <1>1, <1>7, <2>1, <2>2 DEF TypeOK, WriteTmp, store, MutexInv, Content
  <2>4. Places'
    BY <1>3, <1>4, <1>5, <2>1 DEF Places, Outside
  <2>5. ReadAt("rename") = {}
    BY DEF ReadAt
  <2>6. tmp'.whole /\ Fresh(c, tmp.has, Parts)'
    BY <1>3, <1>4, <2>1, <2>2 DEF Fresh
  <2>7. Ordered'
    BY <1>4, <1>5, <2>1, <2>5, <2>6 DEF Ordered, AtMost, Fresh, At
  <2> QED BY <1>1, <2>3, <2>4, <2>7
<1> QED BY <1>6, <1>7

\* The temporary file takes the place of the authz file: what it holds is fresh.
LEMMA RenameStep ==
  ASSUME IInv, NEW c \in Callers, RenameTmp(c)
  PROVE  IInv'
<1> USE DEF IInv
<1>1. MutexInv'
  BY MutexStutter DEF RenameTmp
<1>2. op[c].step = "rename" /\ tmp.whole /\ Fresh(c, tmp.has, Parts)
  BY DEF RenameTmp, At, Ordered
<1>3. db' = db /\ file' = tmp /\ tmp' = Torn /\ promised' = promised /\ phase' = phase
  BY DEF RenameTmp, store, mutexVars
<1>4. /\ op'[c] = [op[c] EXCEPT !.step = "chown"]
      /\ \A d \in Callers \ {c} : op'[d] = op[d]
      /\ op' \in [Callers -> [step : Steps, wrote : Versions, got : Versions]]
  BY DEF RenameTmp, GoTo, TypeOK, Steps
<1>5. op'[c].step = "chown" /\ op'[c].wrote = op[c].wrote
  BY <1>4 DEF TypeOK
<1>6. ASSUME NEW d \in Callers \ {c}
      PROVE  ReadAt(op[d].step) = {} /\ op[d].step \notin {"rename", "chown"}
  BY <1>2, OneWriter DEF Outside, ReadAt
<1>7. TypeOK'
  <2>1. Torn \in Content
    BY ZeroVersions DEF Torn, Content
  <2> QED BY <1>1, <1>3, <1>4, <2>1 DEF TypeOK, RenameTmp, store, MutexInv
<1>8. Places'
  BY <1>2, <1>3, <1>4, <1>5 DEF Places, Outside
<1>9. Ordered'
  <2>1. \A x \in Parts : promised[x] <= tmp.has[x] /\ tmp.has[x] <= db[x]
    BY <1>2 DEF Ordered, AtMost, Fresh, TypeOK, Versions, Content
  <2>2. AtMost(promised, file.has)' /\ AtMost(file.has, db)' /\ file'.whole
    BY <1>2, <1>3, <2>1 DEF AtMost
  <2>3. ReadAt("chown") = {} /\ AtMost(op[c].wrote, tmp.has)
    BY <1>2 DEF ReadAt, Fresh, AtMost
  <2>4. \A d \in Callers : AtMost(op[d].wrote, db)'
    BY <1>3, <1>4, <1>5 DEF Ordered, AtMost
  <2>5. /\ Fresh(c, op[c].got, ReadAt(op[c].step))'
        /\ ~At(c, "rename")'
        /\ AtMost(op[c].wrote, file.has)'
    BY <1>3, <1>5, <2>3 DEF Fresh, At, AtMost
  <2>6. ASSUME NEW d \in Callers \ {c}
        PROVE  /\ Fresh(d, op[d].got, ReadAt(op[d].step))'
               /\ ~At(d, "rename")' /\ ~At(d, "chown")'
    BY <1>4, <1>6 DEF Fresh, At
  <2>7. (db["uses"] <= db["groups"])'
    BY <1>3 DEF Ordered
  <2> QED BY <2>2, <2>4, <2>5, <2>6, <2>7 DEF Ordered
<1> QED BY <1>1, <1>7, <1>8, <1>9

\* An operation ends, with or without the mutex, and leaves the files as they are.
LEMMA EndStep ==
  ASSUME IInv, NEW c \in Callers,
         Leave(c) \/ (phase[c] = "out" /\ UNCHANGED mutexVars),
         op' = [op EXCEPT ![c] = IdleOp],
         UNCHANGED <<store, disk>>,
         promised' \in Versions, AtMost(promised', file.has),
         up' \in BOOLEAN, faults' \in Nat
  PROVE  IInv'
<1> USE DEF IInv
<1>1. MutexInv'
  BY LeaveInv, MutexStutter
<1>2. db' = db /\ tmp' = tmp /\ file' = file /\ changes' = changes
  BY DEF store, disk
<1>3. op'[c] = IdleOp /\ \A d \in Callers \ {c} : op'[d] = op[d]
  BY DEF TypeOK
<1>4. TypeOK'
  BY <1>1, <1>2, ZeroVersions DEF TypeOK, MutexInv, IdleOp, Steps
<1>5. Places'
  <2>1. phase'[c] = "out"
    <3>1. CASE Leave(c)
      <4>1. waiting # <<>> => Head(waiting) # c
        <5> SUFFICES ASSUME waiting # <<>> PROVE Head(waiting) # c
          OBVIOUS
        <5>1. Head(waiting) = waiting[1] /\ 1 \in DOMAIN waiting
          BY DEF MutexInv, MutexTypeOK
        <5> QED BY <3>1, <5>1 DEF Leave, MutexInv, LockAccounted
      <4> QED BY <3>1, <4>1 DEF Leave, MutexInv, MutexTypeOK
    <3>2. CASE phase[c] = "out" /\ UNCHANGED mutexVars
      BY <3>2 DEF mutexVars
    <3> QED BY <3>1, <3>2
  <2>2. ASSUME NEW d \in Callers \ {c}
        PROVE  \/ phase'[d] = phase[d]
               \/ phase[d] = "waiting" /\ phase'[d] = "in"
    <3>1. CASE Leave(c) /\ waiting # <<>> /\ d = Head(waiting)
      <4>1. Head(waiting) = waiting[1] /\ 1 \in DOMAIN waiting
        BY <3>1 DEF MutexInv, MutexTypeOK
      <4>2. phase[d] = "waiting"
        BY <3>1, <4>1 DEF MutexInv, LockAccounted
      <4> QED BY <3>1, <4>2 DEF Leave, MutexInv, MutexTypeOK
    <3>2. CASE Leave(c) /\ ~(waiting # <<>> /\ d = Head(waiting))
      BY <3>2 DEF Leave, MutexInv, MutexTypeOK
    <3>3. CASE UNCHANGED mutexVars
      BY <3>3 DEF mutexVars
    <3> QED BY <3>1, <3>2, <3>3
  <2> QED BY <1>3, <2>1, <2>2 DEF Places, Outside, IdleOp
<1>6. Ordered'
  <2>1. ReadAt("idle") = {} /\ \A x \in Parts : Zero[x] = 0
    BY ZeroVersions DEF ReadAt
  <2>2. /\ AtMost(op[c].wrote, db)'
        /\ Fresh(c, op[c].got, ReadAt(op[c].step))'
        /\ ~At(c, "rename")' /\ ~At(c, "chown")'
    BY <1>2, <1>3, <2>1 DEF IdleOp, AtMost, Fresh, At, TypeOK, Versions
  <2> QED BY <1>2, <1>3, <2>2 DEF Ordered, AtMost, Fresh, At
<1> QED BY <1>1, <1>4, <1>5, <1>6

\* The process dies: the startup is the only operation left.
LEMMA CrashStep ==
  ASSUME IInv, Crash
  PROVE  IInv'
<1> USE DEF IInv
<1>1. MutexInv'
  BY RestartInv DEF Crash
<1>2. db' = db /\ tmp' = tmp /\ file' = file /\ changes' = changes /\ promised' = promised
  BY DEF Crash, store, disk
<1>3. \A d \in Callers : /\ op'[d].step \in {"idle", "call"}
                         /\ op'[d].wrote = Zero /\ op'[d].got = Zero
                         /\ op'[d] \in [step : Steps, wrote : Versions, got : Versions]
  BY ZeroVersions DEF Crash, IdleOp, Steps
<1>4. TypeOK'
  <2>1. op' \in [Callers -> [step : Steps, wrote : Versions, got : Versions]]
    BY <1>3 DEF Crash
  <2>2. up' \in BOOLEAN
    BY DEF Crash
  <2>3. faults' \in Nat
    BY DEF Crash, Fault, TypeOK
  <2> QED BY <1>1, <1>2, <2>1, <2>2, <2>3 DEF TypeOK, MutexInv
<1>5. Places'
  BY <1>3 DEF Places, Crash, Restart, Outside
<1>6. Ordered'
  <2>1. ReadAt("idle") = {} /\ ReadAt("call") = {} /\ \A x \in Parts : Zero[x] = 0
    BY ZeroVersions DEF ReadAt
  <2>2. ASSUME NEW d \in Callers
        PROVE  /\ AtMost(op[d].wrote, db)'
               /\ Fresh(d, op[d].got, ReadAt(op[d].step))'
               /\ ~At(d, "rename")' /\ ~At(d, "chown")'
    <3>1. AtMost(op[d].wrote, db)'
      BY <1>2, <1>3, <2>1 DEF AtMost, TypeOK, Versions
    <3>2. ReadAt(op'[d].step) = {}
      BY <1>3, <2>1
    <3> QED BY <1>3, <3>1, <3>2 DEF Fresh, At
  <2> QED BY <1>2, <2>2 DEF Ordered, AtMost
<1> QED BY <1>1, <1>4, <1>5, <1>6

-----------------------------------------------------------------------------

\* The first write of every operation only raises versions.
LEMMA ChangeStep ==
  ASSUME IInv, NEW c \in Callers, Change(c)
  PROVE  IInv'
<1> USE DEF IInv
<1>1. ASSUME NEW parts \in SUBSET (Parts \ {"uses"})
      PROVE  /\ Bump(parts) \in Versions /\ AtMost(db, Bump(parts))
             /\ Bump(parts)["uses"] <= Bump(parts)["groups"]
  BY DEF Bump, AtMost, TypeOK, Versions, Ordered, Parts
<1>2. ASSUME NEW new \in Versions, AtMost(db, new), new["uses"] <= new["groups"],
             NEW s \in Outside, Begin(c, new, s)
      PROVE  IInv'
  <2>1. op[c].step \in Outside /\ Write(c, new, s) /\ changes' \in Nat
    BY <1>2 DEF Begin, At, Outside, TypeOK
  <2> QED BY <1>2, <2>1, WriteStep
<1>3. ASSUME NEW parts \in SUBSET (Parts \ {"uses"}), NEW s \in Outside,
             Begin(c, Bump(parts), s)
      PROVE  IInv'
  BY <1>1, <1>2, <1>3
<1>4. {"idle", "call", "disband"} \subseteq Outside /\ {"groups", "repos", "admins"} \subseteq Parts \ {"uses"}
  BY DEF Outside, Parts
<1>5. CASE LinkTeam(c)
  <2> DEFINE new == [Bump({"repos"}) EXCEPT !["uses"] = db["groups"]]
  <2>1. new \in Versions /\ AtMost(db, new) /\ new["uses"] <= new["groups"]
    BY DEF Bump, AtMost, TypeOK, Versions, Ordered, Parts
  <2> QED BY <1>2, <1>4, <1>5, <2>1 DEF LinkTeam
<1>12. CASE RenameTeam(c)
  <2> DEFINE new == [Bump({"groups", "repos"}) EXCEPT !["uses"] = db["groups"] + 1]
  <2>1. new \in Versions /\ AtMost(db, new) /\ new["uses"] <= new["groups"]
    BY DEF Bump, AtMost, TypeOK, Versions, Ordered, Parts
  <2> QED BY <1>2, <1>4, <1>12, <2>1 DEF RenameTeam
<1>6. CASE ChangeTeam(c)
  BY <1>3, <1>4, <1>6 DEF ChangeTeam
<1>7. CASE ChangeAccess(c)
  BY <1>3, <1>4, <1>7 DEF ChangeAccess
<1>8. CASE DisbandPermissions(c)
  BY <1>3, <1>4, <1>8 DEF DisbandPermissions
<1>9. CASE Deactivate(c)
  BY <1>3, <1>4, <1>9 DEF Deactivate
<1>10. CASE ChangeAdmin(c)
  BY <1>3, <1>4, <1>10 DEF ChangeAdmin
<1>11. CASE RemoveRepository(c)
  BY <1>3, <1>4, <1>11 DEF RemoveRepository
<1> QED BY <1>5, <1>6, <1>7, <1>8, <1>9, <1>10, <1>11, <1>12 DEF Change

\* The second write of deleteBySlug does, too.
LEMMA DisbandStep ==
  ASSUME IInv, NEW c \in Callers, DisbandTeam(c)
  PROVE  IInv'
<1> DEFINE new == Bump({"groups", "repos"})
<1>1. new \in Versions /\ AtMost(db, new) /\ new["uses"] <= new["groups"]
  BY DEF IInv, Bump, AtMost, TypeOK, Versions, Ordered, Parts
<1>2. op[c].step \in Outside /\ "call" \in Outside /\ Write(c, new, "call") /\ changes' \in Nat
  BY DEF IInv, DisbandTeam, At, Outside, TypeOK
<1> QED BY <1>1, <1>2, WriteStep

\* The queries of compileAll, one by one.
LEMMA ReadStep ==
  ASSUME IInv, NEW c \in Callers, ReadGroups(c) \/ ReadRepositories(c) \/ ReadAdmins(c)
  PROVE  IInv'
<1>1. /\ ReadAt("groups") = {} /\ ReadAt("repos") = {"groups"}
      /\ ReadAt("admins") = {"groups", "repos", "uses"} /\ ReadAt("open") = Parts
  BY DEF ReadAt
<1>2. {"groups", "repos", "admins", "open"} \subseteq Steps \ (Outside \cup {"rename", "chown"})
  BY DEF Steps, Outside
<1>3. CASE ReadGroups(c)
  <2>1. ReadAt("repos") = ReadAt("groups") \cup {"groups"} /\ {"groups"} \subseteq Parts
    BY <1>1 DEF Parts
  <2> QED BY <1>2, <1>3, <2>1, QueryStep DEF ReadGroups
<1>4. CASE ReadRepositories(c)
  <2>1. ReadAt("admins") = ReadAt("repos") \cup {"repos", "uses"} /\ {"repos", "uses"} \subseteq Parts
    BY <1>1 DEF Parts
  <2> QED BY <1>2, <1>4, <2>1, QueryStep DEF ReadRepositories
<1>5. CASE ReadAdmins(c)
  <2>1. ReadAt("open") = ReadAt("admins") \cup {"admins"} /\ {"admins"} \subseteq Parts
    BY <1>1 DEF Parts
  <2> QED BY <1>2, <1>5, <2>1, QueryStep DEF ReadAdmins
<1> QED BY <1>3, <1>4, <1>5

\* The answer promises what the operation wrote, and the file has it.
LEMMA AnswerStep ==
  ASSUME IInv, NEW c \in Callers, Answer(c)
  PROVE  IInv'
<1>1. AtMost(op[c].wrote, file.has) /\ AtMost(promised, file.has)
  BY DEF IInv, Ordered, Answer
<1>2. promised' \in Versions /\ AtMost(promised', file.has)
  BY <1>1 DEF IInv, Answer, AtMost, TypeOK, Versions
<1>3. up' \in BOOLEAN /\ faults' \in Nat /\ Leave(c) /\ op' = [op EXCEPT ![c] = IdleOp]
      /\ UNCHANGED <<store, disk>>
  BY DEF IInv, Answer, TypeOK
<1> QED BY <1>2, <1>3, EndStep

\* A failure promises nothing.
LEMMA FailStep ==
  ASSUME IInv, NEW c \in Callers, Fail(c)
  PROVE  IInv'
<1>1. promised' \in Versions /\ AtMost(promised', file.has)
  BY DEF IInv, Ordered, Fail, TypeOK
<1>2. up' \in BOOLEAN /\ faults' \in Nat /\ op' = [op EXCEPT ![c] = IdleOp]
      /\ UNCHANGED <<store, disk>>
  BY DEF IInv, Fail, Fault, TypeOK
<1>3. Leave(c) \/ (phase[c] = "out" /\ UNCHANGED mutexVars)
  BY DEF Fail
<1> QED BY <1>1, <1>2, <1>3, EndStep

LEMMA NextIInv == IInv /\ [Next]_vars => IInv'
<1> SUFFICES ASSUME IInv, [Next]_vars PROVE IInv'
  OBVIOUS
<1>1. CASE \E c \in Requests : Change(c)
  BY <1>1, ChangeStep DEF Requests
<1>2. ASSUME NEW c \in Callers, Step(c) PROVE IInv'
  BY <1>2, DisbandStep, CallStep, ReadStep, TmpStep, RenameStep, AnswerStep DEF Step
<1>3. ASSUME NEW c \in Callers, Fail(c) PROVE IInv'
  BY <1>3, FailStep
<1>4. CASE Crash
  BY <1>4, CrashStep
<1>5. CASE UNCHANGED vars
  <2>1. MutexInv'
    BY <1>5, MutexStutter DEF vars, IInv
  <2>2. TypeOK' /\ Places' /\ Ordered'
    BY <1>5, <2>1 DEF IInv, TypeOK, Places, Ordered, AtMost, Fresh, At, vars, mutexVars, store, disk, MutexInv
  <2> QED BY <2>1, <2>2 DEF IInv
<1> QED BY <1>1, <1>2, <1>3, <1>4, <1>5 DEF Next

THEOREM Invariance == Spec => []IInv
  BY InitIInv, NextIInv, PTL DEF Spec

\* The variables keep their types, for any number of requests.
THEOREM TypeCorrect == Spec => []TypeOK
  BY Invariance, PTL DEF IInv

\* The accounts of the mutex hold in the service that uses it.
THEOREM LockHolds == Spec => []LockAccounted
  BY Invariance, PTL DEF IInv, MutexInv

\* Apache never reads a file that is only partly written.
THEOREM FileAlwaysWhole == Spec => []FileWhole
  BY Invariance, PTL DEF IInv, Ordered, FileWhole

\* An answered change is in the file for good, whatever fails or restarts later.
THEOREM AnswersAlwaysHold == Spec => []AnswersHold
  BY Invariance, PTL DEF IInv, Ordered, AnswersHold

-----------------------------------------------------------------------------
(***************************************************************************)
(* Each step of the service is one of the mutex or leaves it alone, so     *)
(* the service has the lock the mutex promises.                            *)
(***************************************************************************)

\* What an operation does to the mutex.
LEMMA NextIsMutex == [Next]_vars => [MutexNext]_mutexVars
<1> SUFFICES ASSUME [Next]_vars PROVE [MutexNext]_mutexVars
  OBVIOUS
<1>1. ASSUME NEW c \in Requests, Change(c) PROVE UNCHANGED mutexVars
  BY <1>1 DEF Change, ChangeTeam, RenameTeam, ChangeAccess, LinkTeam, DisbandPermissions, Deactivate,
              ChangeAdmin, RemoveRepository, Begin, Write
<1>2. ASSUME NEW c \in Callers, Step(c) PROVE Enter(c) \/ Leave(c) \/ UNCHANGED mutexVars
  BY <1>2 DEF Step, DisbandTeam, Write, CallRebuild, ReadGroups, ReadRepositories, ReadAdmins,
              Query, OpenTmp, WriteTmp, RenameTmp, Answer
<1>3. ASSUME NEW c \in Callers, Fail(c) PROVE Leave(c) \/ UNCHANGED mutexVars
  BY <1>3 DEF Fail
<1>4. CASE Crash
  BY <1>4 DEF Crash, MutexNext
<1>5. CASE UNCHANGED vars
  BY <1>5 DEF vars
<1> QED BY <1>1, <1>2, <1>3, <1>4, <1>5 DEF Next, MutexNext

\* The rebuilds of the authz file, with failures and restarts, keep to the lock: one rebuild at a
\* time, and a release passes the mutex on to one that waits.
THEOREM RebuildsImplementLock == Spec => ImplementsLock
<1>1. Init => MutexInit
  BY DEF Init
<1>2. Spec => MutexSpec
  BY <1>1, NextIsMutex, PTL DEF Spec, MutexSpec
<1> QED BY <1>2, MutexImplementsLock, PTL

-----------------------------------------------------------------------------
(***************************************************************************)
(* The file against the database while nothing fails: what the file has    *)
(* not yet of the groups and of the links to them, some operation in       *)
(* flight wrote and will bring in.                                         *)
(***************************************************************************)

Shown == {"groups", "uses"}
Owes(c, x) == ~At(c, "idle") /\ op[c].wrote[x] >= db[x]
Owed == faults = 0 => \A x \in Shown : file.has[x] = db[x] \/ \E c \in Callers : Owes(c, x)

LEMMA InitOwed == Init => Owed
  BY ZeroVersions DEF Init, Owed, Shown, Parts

\* The versions of what is shown are numbers, and the file is never ahead.
LEMMA ShownNumbers ==
  ASSUME IInv, NEW x \in Shown
  PROVE  /\ db[x] \in Nat /\ file.has[x] \in Nat /\ file.has[x] <= db[x]
         /\ \A c \in Callers : op[c].wrote[x] \in Nat
<1>1. x \in Parts
  BY DEF Shown, Parts
<1>2. db \in Versions /\ file.has \in Versions /\ \A c \in Callers : op[c].wrote \in Versions
  BY DEF IInv, TypeOK, Content
<1>3. file.has[x] <= db[x]
  BY <1>1 DEF IInv, Ordered, AtMost
<1> QED BY <1>1, <1>2, <1>3 DEF Versions

\* A step of c inside rebuildAll: what c owes stays owed, and the file only gains.
LEMMA CarryOn ==
  ASSUME IInv, Owed, NEW c \in Callers, ~At(c, "idle")', op'[c].wrote = op[c].wrote,
         \A d \in Callers \ {c} : op'[d] = op[d],
         db' = db, faults' = faults,
         \A x \in Shown : file.has[x] = db[x] => file'.has[x] = db[x]
  PROVE  Owed'
<1> SUFFICES ASSUME faults = 0, NEW x \in Shown
             PROVE  file'.has[x] = db[x] \/ \E d \in Callers : Owes(d, x)'
  BY DEF Owed
<1>1. CASE file.has[x] = db[x]
  BY <1>1
<1>2. CASE \E d \in Callers : Owes(d, x)
  <2>1. PICK d \in Callers : Owes(d, x)
    BY <1>2
  <2>2. Owes(d, x)'
    BY <2>1 DEF Owes, At
  <2> QED BY <2>2
<1> QED BY <1>1, <1>2 DEF Owed

\* A write whose operation goes on to the rebuild owes all that is in the database.
LEMMA WriteOwes ==
  ASSUME IInv, NEW c \in Callers, NEW new \in Versions, NEW s \in {"disband", "call"},
         Write(c, new, s)
  PROVE  Owed'
<1>1. [IdleOp EXCEPT !.step = s, !.wrote = new] = [step |-> s, wrote |-> new, got |-> Zero]
  <2>1. IdleOp \in [step : Steps, wrote : Versions, got : Versions]
    BY ZeroVersions DEF IdleOp, Steps
  <2>2. s \in Steps /\ IdleOp.got = Zero
    BY DEF Steps, IdleOp
  <2> QED BY <2>1, <2>2, ReplaceTwo
<1>2. op'[c] = [step |-> s, wrote |-> new, got |-> Zero] /\ db' = new
  BY <1>1 DEF Write, IInv, TypeOK
<1>3. \A x \in Shown : new[x] \in Nat
  BY DEF Shown, Parts, Versions
<1>4. \A x \in Shown : Owes(c, x)'
  BY <1>2, <1>3 DEF Owes, At
<1> QED BY <1>4 DEF Owed

\* A write that answers at once leaves the groups and the links as they are.
LEMMA WriteAside ==
  ASSUME IInv, Owed, NEW c \in Callers, NEW parts \in SUBSET (Parts \ Shown),
         Begin(c, Bump(parts), "idle")
  PROVE  Owed'
<1>1. \A x \in Shown : db'[x] = db[x]
  BY DEF Begin, Write, Bump, Shown, Parts
<1>2. file' = file /\ faults' = faults /\ At(c, "idle")
      /\ \A d \in Callers \ {c} : op'[d] = op[d]
  BY DEF Begin, Write, disk, IInv, TypeOK
<1> SUFFICES ASSUME faults = 0, NEW x \in Shown
             PROVE  file.has[x] = db[x] \/ \E d \in Callers : Owes(d, x)'
  BY <1>1, <1>2 DEF Owed
<1>3. ASSUME NEW d \in Callers, Owes(d, x) PROVE Owes(d, x)'
  BY <1>1, <1>2, <1>3 DEF Owes, At
<1> QED BY <1>3 DEF Owed

LEMMA ChangeOwed ==
  ASSUME IInv, Owed, NEW c \in Callers, Change(c)
  PROVE  Owed'
<1>1. ASSUME NEW parts \in SUBSET Parts, NEW s \in {"disband", "call"}, Begin(c, Bump(parts), s)
      PROVE  Owed'
  <2>1. Bump(parts) \in Versions
    BY DEF Bump, IInv, TypeOK, Versions
  <2> QED BY <1>1, <2>1, WriteOwes DEF Begin
<1>2. /\ \A x \in {"groups", "repos", "admins"} : {x} \in SUBSET Parts
      /\ \A x \in {"repos", "admins"} : {x} \in SUBSET (Parts \ Shown)
      /\ SUBSET {"admins"} \subseteq SUBSET Parts
  BY DEF Parts, Shown
<1>3. CASE LinkTeam(c)
  <2>1. [Bump({"repos"}) EXCEPT !["uses"] = db["groups"]] \in Versions
    BY DEF Bump, IInv, TypeOK, Versions, Parts
  <2> QED BY <1>3, <2>1, WriteOwes DEF LinkTeam, Begin
<1>10. CASE RenameTeam(c)
  <2>1. [Bump({"groups", "repos"}) EXCEPT !["uses"] = db["groups"] + 1] \in Versions
    BY DEF Bump, IInv, TypeOK, Versions, Parts
  <2> QED BY <1>10, <2>1, WriteOwes DEF RenameTeam, Begin
<1>4. CASE ChangeTeam(c)
  BY <1>1, <1>2, <1>4 DEF ChangeTeam
<1>5. CASE ChangeAccess(c)
  BY <1>1, <1>2, <1>5 DEF ChangeAccess
<1>6. CASE DisbandPermissions(c)
  BY <1>1, <1>2, <1>6 DEF DisbandPermissions
<1>7. CASE Deactivate(c)
  BY <1>1, <1>2, <1>7 DEF Deactivate
<1>8. CASE ChangeAdmin(c)
  BY <1>2, <1>8, WriteAside DEF ChangeAdmin
<1>9. CASE RemoveRepository(c)
  BY <1>2, <1>9, WriteAside DEF RemoveRepository
<1> QED BY <1>3, <1>4, <1>5, <1>6, <1>7, <1>8, <1>9, <1>10 DEF Change

\* The steps of rebuildAll up to the rename.
LEMMA RebuildOwed ==
  ASSUME IInv, Owed, NEW c \in Callers,
         \/ CallRebuild(c) \/ ReadGroups(c) \/ ReadRepositories(c) \/ ReadAdmins(c)
         \/ OpenTmp(c) \/ WriteTmp(c) \/ RenameTmp(c)
  PROVE  Owed'
<1>1. op[c] \in [step : Steps, wrote : Versions, got : Versions] /\ op' = [op EXCEPT ![c] = op'[c]]
  BY DEF IInv, TypeOK, CallRebuild, GoTo, ReadGroups, ReadRepositories, ReadAdmins, Query,
         OpenTmp, WriteTmp, RenameTmp
<1>2. ~At(c, "idle")' /\ op'[c].wrote = op[c].wrote
  <2>1. ASSUME NEW s \in Steps, s # "idle", op'[c] = [op[c] EXCEPT !.step = s]
        PROVE  ~At(c, "idle")' /\ op'[c].wrote = op[c].wrote
    BY <1>1, <2>1 DEF At
  <2>2. ASSUME NEW s \in Steps, s # "idle", NEW v \in Versions,
               op'[c] = [op[c] EXCEPT !.step = s, !.got = v]
        PROVE  ~At(c, "idle")' /\ op'[c].wrote = op[c].wrote
    BY <1>1, <2>2, ReplaceTwo DEF At
  <2>3. {"groups", "repos", "admins", "open", "write", "rename", "chown"} \subseteq Steps \ {"idle"}
    BY DEF Steps
  <2>4. CASE CallRebuild(c)
    BY <2>1, <2>3, <2>4 DEF CallRebuild, GoTo, IInv, TypeOK
  <2>5. CASE OpenTmp(c)
    BY <2>1, <2>3, <2>5 DEF OpenTmp, GoTo, IInv, TypeOK
  <2>6. CASE RenameTmp(c)
    BY <2>1, <2>3, <2>6 DEF RenameTmp, GoTo, IInv, TypeOK
  <2>7. CASE WriteTmp(c)
    BY <2>2, <2>3, <2>7, ZeroVersions DEF WriteTmp, IInv, TypeOK
  <2>8. ASSUME NEW from \in Steps, NEW parts \in SUBSET Parts, NEW to \in Steps \ {"idle"},
               Query(c, from, parts, to)
        PROVE  ~At(c, "idle")' /\ op'[c].wrote = op[c].wrote
    <3> DEFINE got == [x \in Parts |-> IF x \in parts THEN db[x] ELSE op[c].got[x]]
    <3>1. got \in Versions
      BY DEF IInv, TypeOK, Versions
    <3>2. op'[c] = [op[c] EXCEPT !.step = to, !.got = got]
      BY <2>8 DEF Query, IInv, TypeOK
    <3> QED BY <2>2, <3>1, <3>2
  <2>9. CASE ReadGroups(c)
    BY <2>3, <2>8, <2>9 DEF ReadGroups, Parts
  <2>10. CASE ReadRepositories(c)
    BY <2>3, <2>8, <2>10 DEF ReadRepositories, Parts
  <2>11. CASE ReadAdmins(c)
    BY <2>3, <2>8, <2>11 DEF ReadAdmins, Parts
  <2> QED BY <2>4, <2>5, <2>6, <2>7, <2>9, <2>10, <2>11
<1>3. \A d \in Callers \ {c} : op'[d] = op[d]
  BY <1>1 DEF IInv, TypeOK
<1>4. db' = db /\ faults' = faults
  BY DEF CallRebuild, ReadGroups, ReadRepositories, ReadAdmins, Query, OpenTmp, WriteTmp,
         RenameTmp, store
<1>5. ASSUME NEW x \in Shown, file.has[x] = db[x] PROVE file'.has[x] = db[x]
  <2>1. CASE RenameTmp(c)
    <3>1. file' = tmp /\ Fresh(c, tmp.has, Parts)
      BY <2>1 DEF RenameTmp, IInv, Ordered
    <3>2. x \in Parts
      BY DEF Shown, Parts
    <3>3. file.has[x] <= tmp.has[x] /\ tmp.has[x] <= db[x]
      BY <3>1, <3>2 DEF Fresh
    <3>4. tmp.has[x] \in Nat /\ db[x] \in Nat
      BY <3>2 DEF IInv, TypeOK, Content, Versions
    <3> QED BY <1>5, <3>1, <3>3, <3>4
  <2>2. CASE ~RenameTmp(c)
    BY <1>5, <2>2 DEF CallRebuild, ReadGroups, ReadRepositories, ReadAdmins, Query, OpenTmp,
                      WriteTmp, disk
  <2> QED BY <2>1, <2>2
<1> QED BY <1>2, <1>3, <1>4, <1>5, CarryOn

\* The operation that answers has brought in what it owed.
LEMMA AnswerOwed ==
  ASSUME IInv, Owed, NEW c \in Callers, Answer(c)
  PROVE  Owed'
<1>1. db' = db /\ file' = file /\ faults' = faults /\ \A d \in Callers \ {c} : op'[d] = op[d]
  BY DEF Answer, store, disk, IInv, TypeOK
<1>2. AtMost(op[c].wrote, file.has)
  BY DEF IInv, Ordered, Answer
<1> SUFFICES ASSUME faults = 0, NEW x \in Shown
             PROVE  file.has[x] = db[x] \/ \E d \in Callers : Owes(d, x)'
  BY <1>1 DEF Owed
<1>3. CASE Owes(c, x)
  <2>1. op[c].wrote[x] <= file.has[x]
    BY <1>2 DEF AtMost, Shown, Parts
  <2> QED BY <1>3, <2>1, ShownNumbers DEF Owes
<1>4. ASSUME NEW d \in Callers \ {c}, Owes(d, x) PROVE Owes(d, x)'
  BY <1>1, <1>4 DEF Owes, At
<1> QED BY <1>3, <1>4 DEF Owed

LEMMA NextOwed == IInv /\ Owed /\ [Next]_vars => Owed'
<1> SUFFICES ASSUME IInv, Owed, [Next]_vars PROVE Owed'
  OBVIOUS
<1>1. CASE \E c \in Requests : Change(c)
  BY <1>1, ChangeOwed DEF Requests
<1>2. ASSUME NEW c \in Callers, Step(c) PROVE Owed'
  <2>1. CASE DisbandTeam(c)
    <3>1. Bump({"groups", "repos"}) \in Versions
      BY DEF Bump, IInv, TypeOK, Versions
    <3> QED BY <2>1, <3>1, WriteOwes DEF DisbandTeam
  <2>2. CASE Answer(c)
    BY <2>2, AnswerOwed
  <2> QED BY <1>2, <2>1, <2>2, RebuildOwed DEF Step
<1>3. ASSUME Fault PROVE Owed'
  BY <1>3 DEF Fault, Owed, IInv, TypeOK
<1>4. CASE UNCHANGED vars
  BY <1>4 DEF vars, store, disk, Owed, Owes, At
<1> QED BY <1>1, <1>2, <1>3, <1>4 DEF Next, Fail, Crash

LEMMA OwedAlways == Spec => [](IInv /\ Owed)
  BY InitIInv, NextIInv, InitOwed, NextOwed, PTL DEF Spec

\* When every request is answered and nothing failed, the file shows the groups and
\* the links to them as they are in the database.
THEOREM SyncedWhenQuiet == Spec => []InSyncWhenQuiet
<1>1. Owed => InSyncWhenQuiet
  BY DEF Owed, InSyncWhenQuiet, Owes, Shown
<1> QED BY <1>1, OwedAlways, PTL

\* A file that Apache cannot load is there only while an operation still owes it
\* the groups.
THEOREM DanglingNeverLeft == Spec => []DanglingOnlyInFlight
<1>1. ASSUME IInv, Owed, faults = 0, file.has["groups"] < file.has["uses"]
      PROVE  \E c \in Callers : ~At(c, "idle") /\ op[c].wrote["groups"] >= file.has["uses"]
  <2>1. "groups" \in Shown /\ "uses" \in Shown
    BY DEF Shown
  <2>2. db["uses"] <= db["groups"]
    BY <1>1 DEF IInv, Ordered
  <2>3. file.has["uses"] <= db["groups"] /\ file.has["groups"] # db["groups"]
    BY <1>1, <2>1, <2>2, ShownNumbers
  <2>4. PICK c \in Callers : Owes(c, "groups")
    BY <1>1, <2>1, <2>3 DEF Owed
  <2>5. op[c].wrote["groups"] >= file.has["uses"]
    BY <1>1, <2>1, <2>3, <2>4, ShownNumbers DEF Owes
  <2> QED BY <2>4, <2>5 DEF Owes
<1>2. IInv /\ Owed => DanglingOnlyInFlight
  BY <1>1 DEF DanglingOnlyInFlight
<1> QED BY <1>2, OwedAlways, PTL

=============================================================================
