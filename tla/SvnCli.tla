--------------------------------- MODULE SvnCli ---------------------------------
(***************************************************************************)
(* SvnCliExecutor.run: every command of Subversion is a process, whose     *)
(* output arrives in chunks, which a timer ends, and whose fate becomes    *)
(* that of a promise.                                                      *)
(***************************************************************************)
EXTENDS Naturals, Sequences

CONSTANT Text  \* what the command writes: "c" is a character of one byte, "h" and "t" the
               \* two bytes of another

VARIABLES
  proc,      \* "none", "running" or "ended"
  code,      \* its exit code; "null" when a signal has ended it
  effect,    \* what the command is for has happened in the repository
  written,   \* bytes written
  received,  \* bytes that have arrived
  stdout,    \* what each byte has added to the string of that name
  timer,     \* "set" or "cleared"
  timedOut,
  promise,   \* "pending", "resolved" or "rejected"
  cut        \* history: a chunk has ended within a character

vars == <<proc, code, effect, written, received, stdout, timer, timedOut, promise, cut>>

Init ==
  /\ proc = "none" /\ code = "null" /\ effect = FALSE
  /\ written = 0 /\ received = 0 /\ stdout = <<>>
  /\ timer = "cleared" /\ timedOut = FALSE
  /\ promise = "pending"
  /\ cut = FALSE

\* toString("utf8") of one chunk, byte by byte: the first byte of a character shows it
\* where the second follows, which then adds nothing; half a character becomes the
\* replacement character.
Decoded(s) ==
  [i \in 1..Len(s) |->
     IF s[i] = "c" THEN "c"
     ELSE IF s[i] = "h" /\ i < Len(s) /\ s[i + 1] = "t" THEN "ht"
     ELSE IF s[i] = "t" /\ i > 1 /\ s[i - 1] = "h" THEN "" ELSE "?"]

-----------------------------------------------------------------------------
\* sanitizeCliArgs throws; or the event "error": there is no such program.
Refuse ==
  /\ proc = "none" /\ promise = "pending"
  /\ promise' = "rejected"
  /\ UNCHANGED <<proc, code, effect, written, received, stdout, timer, timedOut, cut>>

Spawn ==
  /\ proc = "none" /\ promise = "pending"
  /\ proc' = "running"
  /\ timer' = "set"
  /\ UNCHANGED <<code, effect, written, received, stdout, timedOut, promise, cut>>

\* The process writes, does its work, and ends: with 0 when it has done both; with 1, before
\* or after its work, for svn may fail once the revision is there; or by a signal.
Write ==
  /\ proc = "running" /\ written < Len(Text)
  /\ written' = written + 1
  /\ UNCHANGED <<proc, code, effect, received, stdout, timer, timedOut, promise, cut>>

Work ==
  /\ proc = "running" /\ ~effect
  /\ effect' = TRUE
  /\ UNCHANGED <<proc, code, written, received, stdout, timer, timedOut, promise, cut>>

End(c) ==
  /\ proc = "running"
  /\ c = "0" => effect /\ written = Len(Text)
  /\ proc' = "ended"
  /\ code' = c
  /\ UNCHANGED <<effect, written, received, stdout, timer, timedOut, promise, cut>>

\* The timer: SIGTERM, which the process may heed or not.
Timeout ==
  /\ timer = "set" /\ ~timedOut
  /\ timedOut' = TRUE
  /\ UNCHANGED <<proc, code, effect, written, received, stdout, timer, promise, cut>>

\* The event "data".
Data(n) ==
  /\ promise = "pending"
  /\ received < n /\ n <= written
  /\ stdout' = stdout \o Decoded(SubSeq(Text, received + 1, n))
  /\ received' = n
  /\ cut' = (cut \/ (n < Len(Text) /\ Text[n] = "h"))
  /\ UNCHANGED <<proc, code, effect, written, timer, timedOut, promise>>

\* A plausible slip: a process that a signal has ended counts as a success.
ExitCodeZero == IF code = "null" THEN "0" ELSE code
ExitCode == IF code = "null" THEN "1" ELSE code

\* The event "close": the process has ended and its output has been read.
Close ==
  /\ proc = "ended" /\ promise = "pending" /\ received = written
  /\ timer' = "cleared"
  /\ promise' = IF ~timedOut /\ ExitCode = "0" THEN "resolved" ELSE "rejected"
  /\ UNCHANGED <<proc, code, effect, written, received, stdout, timedOut, cut>>

Next ==
  \/ Refuse \/ Spawn
  \/ Write \/ Work \/ Timeout \/ Close
  \/ \E c \in {"0", "1", "null"} : End(c)
  \/ \E n \in 1..Len(Text) : Data(n)

Spec == Init /\ [][Next]_vars

-----------------------------------------------------------------------------

\* A command that resolves has done its work, no timer has come for it, and its caller has
\* its whole output, if no chunk ended within a character.  One that rejects never ran, so
\* it has done nothing; or the timer came for it, or it failed, or a signal has ended it: then
\* its caller cannot know what it has done.  A command that ends well in its time resolves.
OutcomeTrue ==
  /\ promise = "resolved" => effect /\ ~timedOut /\ (~cut => stdout = Decoded(Text))
  /\ promise = "rejected" => (proc = "none" /\ ~effect) \/ timedOut \/ code # "0"
=============================================================================
