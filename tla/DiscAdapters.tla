-------------------------------- MODULE DiscAdapters --------------------------------
(***************************************************************************)
(* The adapters that examine a disc image with an external program:        *)
(* dolphin-tool for GameCube and Wii (dolphin.py), xdvdfs for the original *)
(* Xbox (xbox.py).  Every method of an adapter, its inspector and its      *)
(* detector is a sequence of runs of the program (Backends.tla) and the    *)
(* conclusion it draws from them.  One caller, any number of calls; the    *)
(* image at the path may be replaced at any moment.                        *)
(***************************************************************************)
EXTENDS Backends

CONSTANT Sources  \* what the path may hold, see IsSource

\* The fields of dolphin-tool's header, by whether they are there and well formed; the
\* empty header is its answer to what is no disc.
HeaderFields == {"game_id", "revision", "region", "title_id"}
IsHeader(h) == \A f \in DOMAIN h : f \in HeaderFields /\ h[f] \in {"good", "bad"}

\* "image": whether xdvdfs accepts the image; "bounded": how far the framework's own
\* reader gets in it (no volume, a volume, an XBEH file, a certificate).
IsSource(s) ==
  /\ s.regular \in BOOLEAN /\ IsHeader(s.header) /\ s.image \in BOOLEAN
  /\ s.bounded \in {"none", "volume", "magic", "certificate"}

ASSUME SourceAssumption == (\A s \in Sources : IsSource(s)) /\ Programs = {"dolphin", "xbox"}

Methods == {"capability", "probe", "inspect", "detect", "identify"}

VARIABLES
  source,   \* what the path holds
  adapter,  \* the adapter that is used, which is also the name of its backend
  method,   \* the method that runs, or "none"
  done,     \* the number of its runs that have been used
  header,   \* the header it has read
  obtained, \* the digests it has obtained
  current,  \* whether the path has held the same source since the method began
  outcome,  \* how the last method ended
  claims    \* what was said of the present source, and of which platform

adapterVars == <<source, adapter, method, done, header, obtained, current, outcome, claims>>
discVars == <<backendVars, adapterVars>>

DiscStart ==
  /\ stage = "idle" /\ cause = "none"
  /\ method = "none" /\ done = 0 /\ header = <<>> /\ obtained = {}
  /\ current = TRUE /\ outcome = "none" /\ claims = {}

DiscInit == source \in Sources /\ adapter \in Programs /\ BackendInit /\ DiscStart

-----------------------------------------------------------------------------
Digests == {"crc32", "md5", "sha1", "checksum"}

Commands(m) ==
  CASE m = "capability" -> <<"health">>
    [] m # "capability" /\ adapter = "xbox" ->
         IF m = "identify" THEN <<"info", "checksum", "copy-out">> ELSE <<"info">>
    [] m # "capability" /\ adapter = "dolphin" ->
         IF m = "identify" THEN <<"header", "crc32", "md5", "sha1", "rchash">> ELSE <<"header">>

\* What a program that has completed may have printed (not under src/).  A source
\* that is no regular file has no header; what is copied out is an executable with a
\* certificate ("xbe"), another file, or nothing.
Outputs(command) ==
  CASE command = "health" -> {"text"}
    [] command = "header" -> {"garbage"} \cup (IF source.regular THEN {"json"} ELSE {})
    [] command \in Digests \cup {"rchash"} -> {"digest", "blank", "garbage"}
    [] command = "info" -> IF source.image THEN {"valid"} ELSE {"other"}
    [] command = "copy-out" -> {"xbe", "file", "no_file"}

\* Wrong on purpose: any digest may be missing, as rchash may.
UsableBlank(command, output) ==
  output \in {"text", "json", "valid", "digest", "blank", "xbe"}

\* Whether the method goes on with an output: rchash alone may be blank, and the
\* executable that was copied out must have a certificate.
Usable(command, output) ==
  \/ output \in {"text", "json", "valid", "digest", "xbe"}
  \/ output = "blank" /\ command = "rchash"

\* _platform_from_header: only Wii discs have a title id.
DolphinPlatform(h) == IF "title_id" \in DOMAIN h THEN "wii" ELSE "gc"
Good(h, field) == field \in DOMAIN h /\ h[field] = "good"
NotBad(h, field) == field \in DOMAIN h => h[field] = "good"

\* What an exception of the run, or of the output, becomes in the code that called.
Raised(answer) ==
  CASE answer = "missing" -> "backend_unavailable"
    [] answer \in {"timeout", "exit"} -> "backend_failure"
    [] OTHER -> "response_error"

\* Wrong on purpose: the exit status decides whether the image is supported.
DolphinRefusedByStatus(m, answer) ==
  CASE m = "probe" -> IF answer = "exit" THEN "unsupported"
                      ELSE IF answer = "missing" THEN "backend_unavailable" ELSE "backend_failure"
    [] m \in {"inspect", "detect"} -> "nothing"
    [] m = "identify" -> Raised(answer)

DolphinRefused(m, answer) ==
  CASE m = "probe" -> IF answer = "missing" THEN "backend_unavailable" ELSE "backend_failure"
    [] m \in {"inspect", "detect"} -> "nothing"
    [] m = "identify" -> Raised(answer)

\* What a method makes of a header.  A title id that is blank text passes every check of
\* it, and then the metadata refuse it.
Complete(h) == Good(h, "game_id") /\ Good(h, "revision")

DolphinProbed(h) ==
  IF h = <<>> THEN "unsupported" ELSE IF Complete(h) THEN "supported" ELSE "backend_failure"
DolphinDetected(h) == IF Good(h, "game_id") THEN "candidate" ELSE "nothing"
DolphinInspected(h) ==
  IF ~Complete(h) \/ ~NotBad(h, "region") THEN "nothing"
  ELSE IF NotBad(h, "title_id") THEN "found" ELSE "value_error"
DolphinIdentified(h) ==
  IF ~Complete(h) \/ ~NotBad(h, "region") THEN "response_error"
  ELSE IF NotBad(h, "title_id") THEN "identified" ELSE "value_error"

DolphinAccepted(m, h) ==
  CASE m = "probe" -> DolphinProbed(h)
    [] m = "detect" -> DolphinDetected(h)
    [] m = "inspect" -> DolphinInspected(h)
    [] m = "identify" -> DolphinIdentified(h)

\* XboxAdapter takes every status but zero for a rejection of the image, and identify
\* every answer of its own probe but "supported" for an image that is not supported.
XboxRefused(m, command, answer) ==
  CASE m = "probe" -> IF answer \in {"exit", "other"} THEN "unsupported"
                      ELSE IF answer = "missing" THEN "backend_unavailable" ELSE "backend_failure"
    [] m = "detect" -> "nothing"
    [] m = "identify" -> IF command = "info" THEN "response_error"
                         ELSE IF answer = "blank" THEN "index_error" ELSE Raised(answer)

XboxProbed == IF source.regular THEN "supported" ELSE "os_error"
XboxDetected ==
  IF ~source.regular THEN "os_error"
  ELSE IF source.bounded \in {"magic", "certificate"} THEN "candidate" ELSE "nothing"

\* The last look of identify at the path, by the bounded reader.
XboxIdentified ==
  IF source.regular /\ source.bounded # "none" THEN "identified" ELSE "format_error"

\* The inspector reads the image itself and never runs the program.
XboxInspected ==
  IF source.regular /\ source.bounded = "certificate" THEN "found" ELSE "nothing"

XboxAccepted(m) ==
  CASE m = "probe" -> XboxProbed
    [] m = "detect" -> XboxDetected
    [] m = "identify" -> XboxIdentified

Capability(answer) ==
  CASE answer = "not_found" -> "unavailable"
    [] answer = "text" -> "ready"
    [] OTHER -> "error"

\* An answer that ends the method.  What is no BackendError passes all handlers.
Verdict(command, answer, h) ==
  CASE answer \in {"os_error", "undecodable"} -> answer
    [] answer \notin {"os_error", "undecodable"} /\ method = "capability" -> Capability(answer)
    [] answer \notin {"os_error", "undecodable"} /\ method # "capability" ->
         IF adapter = "dolphin"
           THEN IF Usable(command, answer) THEN DolphinAccepted(method, h)
                                           ELSE DolphinRefused(method, answer)
           ELSE IF Usable(command, answer) THEN XboxAccepted(method)
                                           ELSE XboxRefused(method, command, answer)

-----------------------------------------------------------------------------
Claims == {"unsupported", "supported", "found", "candidate", "identified"}

\* Wrong on purpose: the method ends before its run does.
EndBeforeRun(what, h) ==
  /\ method' = "none" /\ cause' = "none"
  /\ done' = 0 /\ header' = <<>> /\ outcome' = what /\ claims' = claims
  /\ UNCHANGED <<installed, stage, source, adapter, current>>

\* The method ends; what it says is remembered when it is about the present source.
End(what, h) ==
  /\ method' = "none" /\ stage' = "idle" /\ cause' = "none"
  /\ done' = 0 /\ header' = <<>> /\ outcome' = what
  /\ claims' = IF current /\ what \in Claims
                 THEN claims \cup {<<what, IF adapter = "xbox" THEN "xbox" ELSE DolphinPlatform(h)>>}
                 ELSE claims
  /\ UNCHANGED <<installed, source, adapter, current>>

\* Without a regular file only Dolphin's identify asks the program all the same.
Unexamined(m) ==
  IF m = "probe" THEN "unsupported" ELSE IF m = "identify" THEN "response_error" ELSE "nothing"

NeedsProgram(m) ==
  \/ m = "capability" \/ <<adapter, m>> = <<"dolphin", "identify">>
  \/ source.regular /\ <<adapter, m>> # <<"xbox", "inspect">>

Begin ==
  /\ method = "none"
  /\ \E m \in Methods :
       /\ NeedsProgram(m)
       /\ method' = m /\ obtained' = {} /\ current' = TRUE /\ outcome' = "none"
       /\ stage' = IF m = "capability" THEN "discovering" ELSE "looking"
  /\ UNCHANGED <<installed, cause, source, adapter, done, header, claims>>

\* An answer without any run: it makes no claim about what is no file.
AnswerAtOnce ==
  /\ method = "none"
  /\ \E m \in Methods :
       /\ ~NeedsProgram(m)
       /\ outcome' = IF <<adapter, m>> = <<"xbox", "inspect">> THEN XboxInspected
                                                             ELSE Unexamined(m)
  /\ obtained' = {}
  /\ claims' = IF outcome' \in Claims /\ source.regular
                 THEN claims \cup {<<outcome', "xbox">>} ELSE claims
  /\ UNCHANGED <<backendVars, source, adapter, method, done, header, current>>

\* Whatever its runs say, XboxAdapter.identify has to open the image itself after the
\* first and after the last of them, and needs a temporary directory for the last.
XboxIdentifies == <<adapter, method>> = <<"xbox", "identify">>

\* The code between two runs: take the answer, and go on or end.
Conclude ==
  /\ stage = "ended"
  /\ \E answer \in IF cause = "completed" THEN Outputs(Commands(method)[done + 1]) ELSE {cause} :
       LET command == Commands(method)[done + 1]
           h == IF answer = "json" THEN source.header ELSE header
       IN /\ obtained' = IF answer = "digest" THEN obtained \cup {command} ELSE obtained
          /\ \/ IF Usable(command, answer) /\ done + 1 < Len(Commands(method))
                  THEN /\ command = "info" => source.regular
                       /\ stage' = "looking" /\ cause' = "none"
                       /\ done' = done + 1 /\ header' = h
                       /\ UNCHANGED <<installed, source, adapter, method, current, outcome, claims>>
                  ELSE End(Verdict(command, answer, h), h)
             \/ Usable(command, answer) /\ XboxIdentifies /\ End("os_error", h)

Supervising == method # "none" /\ Supervise(adapter) /\ UNCHANGED adapterVars
Environment == (ProgramEnds \/ Administer(adapter)) /\ UNCHANGED adapterVars

\* Another program writes another image to the path (not under src/): during a method,
\* for between two of them it only makes the fresh start that DiscInit is.
Replace ==
  /\ method # "none"
  /\ source' \in Sources \ {source}
  /\ current' = FALSE /\ claims' = {}
  /\ UNCHANGED <<backendVars, adapter, method, done, header, obtained, outcome>>

DiscNext == Begin \/ AnswerAtOnce \/ Supervising \/ Conclude \/ Environment \/ Replace

\* The caller goes on as long as it can, and the timeout comes; the program need not end.
DiscSpec == DiscInit /\ [][DiscNext]_discVars /\ WF_discVars(Conclude \/ Supervising)

-----------------------------------------------------------------------------
Outcomes ==
  Claims \cup {"none", "nothing", "backend_unavailable", "backend_failure", "response_error",
               "value_error", "index_error", "format_error", "os_error", "undecodable",
               "unavailable", "ready", "error"}

DiscTypeOK ==
  /\ installed \subseteq Programs /\ stage \in Stages /\ cause \in Causes
  /\ IsSource(source) /\ adapter \in Programs /\ method \in Methods \cup {"none"}
  /\ done \in 0..4 /\ IsHeader(header) /\ obtained \subseteq Digests \cup {"rchash"}
  /\ current \in BOOLEAN /\ outcome \in Outcomes
  /\ claims \subseteq Claims \X {"gc", "wii", "xbox"}
  /\ stage = "idle" <=> method = "none"

\* "A broken or absent backend should not silently masquerade as an unsupported file":
\* whatever fails in whichever call, Dolphin's four methods never contradict each other
\* about one image: "unsupported" excludes every positive answer, and all of those name
\* the same platform.
DolphinNeverContradicts ==
  adapter = "dolphin" =>
    \A one, other \in claims :
      one[2] = other[2] /\ (one[1] = "unsupported" => other[1] = "unsupported")

\* An identity has all the digests its platform promises: a run that fails, times out
\* or prints something else never leaves one without, except for the optional rchash.
IdentityIsComplete ==
  outcome = "identified" =>
    IF adapter = "xbox" THEN "checksum" \in obtained
                        ELSE {"crc32", "md5", "sha1"} \subseteq obtained

\* A method that runs its program ends, although the program may hang.
MethodEnds == method # "none" ~> method = "none"
=====================================================================================
