------------------------------ MODULE Guardrail ------------------------------
(***************************************************************************)
(* The guardrail primitive (primitives/guardrail.py): data is validated    *)
(* against a schema and, by strategy, a failure is raised, returned,       *)
(* corrected by reading the data again, or given to a model to repair.     *)
(* Data are kinds: what they read as and what is wrong with them.          *)
(***************************************************************************)
EXTENDS Integers

CONSTANT Checks     \* the configurations of the steps

VARIABLES
    check,      \* the configuration of the step
    stage,      \* "idle", "start", "repair", "asked" or "over"
    lastData,   \* last_data of the delegate strategy
    lastErrors, \* last_errors
    attempt,    \* repairs asked for
    verdict     \* what the step returned or raised

guardVars == <<check, stage, lastData, lastErrors, attempt, verdict>>

Dicts == {"good dict", "bad dict", "opaque dict"}   \* opaque: json.dumps fails
Texts == {"good text", "bad text", "list text", "null text", "prose",
          "fenced good", "fenced bad", "fenced prose"}
Data == Dicts \union Texts \union {"list"}

(* _try_json_parse; what reads as null is not told from what does not parse. *)
Parse(text) ==
    CASE text = "good text" -> "good dict"
      [] text = "bad text"  -> "bad dict"
      [] text = "list text" -> "list"
      [] OTHER              -> "nothing"

StripFences(text) ==
    CASE text = "fenced good"  -> "good text"
      [] text = "fenced bad"   -> "bad text"
      [] text = "fenced prose" -> "prose"
      [] OTHER                 -> text

(* The direct reading, else the one without fences. *)
Read(text) == IF Parse(text) # "nothing" THEN Parse(text) ELSE Parse(StripFences(text))

(* _validate: a schema without fields accepts everything. *)
Errors(data) ==
    IF ~check.fields \/ data = "good dict" THEN "none"
    ELSE IF data \in Dicts THEN "fields"
    ELSE "not a dict"

GuardIdle ==
    /\ check = [strategy |-> "raise"]
    /\ stage = "idle"
    /\ lastData = "nothing" /\ lastErrors = "none"
    /\ attempt = 0
    /\ verdict = [how |-> "none"]

GuardStart ==
    /\ check \in Checks
    /\ stage = "start"
    /\ lastData = "nothing" /\ lastErrors = "none"
    /\ attempt = 0
    /\ verdict = [how |-> "none"]

EndGuard(v) ==
    /\ verdict' = v
    /\ stage' = "over"
    /\ UNCHANGED <<check, lastData, lastErrors, attempt>>

Returned(valid, data, errors) ==
    [how |-> "returned", valid |-> valid, data |-> data, errors |-> errors]
Raised(code) == [how |-> code]

-----------------------------------------------------------------------------
(* Step 1 reads the text, step 2 the text without its fences; the errors   *)
(* kept are those of the last reading that parsed.                         *)
Correct ==
    LET data == check.data
        read == IF data \in Texts THEN Read(data) ELSE "nothing"
    IN IF read = "nothing" THEN Returned(FALSE, data, Errors(data))
       ELSE IF Errors(read) = "none" THEN Returned(TRUE, read, "none")
       ELSE Returned(FALSE, data, Errors(read))

ValidateData ==
    /\ stage = "start"
    /\ IF ~check.complete THEN EndGuard(Raised("missing config"))
       ELSE IF check.strategy = "unknown" THEN EndGuard(Raised("invalid strategy"))
       ELSE
              LET errors == Errors(check.data) IN
              CASE errors = "none" -> EndGuard(Returned(TRUE, check.data, "none"))
                [] errors # "none" /\ check.strategy = "raise" ->
                     EndGuard(Raised("validation failed"))
                [] errors # "none" /\ check.strategy = "return_errors" ->
                     EndGuard(Returned(FALSE, check.data, errors))
                [] errors # "none" /\ check.strategy = "correct" -> EndGuard(Correct)
                [] OTHER ->
                     IF ~check.provider THEN EndGuard(Raised("no provider"))
                     ELSE /\ lastData' = check.data
                          /\ lastErrors' = errors
                          /\ stage' = "repair"
                          /\ UNCHANGED <<check, attempt, verdict>>

(* The next prompt is made of the last errors and data; or no attempt is left. *)
AskForRepair ==
    /\ stage = "repair"
    /\ CASE attempt = check.maxAttempts -> EndGuard(Returned(FALSE, lastData, lastErrors))
         [] attempt < check.maxAttempts /\ lastData = "opaque dict" ->
              EndGuard(Raised("TypeError"))
         [] OTHER -> /\ attempt' = attempt + 1
                     /\ stage' = "asked"
                     /\ UNCHANGED <<check, lastData, lastErrors, verdict>>

RepairFails ==
    /\ stage = "asked"
    /\ EndGuard(Raised("provider error"))

Repaired(content) ==
    IF Errors(Read(content)) = "none"
    THEN EndGuard(Returned(TRUE, Read(content), "none"))
    ELSE /\ lastData' = Read(content)
         /\ lastErrors' = Errors(Read(content))
         /\ stage' = "repair"
         /\ UNCHANGED <<check, attempt, verdict>>

\* Mutant: the data is kept when the answer does not parse, the errors are not.
NotJsonOfOldData ==
    /\ lastErrors' = "not JSON"
    /\ stage' = "repair"
    /\ UNCHANGED <<check, attempt, verdict, lastData>>

NotJson(content) ==
    /\ lastErrors' = "not JSON"
    /\ lastData' = content
    /\ stage' = "repair"
    /\ UNCHANGED <<check, attempt, verdict>>

\* Mutant: an answer that does not parse leaves the last data in place.
RepairAnsweredStale ==
    /\ stage = "asked"
    /\ \E content \in Texts :
          IF Read(content) # "nothing" THEN Repaired(content) ELSE NotJsonOfOldData

(* An answer without content fails outside the handlers of the parser. *)
RepairAnswered ==
    /\ stage = "asked"
    /\ \/ \E content \in Texts :
             IF Read(content) # "nothing" THEN Repaired(content) ELSE NotJson(content)
       \/ EndGuard(Raised("TypeError"))

GuardNext == ValidateData \/ AskForRepair \/ RepairFails \/ RepairAnswered

GuardSpec == GuardStart /\ [][GuardNext]_guardVars

-----------------------------------------------------------------------------
(***************************************************************************)
(* Whatever the strategy and the answers of the model: data is called      *)
(* valid only if it validates, and errors, in a prompt or in a verdict,    *)
(* are about the data beside them: as it is or, after correct, as it reads. *)
(***************************************************************************)
About(errors, data) ==
    \/ errors = Errors(data)
    \/ errors = "not JSON" /\ data \in Texts /\ Read(data) = "nothing"
    \/ check.strategy = "correct" /\ data \in Texts /\ errors = Errors(Read(data))

VerdictTellsTheTruth ==
    /\ stage \in {"repair", "asked"} => About(lastErrors, lastData)
    /\ verdict.how = "returned" =>
          IF verdict.valid THEN Errors(verdict.data) = "none"
          ELSE verdict.errors # "none" /\ About(verdict.errors, verdict.data)
=============================================================================
