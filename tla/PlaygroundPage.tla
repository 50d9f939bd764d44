--------------------------- MODULE PlaygroundPage ----------------------------
(***************************************************************************)
(* The playground of the console: a request is composed from a preset and  *)
(* edits, and triggerKongFunction sends it.  Method, function and path are *)
(* uncontrolled inputs, which React resets to their defaults when a form   *)
(* action is over; the body is state of the component.  The value of a     *)
(* field is the preset it came from, or "edited".                          *)
(***************************************************************************)
CONSTANT Presets

ASSUME PlaygroundPageAssumption == Presets # {}

RequestFields == {"method", "functionName", "path", "body"}

VARIABLES
    preset,         \* the selected preset
    fields,         \* the values of the fields
    effect,         \* whether the effect of a selection is still to run
    sent,           \* the request that is on its way, as a set
    response        \* what the response panel shows

playgroundVars == <<preset, fields, effect, sent, response>>

\* The first preset is selected; the effect runs after the first render too.
PlaygroundInit ==
    /\ preset = CHOOSE p \in Presets : TRUE
    /\ fields = [f \in RequestFields |-> preset]
    /\ effect = TRUE
    /\ sent = {}
    /\ response = "none"

\* Variant: the inputs keep what was in them.
SelectWithoutKeys(p) ==
    /\ p # preset
    /\ preset' = p
    /\ effect' = TRUE
    /\ UNCHANGED <<fields, sent, response>>

\* The render of a selection: the keys of the inputs change with the preset, so
\* they are made anew with its defaults.  The body is not touched yet.
SelectPreset(p) ==
    /\ p # preset
    /\ preset' = p
    /\ fields' = [f \in RequestFields |-> IF f = "body" THEN fields[f] ELSE p]
    /\ effect' = TRUE
    /\ UNCHANGED <<sent, response>>

\* The effect runs after that render: it sets the body to the preset's, over
\* whatever was typed meanwhile, and the form is rendered again.
BodyEffect ==
    /\ effect
    /\ effect' = FALSE
    /\ fields' = [fields EXCEPT !["body"] = preset]
    /\ UNCHANGED <<preset, sent, response>>

\* On the page of a service the function is read-only.
Edit(f) ==
    /\ fields' = [fields EXCEPT ![f] = "edited"]
    /\ UNCHANGED <<preset, effect, sent, response>>

\* The button is disabled while a request is on its way.
Trigger ==
    /\ sent = {}
    /\ sent' = {[preset |-> preset, fields |-> fields, early |-> effect]}
    /\ response' = "waiting"
    /\ UNCHANGED <<preset, fields, effect>>

\* Kong's answer, whatever its status, or an error: no function name, no
\* connection, no URL.
TriggerKongFunction ==
    /\ sent # {}
    /\ sent' = {}
    /\ response' \in {"answered", "failed"}
    /\ fields' = [f \in RequestFields |-> IF f = "body" THEN fields[f] ELSE preset]
    /\ UNCHANGED <<preset, effect>>

PlaygroundNext ==
    \/ \E p \in Presets : SelectPreset(p)
    \/ \E f \in RequestFields : Edit(f)
    \/ BodyEffect \/ Trigger \/ TriggerKongFunction

-----------------------------------------------------------------------------
\* However selecting, editing, sending and answers interleave, a request never
\* mixes two presets: each field is the selected preset's or was edited since.
\* The one exception the code leaves: a request sent early, between the render of
\* a selection and its effect, may still have the body that was there before.
OnePresetSent ==
    \A request \in sent : \A f \in RequestFields :
        \/ request.fields[f] \in {request.preset, "edited"}
        \/ f = "body" /\ request.early
=============================================================================
