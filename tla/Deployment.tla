----------------------------- MODULE Deployment ------------------------------
(***************************************************************************)
(* Start-up and provider calls together: the settings a process has come   *)
(* up with are those its steps are executed with later.                    *)
(***************************************************************************)
EXTENDS Startup, Providers

CONSTANT Texts      \* what an endpoint may generate

(* A text is a sequence of words, which may be empty. *)
ASSUME TextsAssumption == \A text \in Texts : text \in Seq({text[i] : i \in DOMAIN text})

(* The text with a line break between any two of its words *)
IsLines(lines, text) ==
    /\ Len(lines) = 2 * Len(text) - 1
    /\ \A i \in 1..Len(text) : lines[2 * i - 1] = text[i]
    /\ \A i \in 1..(Len(text) - 1) : lines[2 * i] = LineBreak

(***************************************************************************)
(* In a deployment that has come up a step gets the text that its endpoint *)
(* has generated: exactly, if the answer has it in one place, and without  *)
(* loss, in order and with line breaks between, if it is spread over items *)
(* and outputs.  The step fails if the answer has nothing for a text.  An  *)
(* item without a text is taken for an empty one: after others it adds a   *)
(* line break, alone it completes the step with nothing.  All this holds   *)
(* but for an agent that names OpenAI for itself where the deployment has  *)
(* no key, which neither the settings' validator nor create_agent looks    *)
(* for.                                                                    *)
(***************************************************************************)
StepsGetTheirTexts ==
    (worker = "up" \/ \E p \in Apis : Ready(p)) =>
        \A agent \in AgentProviders :
            LET adapter == AdapterOf(agent, settings)
                Keyless == /\ agent = "openai" /\ settings.provider # "openai"
                           /\ settings.openai_api_key # "given"
                Result(a) == Run(agent, settings, a)
            IN adapter # "mock" =>
                 /\ \A a \in Refusals(adapter) : Result(a) = Failure
                 /\ ~Keyless =>
                      /\ \A a \in HollowAnswers(adapter) : Result(a) = Success(<<>>)
                      /\ \A text \in Texts :
                           /\ \A a \in WholeAnswers(adapter, text) : Result(a) = Success(text)
                           /\ \A a \in PartedAnswers(adapter, text) :
                                 Result(a).ok /\ IsLines(Result(a).text, text)
                           /\ \A a \in PaddedAnswers(adapter, text) :
                                 Result(a) = Success(Append(text, LineBreak))
===============================================================================
