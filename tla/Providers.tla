------------------------------ MODULE Providers ------------------------------
(***************************************************************************)
(* What the adapters of providers.py make of an endpoint's answer: a text  *)
(* or an exception, which MissionExecutor records as completion or failure *)
(* of the step.  A text is a sequence of words and line breaks.  What JSON *)
(* may lack is a set with at most one element.                             *)
(***************************************************************************)
EXTENDS Settings, SequencesExt

Absent == {}
Present(value) == {value}
The(optional) == CHOOSE value \in optional : TRUE

Failure == [ok |-> FALSE, text |-> <<>>]
Success(text) == [ok |-> TRUE, text |-> text]

(* The answers that carry no JSON: a time-out, an HTTP error, another body *)
NoAnswer == [arrived |-> FALSE, error |-> FALSE, json |-> Absent]
HttpError == [arrived |-> TRUE, error |-> TRUE, json |-> Absent]
NotJson == [arrived |-> TRUE, error |-> FALSE, json |-> Absent]
Answer(body) == [arrived |-> TRUE, error |-> FALSE, json |-> Present(body)]

Readable(answer) == answer.arrived /\ ~answer.error /\ answer.json # Absent

(* MockProvider.generate, which asks nobody *)
MockText == <<"[mock]">>

LineBreak == "\n"

(* "\n".join(texts) *)
Joined(texts) ==
    FlattenSeq([i \in DOMAIN texts |->
                   IF i = 1 THEN texts[i] ELSE <<LineBreak>> \o texts[i]])

(* What an item of the output adds to the texts; "" if it has no text *)
ItemTexts(item) ==
    IF item.type # "output_text" THEN <<>>
    ELSE <<IF item.text = Absent THEN <<>> ELSE The(item.text)>>

CollectedTexts(output) ==
    LET items == FlattenSeq(output)
    IN FlattenSeq([i \in DOMAIN items |-> ItemTexts(items[i])])

(* Mutant of OpenAIText: only the first output is looked through. *)
OpenAITextOfFirst(body) ==
    IF body.output_text # Absent THEN Success(The(body.output_text))
    ELSE LET texts == IF body.output = <<>> THEN <<>>
                      ELSE CollectedTexts(<<body.output[1]>>)
         IN IF texts = <<>> THEN Failure ELSE Success(Joined(texts))

(* OpenAIResponsesProvider.generate: output_text, or the texts collected *)
OpenAIText(body) ==
    IF body.output_text # Absent THEN Success(The(body.output_text))
    ELSE LET texts == CollectedTexts(body.output)
         IN IF texts = <<>> THEN Failure ELSE Success(Joined(texts))

(* OllamaProvider.generate: the response, if it is a text *)
OllamaText(body) ==
    IF body.response = Absent THEN Failure ELSE Success(The(body.response))

(* generate of the adapter; the assertion on the key is OpenAI's alone. *)
Generate(adapter, s, answer) ==
    CASE adapter = "mock" -> Success(MockText)
      [] adapter = "openai" ->
            IF s.openai_api_key = "unset" \/ ~Readable(answer) THEN Failure
            ELSE OpenAIText(The(answer.json))
      [] adapter = "ollama" ->
            IF ~Readable(answer) THEN Failure ELSE OllamaText(The(answer.json))

(* AgentCreate: an agent may name an adapter of its own. *)
AgentProviders == Adapters \cup {"none"}

(* RuntimeEngine.run: the agent's adapter or the deployment's *)
AdapterOf(agent, s) == IF agent = "none" THEN s.provider ELSE agent
Run(agent, s, answer) == Generate(AdapterOf(agent, s), s, answer)

----------------------------------------------------------------------------
(* The endpoints *)

TextItem(text) == [type |-> "output_text", text |-> text]
Refusal == [type |-> "refusal", text |-> Absent]

OpenAIAnswer(optional, output) == Answer([output_text |-> optional, output |-> output])

(* The answers that have a text in one place *)
WholeAnswers(adapter, text) ==
    IF adapter = "ollama" THEN {Answer([response |-> Present(text)])}
    ELSE {OpenAIAnswer(Present(text), <<>>), OpenAIAnswer(Present(text), <<<<Refusal>>>>),
          OpenAIAnswer(Absent, <<<<TextItem(Present(text))>>>>)}

(* The answers that have each word of a text in an item of its own, among  *)
(* others of one output or of several.                                     *)
PartedAnswers(adapter, text) ==
    LET Parts == [i \in DOMAIN text |-> TextItem(Present(<<text[i]>>))]
    IN IF adapter = "ollama" \/ text = <<>> THEN {}
       ELSE {OpenAIAnswer(Absent, output) : output \in
                {<<Parts>>, <<<<Refusal>> \o Parts>>, <<<<>>, Parts>>,
                 [i \in DOMAIN text |-> <<Refusal, Parts[i]>>]}}

(* The answers in which a text is followed by an item without one *)
PaddedAnswers(adapter, text) ==
    IF adapter = "ollama" THEN {}
    ELSE {OpenAIAnswer(Absent, <<<<TextItem(Present(text)), TextItem(Absent)>>>>)}

(* The answers with an item for a text and no text in it *)
HollowAnswers(adapter) ==
    IF adapter = "ollama" THEN {}
    ELSE {OpenAIAnswer(Absent, <<<<TextItem(Absent)>>>>),
          OpenAIAnswer(Absent, <<<<Refusal>>, <<TextItem(Absent)>>>>)}

(* The answers with nothing for a text *)
Refusals(adapter) ==
    {NoAnswer, HttpError, NotJson} \cup
    IF adapter = "ollama" THEN {Answer([response |-> Absent])}
    ELSE {OpenAIAnswer(Absent, output) :
             output \in {<<>>, <<<<>>>>, <<<<Refusal>>, <<Refusal>>>>}}
===============================================================================
