------------------------------- MODULE AIGateway -------------------------------
(***************************************************************************)
(* The AI gateway (app/ai_gateway/gateway.py): which providers a process   *)
(* registers, which chain of providers a call resolves to, and who answers *)
(* it.  A call to a provider is external: it answers, or it raises, and    *)
(* the gateway does not tell one failure from another.  Models of one      *)
(* provider are not told apart, except that each has its own embeddings.   *)
(***************************************************************************)
EXTENDS Naturals, Sequences

Provider == {"ollama", "claude", "openrouter", "openai", "voyage", "gemini"}

\* Ollama needs no key; any other provider is registered if its key is set.
Registry(keys) == {"ollama"} \cup keys

\* The providers whose generate(), whose embed(), does not always raise.
Generators == Provider \ {"voyage"}
Embedders == {"ollama", "voyage", "openai", "gemini"}

--------------------------------------------------------------------------------
\* routing.yaml

default_fallback_chain == <<"ollama">>
embedding_fallback_chain == <<"ollama", "voyage", "openai", "gemini">>

Routing ==
  [engineering |-> [code_generation |-> <<"claude", "ollama">>,
                    code_review |-> <<"claude", "openrouter">>],
   quality_assurance |-> [test_analysis |-> <<"claude", "openrouter">>],
   general_operations |-> [default |-> <<"ollama", "ollama", "gemini", "openrouter">>],
   executive_office |-> [briefing_synthesis |-> <<"claude", "gemini", "ollama">>]]

\* The chain of the task, else the department's default, else everyone's.
ResolveChain(department, task) ==
  LET known == IF department \in DOMAIN Routing THEN DOMAIN Routing[department] ELSE {}
  IN CASE task \in known -> Routing[department][task]
       [] task \notin known /\ "default" \in known -> Routing[department].default
       [] OTHER -> default_fallback_chain

--------------------------------------------------------------------------------

NoAnswer == "no answer"     \* AllProvidersFailedError

\* Mutant: a provider that fails is retried last, whatever the chain says.
WalkFromTheEnd(chain, registered, up) ==
  LET hits == {i \in up : chain[i] \in registered}
  IN IF hits = {} THEN NoAnswer ELSE chain[CHOOSE i \in hits : \A j \in hits : j <= i]

\* Who answers, when the calls that would succeed are those to the entries in up:
\* entries are tried in order, one that is not registered is skipped.
WalkChain(chain, registered, up) ==
  LET hits == {i \in up : chain[i] \in registered}
  IN IF hits = {} THEN NoAnswer ELSE chain[CHOOSE i \in hits : \A j \in hits : i <= j]

\* Every outcome of a walk in which the sure entries answer, and of the others only
\* those to capable providers may.
Outcomes(chain, registered, capable, sure) ==
  {WalkChain(chain, registered, up \cup sure) :
     up \in SUBSET {i \in DOMAIN chain : chain[i] \in capable}}

GenerateOutcomes(department, task, keys) ==
  Outcomes(ResolveChain(department, task), Registry(keys), Generators, {})

\* An embedding is known by the provider whose model made it.  When steady, the first
\* entry, the local model, always answers.
EmbedOutcomes(keys, steady) ==
  Outcomes(embedding_fallback_chain, Registry(keys), Embedders, IF steady THEN {1} ELSE {})

\* The length of each model's embeddings.
Dimension == [ollama |-> 768, voyage |-> 512, openai |-> 1536, gemini |-> 768]
================================================================================
