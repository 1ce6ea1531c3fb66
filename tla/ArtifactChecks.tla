--------------------------- MODULE ArtifactChecks ---------------------------
(* Assumptions about Artifacts and Settings that TLC evaluates before a run. *)
EXTENDS Integers, Sequences, FiniteSets

A == INSTANCE Artifacts
S == INSTANCE Settings
B == INSTANCE Search

\* Every backend a configuration can ask for has a way into ONNX, one that takes a batch
\* of any size, as the batcher needs (onnx_export.py:30-45).
ASSUME EveryBackendIsExported ==
  \A k \in B!Kinds : A!Export(k).kind = k /\ A!Export(k).rows = A!AnyRows

\* Every backend that is quantized is one whose graph takes the rows under the name they
\* are fed by; the catboost graph would not (quantize.py:21, 59; onnx_export.py:51-116).
ASSUME QuantizedGraphsAreFed ==
  /\ \A k \in B!Kinds : A!Quantize(k, A!Export(k), "src", "dst", "input") # "raises"
  /\ A!Quantizable \subseteq B!Kinds /\ "catboost" \notin A!Quantizable

\* The reader hands out every calibration row once, in order, in batches that are full but
\* for the last, also when the rows are none or fill their batches (quantize.py:55-61).
ASSUME ReaderIsComplete ==
  \A n \in 0 .. 97 :
    LET batches == A!Reads(n)
    IN /\ UNION {batches[i] : i \in DOMAIN batches} = 1 .. n
       /\ \A i \in DOMAIN batches :
            /\ batches[i] # {}
            /\ i < Len(batches) => Cardinality(batches[i]) = A!Batch
            /\ \A j \in 1 .. (i - 1) : \A a \in batches[j], b \in batches[i] : a < b

\* A reference to a file is resolved from the environment, and for three groups only: from
\* a .env file, and in the groups of the data, the registry, the project and MLflow, the
\* setting is the reference itself (settings.py:60-74 says of both that they are resolved).
ASSUME ReferencesAreResolvedInTheEnvironment ==
  \A g \in S!Groups :
    LET secret == [key |-> S!File("p")]
        value(env, dotenv) == S!Value(g, "key", env, dotenv, [p |-> "s"], [key |-> S!Text("")])
    IN /\ value(secret, <<>>) = S!Text("s") <=> g \in S!Resolving
       /\ value(<<>>, secret) = S!File("p")
       /\ value([key |-> S!Text("e")], secret) = S!Text("e")
       /\ value(<<>>, <<>>) = S!Text("")

\* The .env file is chosen as the first name that is not empty, the tag as the first that
\* is there: with an empty DEEPCAB_ENV the program reads the file of APP_ENV and then does
\* not start; and a DEEPCAB_ENV in the file of one environment makes the tag another's
\* (settings.py:23-27, 199-207).
ASSUME EmptyNamesDisagree ==
  /\ \A d, a \in S!AppEnvs :
       LET env == [DEEPCAB_ENV |-> d, APP_ENV |-> a]
       IN S!AppEnv(env, [DEEPCAB_ENV |-> "dev"]) = S!Text(S!EnvFile(env))
  /\ LET env == [DEEPCAB_ENV |-> "", APP_ENV |-> "prod"]
     IN S!EnvFile(env) = "prod" /\ S!AppEnv(env, <<>>) = S!Fails
  /\ LET env == [APP_ENV |-> "prod"]
     IN /\ S!EnvFile(env) = "prod" /\ S!AppEnv(env, <<>>) = S!Text("prod")
        /\ S!AppEnv(env, [DEEPCAB_ENV |-> "dev"]) = S!Text("dev")

\* The third source of data is the store (preprocess.py:80-85).
ASSUME CloudIsTheStore == S!ReadsFrom("cloud") = S!ReadsFrom("local")

\* With both keys set the one of the other service does not open the door; with none the
\* door is open (deps.py:65-91).
ASSUME OneKeyCounts ==
  /\ \A shown \in {"", "d", "o"} : S!Admits(shown, "d", "o") <=> shown = "d"
  /\ \A shown \in {"", "d", "o"} : S!Admits(shown, "", "o") <=> shown = "o"
  /\ S!Admits("", "", "")
=============================================================================
