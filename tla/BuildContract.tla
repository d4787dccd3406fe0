----------------------------- MODULE BuildContract -----------------------------
(***************************************************************************)
(* What POST /v1/tasks accepts: BuildRequest (contracts.py), the catalog   *)
(* of task kinds (task_catalog.py) and the execution correlation a build   *)
(* may carry (execution/contracts.py), by which its owner, Cantiere, knows *)
(* an external operation again over any number of attempts.                *)
(***************************************************************************)
EXTENDS Optionals

Modes == {"plan", "implement", "repair"}

TaskCatalog ==
    [software      |-> {"software.build", "software.repair", "software.review"},
     web           |-> {"web.build", "web.repair", "web.review"},
     cad           |-> {"cad.reconstruct", "cad.model", "cad.revise", "cad.export"},
     manufacturing |-> {"manufacturing.validate", "manufacturing.slice"}]

TaskFamilies == DOMAIN TaskCatalog

DefaultTaskKind ==
    [software      |-> "software.build",
     web           |-> "web.build",
     cad           |-> "cad.model",
     manufacturing |-> "manufacturing.validate"]

-----------------------------------------------------------------------------
\* A text that is missing, of another type, empty or too long.
Blank == "blank"

IdentityFields == {"project_id", "task_id", "execution_id", "operation_id",
                   "request_fingerprint"}

RequiredFields == IdentityFields \cup {"attempt_id"}

CorrelationFields ==
    RequiredFields \cup {"schema_version", "checkpoint_id", "idempotency_key"}

\* A bug: an attempt has a key of its own.
KeyOfAttempt(c) == [f \in RequiredFields |-> c[f]]

\* derive_idempotency_key, of a correlation or of the identity alone: the digest of
\* the identity, which stands for it as SHA-256 is taken to be one-to-one.
DeriveKey(c) == [f \in IdentityFields |-> c[f]]

\* What ExecutionCorrelation lets be built, from whatever source.
Sound(c) ==
    /\ c.schema_version = 1
    /\ \A f \in RequiredFields : c[f] # Blank
    /\ c.checkpoint_id # Blank
    /\ c.idempotency_key = DeriveKey(c)

Create(c) ==
    [f \in CorrelationFields |->
       CASE f = "schema_version" -> 1
         [] f = "checkpoint_id" -> None
         [] f = "idempotency_key" -> DeriveKey(c)
         [] OTHER -> c[f]]

\* A newer attempt at the same operation.
ForAttempt(c, attempt, checkpoint) ==
    [c EXCEPT !.attempt_id = attempt, !.checkpoint_id = checkpoint]

-----------------------------------------------------------------------------
\* A build as BuildRequest.from_json reads it: wellformed when its texts, arrays and
\* inputs are what they should be, profile when the context has a printer profile.
KindOf(b) == IF b.task_kind = "" THEN DefaultTaskKind[b.task_family] ELSE b.task_kind

\* A bug: a correlation is not held against the build it comes with.
ValidWithAnyCorrelation(b) ==
    /\ b.wellformed
    /\ b.mode \in Modes
    /\ b.task_family \in TaskFamilies
    /\ KindOf(b) \in TaskCatalog[b.task_family]
    /\ b.correlation # None => Sound(b.correlation)
    /\ "gcode" \in b.artifacts => b.task_family = "manufacturing" /\ b.profile

\* BuildRequest accepts b.
ValidBuild(b) ==
    /\ b.wellformed
    /\ b.mode \in Modes
    /\ b.task_family \in TaskFamilies
    /\ KindOf(b) \in TaskCatalog[b.task_family]
    /\ b.correlation # None =>
         /\ Sound(b.correlation)
         /\ b.correlation.project_id = b.project_id
         /\ b.correlation.operation_id = KindOf(b)
    /\ "gcode" \in b.artifacts => b.task_family = "manufacturing" /\ b.profile
=============================================================================
