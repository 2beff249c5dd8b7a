----------------------------- MODULE ModelCodec -----------------------------
(***************************************************************************)
(* Composed receipts and acceptance decisions are JSON models inside their *)
(* programs and deterministic CBOR outside (compose/src/cbor_decode.rs and *)
(* cbor_encode.rs, accept/src/cbor.rs).  The conversion depends on where a *)
(* value stands: digests, identifiers and revisions are byte strings in    *)
(* CBOR and text in the model, and a size is a number or a decimal.  Maps  *)
(* and arrays are walked, so a document is seen one leaf at a time: the    *)
(* leaf and the fields that lead to it.  A text is its form and what it    *)
(* denotes; a byte string is its length and its content.                   *)
(***************************************************************************)
EXTENDS Integers, Sequences, SequencesExt

CONSTANTS Contents    \* what a text or a byte string may hold

VARIABLES
    schema,     \* "composed" or "decision"
    place,      \* the fields that lead to the leaf
    carrier,    \* the leaf as it stands in the bytes that are read
    model,      \* the leaf of the model it is read as
    again       \* the leaf as that model is written

modelVars == <<schema, place, carrier, model, again>>

\* The places of a document and the type its structure has there.
PlaceType(document, field, within) ==
    CASE field \in {"composition_id", "commitment", "payload_sha256", "sha256",
                    "evidence", "dependencies", "decision_id",
                    "policy_identity", "execution_commitment"} -> "digest"
      [] field = "identity" ->
           IF within = "artifact_observations" THEN "digest" ELSE "text"
      [] field = "execution_id" -> "uuid"
      [] field = "project_revision" -> "revision"
      [] field = "size" -> IF document = "composed" THEN "decimal" ELSE "number"
      [] field = "size_bytes" -> "number"
      [] field = "policy_admitted" -> "bool"
      [] OTHER -> IF document = "composed" THEN "text" ELSE "literal"
Places ==
    [composed |->
        {<<"composition_id">>, <<"execution", "commitment">>,
         <<"execution", "execution_id">>, <<"release", "payload_sha256">>,
         <<"release", "project_revision">>, <<"release", "project">>,
         <<"envelope", "size">>, <<"envelope", "sha256">>,
         <<"artifact_observations", "identity">>,
         <<"artifact_observations", "dependencies">>,
         <<"artifact_observations", "evidence">>,
         <<"artifact_observations", "artifact", "size_bytes">>,
         <<"claims", "policy_admitted">>,
         <<"trusted_computing_base", "identity">>},
     decision |->
        {<<"schema">>, <<"inputs", "role">>, <<"inputs", "size">>,
         <<"inputs", "sha256">>, <<"decision_id">>, <<"execution_id">>,
         <<"composition_id">>, <<"policy_identity">>,
         <<"execution_commitment">>}]
TypeAt(document, fields) == PlaceType(document, Last(fields), fields[1])

\* The text that stands for a byte string, and its length in bytes.
TextForm == [digest |-> 32, uuid |-> 16, revision |-> 20]
Forms == DOMAIN TextForm \union {"plain", "decimal"}

Carriers ==
    {<<"text", form, x>> : form \in Forms, x \in Contents}
        \union {<<"bytes", n, x>> : n \in {0, 16, 20, 32}, x \in Contents}
        \union {<<"unsigned", x>> : x \in Contents}
        \union {<<"negative", x>> : x \in Contents}
        \union {<<"bool">>, <<"null">>}
Unread == <<"unread">>
Refused == <<"refused">>

-----------------------------------------------------------------------------
(* The composer. *)

IsDigestPath(fields) ==
    \/ Last(fields) \in {"composition_id", "commitment", "payload_sha256",
                         "sha256", "evidence", "dependencies"}
    \/ Last(fields) = "identity" /\ "artifact_observations" \in ToSet(fields)

ExactDecimalPath(fields) == Last(fields) \in {"size", "size_bytes"}

\* model_bytes: a byte string stands only where its length belongs.
ModelBytes(leaf, fields) ==
    LET form == IF Last(fields) = "execution_id" THEN "uuid"
                ELSE IF Last(fields) = "project_revision" THEN "revision"
                ELSE IF IsDigestPath(fields) THEN "digest"
                ELSE "none"
    IN
    IF form # "none" /\ leaf[2] = TextForm[form] THEN <<"string", form, leaf[3]>>
    ELSE Refused

\* project, for the model or for display.
ProjectComposed(leaf, fields, forModel) ==
    CASE leaf[1] = "unsigned" ->
           IF ExactDecimalPath(fields) /\ (forModel => Last(fields) = "size")
           THEN <<"string", "decimal", leaf[2]>> ELSE <<"number", leaf[2]>>
      [] leaf[1] = "negative" -> <<"below-zero", leaf[2]>>
      [] leaf[1] = "bytes" ->
           IF forModel THEN ModelBytes(leaf, fields)
           ELSE <<"string", "hex", leaf[3]>>
      [] leaf[1] = "text" -> <<"string", leaf[2], leaf[3]>>
      [] OTHER -> leaf

\* Mutant: the dependencies of an observation are not digests.
EncodesDigestWithoutDependencies(fields) ==
    \/ Last(fields) \in {"composition_id", "commitment", "payload_sha256",
                         "sha256", "evidence"}
    \/ Last(fields) = "identity" /\ "artifact_observations" \in ToSet(fields)

\* The encoder has its own copy of is_digest_path.
EncodesDigest(fields) ==
    \/ Last(fields) \in {"composition_id", "commitment", "payload_sha256",
                         "sha256", "evidence", "dependencies"}
    \/ Last(fields) = "identity" /\ "artifact_observations" \in ToSet(fields)

EncodeAs(json, form) ==
    IF json[2] = form THEN <<"bytes", TextForm[form], json[3]>> ELSE Refused

\* encode_json and encode_string.
EncodeComposed(json, fields) ==
    CASE json[1] = "number" -> <<"unsigned", json[2]>>
      [] json[1] = "below-zero" -> Refused
      [] json[1] = "string" ->
           (CASE Last(fields) = "size" ->
                   IF json[2] = "decimal" THEN <<"unsigned", json[3]>> ELSE Refused
              [] Last(fields) = "execution_id" -> EncodeAs(json, "uuid")
              [] Last(fields) = "project_revision" -> EncodeAs(json, "revision")
              [] EncodesDigest(fields) -> EncodeAs(json, "digest")
              [] OTHER -> <<"text", json[2], json[3]>>)
      [] OTHER -> json

-----------------------------------------------------------------------------
(* The acceptor. *)

\* project_bytes: the length decides, wherever the bytes stand.
ProjectBytes(leaf, fields) ==
    CASE Last(fields) = "execution_id" /\ leaf[2] = 16 -> <<"string", "uuid", leaf[3]>>
      [] Last(fields) = "project_revision" /\ leaf[2] = 20 ->
           <<"string", "revision", leaf[3]>>
      [] leaf[2] = 32 -> <<"string", "digest", leaf[3]>>
      [] OTHER -> Refused

ProjectDecision(leaf, fields) ==
    CASE leaf[1] = "unsigned" -> <<"number", leaf[2]>>
      [] leaf[1] = "negative" -> <<"below-zero", leaf[2]>>
      [] leaf[1] = "bytes" -> ProjectBytes(leaf, fields)
      [] leaf[1] = "text" -> <<"string", leaf[2], leaf[3]>>
      [] OTHER -> leaf

EncodeDecision(json, fields) ==
    CASE json[1] = "number" -> <<"unsigned", json[2]>>
      [] json[1] = "below-zero" -> Refused
      [] json[1] = "string" ->
           (CASE Last(fields) = "execution_id" -> EncodeAs(json, "uuid")
              [] Last(fields) = "project_revision" -> EncodeAs(json, "revision")
              [] Last(fields) \in
                   {"sha256", "policy_sha256", "payload_sha256", "decision_id",
                    "composition_id", "policy_identity", "execution_commitment"}
                   -> EncodeAs(json, "digest")
              [] OTHER -> <<"text", json[2], json[3]>>)
      [] OTHER -> json

-----------------------------------------------------------------------------
(* Reading a document and writing it again. *)

Project(leaf) ==
    IF schema = "composed" THEN ProjectComposed(leaf, place, TRUE)
    ELSE ProjectDecision(leaf, place)

\* The model has the type of its place: serde's types, and for a decision
\* the checks of project_decision, which also takes a null composition.
Typed(json) ==
    LET type == TypeAt(schema, place) IN
    CASE type = "number" -> json[1] = "number"
      [] type = "bool" -> json[1] = "bool"
      [] type = "literal" -> json[1] = "string" /\ json[2] = "plain"
      [] schema = "composed" /\ type \notin {"number", "bool", "literal"} ->
           json[1] = "string"
      [] OTHER -> \/ json[1] = "string" /\ json[2] = type
                  \/ json[1] = "null" /\ place = <<"composition_id">>

\* A model that its own program builds.
Produced(json) ==
    LET type == TypeAt(schema, place) IN
    Typed(json) /\ (type \in DOMAIN TextForm \union {"decimal"} /\ json[1] = "string"
                    => json[2] = type)

ModelInit ==
    /\ \E document \in DOMAIN Places :
          schema = document /\ place \in Places[document]
    /\ carrier \in Carriers /\ model = Unread /\ again = Unread

\* decode_composed_v2_model, or decode_model, into the typed structure.
ReadModel ==
    /\ model = Unread
    /\ model' = IF Project(carrier) # Refused /\ Typed(Project(carrier))
                THEN Project(carrier) ELSE Refused
    /\ UNCHANGED <<schema, place, carrier, again>>

\* encode_composed_v2, or encode_model, of the typed structure.
WriteModel ==
    /\ model \notin {Unread, Refused} /\ again = Unread
    /\ again' = IF schema = "composed" THEN EncodeComposed(model, place)
                ELSE EncodeDecision(model, place)
    /\ UNCHANGED <<schema, place, carrier, model>>

ModelNext == ReadModel \/ WriteModel

ModelSpec == ModelInit /\ [][ModelNext]_modelVars

-----------------------------------------------------------------------------
(* Properties. *)

\* Every composed receipt and every decision that its program builds can be
\* written, and what is written reads back as the model it was; and a
\* document that is read is written as it stood, except where a text stood
\* for a byte string or a size.  Identities are computed over the document
\* written again.
ModelsAreFaithful ==
    again # Unread =>
        /\ Produced(model) => again # Refused /\ Project(again) = model
        /\ \/ again \in {Refused, carrier}
           \/ carrier[1] = "text" /\ again[1] \in {"bytes", "unsigned"}
=============================================================================
