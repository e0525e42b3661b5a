-------------------------------- MODULE Errors --------------------------------
(***************************************************************************)
(* The errors that texd tells its clients (tex/errors.go), and what they   *)
(* are told of any other (errorResponse in service/service.go).  An error  *)
(* has a category and extra values; its message and cause are left out.    *)
(***************************************************************************)
EXTENDS FiniteSets, Functions

(* An error of another type has no category and takes no extra values. *)
Plain == [cat |-> "plain", extra |-> <<>>]
newCategoryError(cat, extra) == [cat |-> cat, extra |-> extra]
InputError(extra) == newCategoryError("input", extra)
CompilationError(extra) == newCategoryError("compilation", extra)
ReferenceError(references) ==
  newCategoryError("reference", [references |-> references])

(* ExtendError: new values replace old ones of the same name. *)
ExtendError(err, extra) ==
  IF err.cat = "plain" THEN err
  ELSE [err EXCEPT !.extra =
          [key \in DOMAIN extra \cup DOMAIN err.extra |->
             IF key \in DOMAIN extra THEN extra[key] ELSE err.extra[key]]]

(* MarshalJSON: the category cannot be replaced by an extra value. *)
MarshalJSON(err) ==
  [category |-> err.cat,
   extra    |-> Restrict(err.extra, DOMAIN err.extra \ {"error", "category"})]

(* errorResponse: what has no category is "internal" and keeps its reasons. *)
errorResponse(err) ==
  IF err.cat = "plain" THEN [category |-> "internal", extra |-> <<>>]
  ELSE MarshalJSON(err)
=============================================================================
