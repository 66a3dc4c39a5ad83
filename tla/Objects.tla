------------------------------- MODULE Objects -------------------------------
(***************************************************************************)
(* Errors and properties of GObjects as nm-shared-utils sets them:         *)
(* nm_g_object_set_property, its boolean and its unsigned form, and the    *)
(* errors of cancelled requests.                                           *)
(*                                                                         *)
(* A class is a function from the names of its properties to what is known *)
(* of them, an object a function from these names to values.  A value has  *)
(* the GType it is of and a number.                                        *)
(***************************************************************************)
EXTENDS Integers, FiniteSetsExt

CONSTANTS
  Types,      \* the GTypes of values
  Transforms  \* the pairs of types that GLib can transform

ASSUME TypesAssumption == {"bool", "uint"} \subseteq Types /\ Transforms \subseteq Types \X Types

NoError == "none"

(* G_IO_ERROR_CANCELLED or, of an object being disposed,                   *)
(* NM_UTILS_ERROR_CANCELLED_DISPOSING.                                     *)
ErrorSetCancelled(is_disposing) == IF is_disposing THEN "cancelled_disposing" ELSE "cancelled"

ErrorIsCancelled(error, consider_is_disposing) ==
  \/ error = "cancelled"
  \/ consider_is_disposing /\ error = "cancelled_disposing"

-----------------------------------------------------------------------------
(* What g_object_class_find_property knows of a property; peeked is        *)
(* whether its owner's class is there.                                     *)
ParamSpec == [writable : BOOLEAN, construct_only : BOOLEAN, peeked : BOOLEAN,
              type : Types, max : Nat, lax : BOOLEAN]

(* g_value_transform, and g_param_value_validate: the value made valid. *)
Transform(value, to)    == [type |-> to, n |-> IF to = "bool" /\ value.n > 0 THEN 1 ELSE value.n]
Validated(pspec, value) == [value EXCEPT !.n = Min({@, pspec.max})]

(* Mutant: a value that is not valid is made valid and set. *)
RejectedNever(pspec, value) ==
  IF <<value.type, pspec.type>> \notin Transforms THEN "not transformed" ELSE NoError

(* Why a property cannot have this value. *)
Rejected(pspec, value) ==
  LET tmp == Transform(value, pspec.type) IN
  IF <<value.type, pspec.type>> \notin Transforms THEN "not transformed"
  ELSE IF Validated(pspec, tmp) # tmp /\ ~pspec.lax THEN "not valid" ELSE NoError

(* The object and the error after a property was to be set.  Every check   *)
(* that fails is an error, and nothing is set.                             *)
SetProperty(klass, object, name, value) ==
  LET pspec == klass[name]
      error == IF name \notin DOMAIN klass THEN "no such property"
               ELSE IF ~pspec.writable THEN "not writable"
               ELSE IF pspec.construct_only THEN "construct only"
               ELSE IF ~pspec.peeked THEN "no class"
               ELSE Rejected(pspec, value)
  IN [error  |-> error,
      object |-> IF error # NoError THEN object
                 ELSE [object EXCEPT ![name] = Validated(pspec, Transform(value, pspec.type))]]

SetPropertyBoolean(klass, object, name, value) ==
  SetProperty(klass, object, name, [type |-> "bool", n |-> IF value # 0 THEN 1 ELSE 0])

SetPropertyUint(klass, object, name, value) ==
  SetProperty(klass, object, name, [type |-> "uint", n |-> value])
=============================================================================
