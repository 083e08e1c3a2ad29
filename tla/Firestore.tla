----------------------------- MODULE Firestore -----------------------------
(***************************************************************************)
(* The Cloud Firestore field transforms that lib/ relies on, as the client *)
(* applies them (transform_operation.cc) and the server likewise.  The     *)
(* server applies one write to one document atomically, with the field     *)
(* values it finds at that moment.  Integers are 64 bits wide and an       *)
(* increment saturates there, far beyond the pieces of an order.           *)
(*                                                                         *)
(* The arrays this application stores hold maps that carry the time of     *)
(* their creation, so no two elements are equal and the order is only a    *)
(* matter of display: an array is modelled by the set of its elements.     *)
(***************************************************************************)
EXTENDS Integers

\* FieldValue.arrayUnion: adds the elements the array does not hold yet.
ArrayUnion(array, elements) == array \cup elements

\* FieldValue.arrayRemove: drops every element equal, field by field, to one
\* of the given ones, and leaves the array alone when there is none.
ArrayRemove(array, elements) == array \ elements

\* FieldValue.increment: adds to the value the server holds.
Increment(value, amount) == value + amount

=============================================================================
