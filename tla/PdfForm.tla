------------------------------- MODULE PdfForm -------------------------------
(* The pure part of adapters/renderers/pdf_form.py: how a data value becomes   *)
(* the value of an AcroForm field or of a row of comb boxes.                   *)
(*                                                                             *)
(* A data value is [kind, len], len the number of characters Python's str()    *)
(* gives it: a string "text", or one "ticked" that reads as true; "null",      *)
(* "true" and "false"; a "number", or "zero"; an array or object "structure",  *)
(* or an empty one, "hollow".  A field is [button, states], states without     *)
(* /Off.  What a field shows is tagged by where it comes from: its own value,  *)
(* an export state, the characters of a data value, or a word.                 *)
EXTENDS Naturals, Sequences

OwnValue == <<"own", "", 0>>
State(s) == <<"state", s, 0>>
Word(w) == <<"word", w, 0>>
NoText == Word("")
Text(key) == <<"text", key, 0>>
Character(key, i) == <<"char", key, i>>

(* The strings that mean yes; of anything else, whatever Python takes for true.*)
IsChecked(v) == v.kind \in {"ticked", "true", "number", "structure"}

(* The form's own name for "ticked", "/Yes" if it declares none.               *)
OnState(field) == IF field.states # <<>> THEN Head(field.states) ELSE "/Yes"

Coerce(field, key, v) ==
    IF field.button THEN State(IF IsChecked(v) THEN OnState(field) ELSE "/Off")
    ELSE CASE v.kind = "null" -> NoText
           [] v.kind = "true" -> Word("Oui")
           [] v.kind = "false" -> Word("Non")
           [] OTHER -> Text(key)

(* str(value), "" for null, one character per box from the left.               *)
Characters(v) ==
    CASE v.kind = "null" -> 0 [] v.kind = "true" -> Len("True")
      [] v.kind = "false" -> Len("False") [] OTHER -> v.len
CombBoxLeftover(key, v, i) == IF i <= Characters(v) THEN Character(key, i) ELSE OwnValue
CombBox(key, v, i) == IF i <= Characters(v) THEN Character(key, i) ELSE NoText

(* The last of the positions that name field f: a box listed twice is written  *)
(* twice.                                                                      *)
Position(targets, f) ==
    CHOOSE i \in DOMAIN targets :
        targets[i] = f /\ \A k \in DOMAIN targets : targets[k] = f => k <= i

(* A mapping entry [key, comb, targets]: the field values it contributes.      *)
EntryValues(fields, entry, v) ==
    [f \in {entry.targets[i] : i \in DOMAIN entry.targets} |->
        IF entry.comb THEN CombBox(entry.key, v, Position(entry.targets, f))
        ELSE Coerce(fields[f], entry.key, v)]

(* values[name] = ...: later entries win.                                      *)
Updated(values, new) ==
    [f \in DOMAIN values \cup DOMAIN new |-> IF f \in DOMAIN new THEN new[f] ELSE values[f]]
===============================================================================
