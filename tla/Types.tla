------------------------------- MODULE Types -------------------------------
(***************************************************************************)
(* Types, casts and operations: which casts and which operators the code   *)
(* generator has for which type.  A type has a name, a kind and, for an    *)
(* alias, the type every call is forwarded to ("base"; a built-in type is  *)
(* its own).  An alias of an alias forwards twice: its base is the type    *)
(* the chain ends in.  Two types are equal if name and kind are.           *)
(***************************************************************************)

Integral  == {"i8", "i16", "i32", "i64"}
FP        == {"f32", "f64"}
Character == {"char", "bchar"}
BuiltIn   == Integral \cup FP \cup Character
               \cup {"void", "bool", "byte", "string", "cstring"}
Kind      == BuiltIn \cup {"function"}

Basic(n) == [name |-> n, kind |-> n, base |-> n]
AliasType(n, t) == [name |-> n, kind |-> t.kind, base |-> t.base]
FunctionType == Basic("function")

equal(t, u) == t.kind = u.kind /\ t.name = u.name
Underlying(t) == [t EXCEPT !.name = t.base]

(* VoidType says it is not sized; an alias of void does not.               *)
isSized(t) == t.name # "void"

(* zeroInit is forwarded by an alias: what it gives is of the underlying   *)
(* type.  For void and functions it is a null pointer.                     *)
HasNoZero(t) == t.kind \in {"void", "function"}
IsText(t) == t.kind \in {"string", "cstring"}

-----------------------------------------------------------------------------
(* Casts.  An implicit one is for equal types; as an alias forwards it,    *)
(* "this" is then the underlying type.                                     *)

implicitCast(t, to) == equal(Underlying(t), to)
isOnlyImplicitlyCastable(t, to) == implicitCast(t, to)  \* Mutant of isSameOrImplicitlyCastable
isSameOrImplicitlyCastable(t, to) == equal(t, to) \/ implicitCast(t, to)

(* The target kinds of an explicit cast, and those where a null pointer is *)
(* dereferenced: the value is compared with nullptr, or a type "float" is  *)
(* looked up that does not exist (one made with "use" does not help: its   *)
(* zero is compared with an i1).                                           *)
Casts(to, null) == [to |-> to, null |-> null]
VoidCasts      == Casts({}, {})
IntegralCasts  == Casts(Integral \cup FP \cup {"byte"}, {"bool"})
BoolCasts      == Casts({}, Integral \cup FP \cup {"byte"})
CharacterCasts == Casts({}, {})
ByteCasts      == Casts(Integral, {"bool"})
FPCasts        == Casts(Integral \cup {"byte"}, {})
StringCasts    == Casts({}, {})
CStringCasts   == Casts({}, {})
FunctionCasts  == Casts({}, {})

-----------------------------------------------------------------------------
(* Operations.  "typed": a simple assignment compares the types.           *)

Arithmetic == {"+", "-", "*", "/", "%"}
Equality   == {"==", "!="}
Comparison == Equality \cup {"<", "<=", ">", ">="}
Logical    == {"and", "or"}
Compound   == {"+=", "-=", "*=", "/=", "%="}
OfCompound ==
  [op \in Compound |-> CASE op = "+=" -> "+" [] op = "-=" -> "-" [] op = "*=" -> "*"
                        [] op = "/=" -> "/" [] op = "%=" -> "%"]

Operations(assign, typed, unary, binary, arbitrary) ==
  [assign |-> assign, typed |-> typed, unary |-> unary, binary |-> binary,
   arbitrary |-> arbitrary]

VoidTypeOperation      == Operations({}, TRUE, {}, {}, {})
IntegralTypeOperation  ==
  Operations(Compound \cup {"="}, TRUE, {"+", "-", "not"}, Arithmetic \cup Comparison, {})
CharacterTypeOperation == Operations({"="}, TRUE, {}, Equality, {})
BoolTypeOperation      == Operations({"="}, FALSE, {"not"}, Equality \cup Logical, {})
ByteTypeOperation      == Operations({}, TRUE, {}, {}, {})
FPTypeOperation        ==
  Operations(Compound \cup {"="}, FALSE, {"+", "-"}, Arithmetic \cup Comparison, {})
StringTypeOperation    == Operations({"="}, FALSE, {}, {}, {})
CStringTypeOperation   == Operations({"="}, FALSE, {}, {}, {})
FunctionTypeOperation  == Operations({}, TRUE, {}, {}, {"()"})

(* cast and getOperations are virtual; an alias has its underlying's.      *)
Class(integral, fp, character, others) ==
  [k \in Kind |-> IF k \in Integral THEN integral
                  ELSE IF k \in FP THEN fp
                  ELSE IF k \in Character THEN character
                  ELSE others[k]]

cast == Class(IntegralCasts, FPCasts, CharacterCasts,
  [void |-> VoidCasts, bool |-> BoolCasts, byte |-> ByteCasts, string |-> StringCasts,
   cstring |-> CStringCasts, function |-> FunctionCasts])

getOperations == Class(IntegralTypeOperation, FPTypeOperation, CharacterTypeOperation,
  [void |-> VoidTypeOperation, bool |-> BoolTypeOperation, byte |-> ByteTypeOperation,
   string |-> StringTypeOperation, cstring |-> CStringTypeOperation,
   function |-> FunctionTypeOperation])
=============================================================================
