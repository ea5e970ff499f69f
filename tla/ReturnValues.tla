---------------------------- MODULE ReturnValues ----------------------------
(***************************************************************************)
(* How a return value of the PKCS#11 library becomes an exception:         *)
(* map_rv_to_error of src/pkcs11/_pkcs11.pxd, which assertRV calls for     *)
(* every return value but CKR_OK.                                          *)
(*                                                                         *)
(* The table has a class for each of some seventy return values; those of  *)
(* the models are here.  All classes are subclasses of PKCS11Error, which  *)
(* itself is what a return value becomes that should not occur.            *)
(***************************************************************************)

Raised ==
    [CKR_ATTRIBUTE_TYPE_INVALID   |-> "AttributeTypeInvalid",
     CKR_ATTRIBUTE_SENSITIVE      |-> "AttributeSensitive",
     CKR_BUFFER_TOO_SMALL         |-> "PKCS11Error",
     CKR_DEVICE_ERROR             |-> "DeviceError",
     CKR_FUNCTION_FAILED          |-> "FunctionFailed",
     CKR_KEY_TYPE_INCONSISTENT    |-> "KeyTypeInconsistent",
     CKR_MECHANISM_PARAM_INVALID  |-> "MechanismParamInvalid",
     CKR_OBJECT_HANDLE_INVALID    |-> "ObjectHandleInvalid",
     CKR_SLOT_ID_INVALID          |-> "SlotIDInvalid",
     CKR_TOKEN_NOT_PRESENT        |-> "TokenNotPresent",
     CKR_TOKEN_NOT_RECOGNIZED     |-> "TokenNotRecognised"]

(* assertRV lets nothing else pass than CKR_OK.                            *)
Passes(rv) == rv = "CKR_OK"
=============================================================================
