-------------------------- MODULE MCMechanismParams --------------------------
(***************************************************************************)
(* MechanismParams for TLC: a parameter of each form, with and without its *)
(* optional bytes, and with lengths on both sides of each limit.           *)
(***************************************************************************)
EXTENDS MechanismParams

Param(form, size, optional) ==
    [form |-> form, size |-> size, optional |-> optional, assigned |-> FALSE]

MCParams ==
    {Param(None, 0, FALSE), Param("bytes", 16, FALSE), Param("an integer", 0, FALSE),
     Param("CK_AES_CBC_ENCRYPT_DATA_PARAMS", 15, FALSE),
     Param("CK_AES_CBC_ENCRYPT_DATA_PARAMS", 16, FALSE),
     Param("CK_RSA_PKCS_PSS_PARAMS", 0, FALSE),
     Param("CK_GCM_PARAMS", 12, TRUE), Param("CK_GCM_PARAMS", 13, TRUE),
     Param("CK_AES_CTR_PARAMS", 0, FALSE), Param("CK_AES_CTR_PARAMS", 15, FALSE),
     Param("CK_AES_CTR_PARAMS", 16, FALSE),
     [Param("CK_AES_CTR_PARAMS", 16, FALSE) EXCEPT !.assigned = TRUE]}
    \cup {Param(form, 1, optional) :
            form \in {"CK_RSA_PKCS_OAEP_PARAMS", "CK_EDDSA_PARAMS", "CK_ECDH1_DERIVE_PARAMS",
                      "CK_GCM_PARAMS"},
            optional \in BOOLEAN}

MCKeyTypes == {"AES", "DES3", "DH", "DSA", "EC", "RSA", "X9_42_DH", "EC_EDWARDS",
               "GENERIC_SECRET", "SEED"}

MCMechanisms ==
    {"AES_ECB_ENCRYPT_DATA", "RSA_PKCS_OAEP", "SHA256_RSA_PKCS_PSS", "SHA3_256_RSA_PKCS_PSS",
     "EDDSA", "ECDH1_DERIVE", "AES_CBC_ENCRYPT_DATA", "AES_GCM", "AES_CTR", "AES_CBC_PAD"}

Uses(mechanisms, params, types, capabilities) ==
    {[mechanism |-> m, param |-> p, type |-> type, capabilities |-> c] :
        m \in mechanisms, p \in params, type \in types, c \in capabilities}

MCRequests ==
    Uses({None}, {Param(None, 0, FALSE)}, MCKeyTypes, {None, AllOps})
    \cup Uses({NotAMechanism} \cup MCMechanisms, MCParams, {"AES"}, {None})
=============================================================================
