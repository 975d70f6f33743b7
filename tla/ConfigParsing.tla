--------------------------- MODULE ConfigParsing ---------------------------
(***************************************************************************)
(* The two JSON configuration parsers as pure operators:                  *)
(*   ovpn_client_parse_config_json (openvpn_client_api.c) and             *)
(*   parse_server_config_json via ovpn_server_load_config_json            *)
(*   (openvpn_server_api.c).                                               *)
(* A JSON document is the cJSON tree the parser walks: an object is a     *)
(* record of its keys (unknown keys are never looked up), a string keeps  *)
(* only what the code reads of it -- its length where it is copied into a *)
(* fixed buffer, whether it contains "client" for the client profile    *)
(* text -- and a number is its integer value.                             *)
(***************************************************************************)
EXTENDS Integers, Sequences

(* cJSON values. *)
Chars(n) == [t |-> "string", len |-> n]
ProfileText(hasClient) == [t |-> "string", len |-> 1, client |-> hasClient]
Num(v) == [t |-> "number", v |-> v]
JTrue == [t |-> "true"]
JFalse == [t |-> "false"]
Obj(items) == [t |-> "object", items |-> items]
Arr(elems) == [t |-> "array", elems |-> elems]
(* The NULL cJSON_GetObjectItem returns for a missing key. *)
NoItem == [t |-> "none"]
(* Text cJSON_Parse rejects (a syntax error, or out of memory). *)
Malformed == [t |-> "malformed"]

IsString(v) == v.t = "string"
IsNumber(v) == v.t = "number"
IsObject(v) == v.t = "object"
IsTrue(v) == v.t = "true"
Present(v) == v.t /= "none"

(* cJSON_GetObjectItem: the value of key k in object o, or NULL. *)
Item(o, k) == IF IsObject(o) /\ k \in DOMAIN o.items THEN o.items[k] ELSE NoItem

-----------------------------------------------------------------------------
(* ovpn_client_parse_config_json.  String fields are strdup'd copies;    *)
(* the config records which ones are set (the rest stay NULL from the    *)
(* memset), the profile text, and the numbers.                            *)

ZeroClientConfig ==
    [strings |-> {}, ovpn |-> NoItem, auto |-> FALSE, reconnect |-> 0,
     ping |-> 0, mtu |-> 0, proxyPort |-> 0, compression |-> FALSE,
     verbose |-> FALSE, stats |-> 0]

(* The caller's struct as it was before the call (the parse returns     *)
(* before its memset).                                                     *)
Untouched == [t |-> "untouched"]

(* if (cJSON_IsString(v)) config->field = strdup(v->valuestring) for the *)
(* keys of one group.                                                     *)
StrdupFields(group, keys) == {k \in keys : IsString(Item(group, k))}

(* if (cJSON_IsNumber(v)) field = (uint32_t)v->valueint; else default.   *)
NumberOr(v, default) == IF IsNumber(v) THEN v.v ELSE default

ParseClientConfigJson(doc) ==
    LET conn == Item(doc, "connection")
        sets == Item(doc, "settings")
        proxy == Item(doc, "proxy")
        profile == StrdupFields(doc, {"profile_name"})
        ovpn == Item(doc, "ovpn_config")
    IN
    IF doc = Malformed THEN [rc |-> "JSON_PARSE", cfg |-> Untouched]
    ELSE IF ~IsString(ovpn)
    THEN [rc |-> "CONFIG_INVALID",
          cfg |-> [ZeroClientConfig EXCEPT !.strings = profile]]
    ELSE [rc |-> "SUCCESS",
          cfg |-> [ZeroClientConfig EXCEPT
            !.strings = profile \cup {"ovpn_config"}
                        \cup StrdupFields(Item(doc, "auth"), {"username", "password"})
                        \cup StrdupFields(Item(doc, "certificates"),
                                          {"cert_path", "key_path", "ca_path"})
                        \cup {"proxy_" \o k : k \in StrdupFields(proxy,
                                          {"host", "username", "password"})},
            !.ovpn = ovpn,
            !.auto = IsObject(conn) /\ IsTrue(Item(conn, "auto_reconnect")),
            !.reconnect = IF IsObject(conn)
                          THEN NumberOr(Item(conn, "reconnect_interval"), 30) ELSE 0,
            !.ping = IF IsObject(conn)
                     THEN NumberOr(Item(conn, "ping_interval"), 10) ELSE 0,
            !.mtu = IF IsObject(conn) THEN NumberOr(Item(conn, "mtu_size"), 1500) ELSE 0,
            !.proxyPort = NumberOr(Item(proxy, "port"), 0),
            !.compression = IsObject(sets) /\ IsTrue(Item(sets, "enable_compression")),
            !.verbose = IsObject(sets) /\ IsTrue(Item(sets, "log_verbose")),
            !.stats = IF IsObject(sets)
                      THEN NumberOr(Item(sets, "stats_interval"), 5) ELSE 0]]

(* parse_ovpn_config: the profile text is non-empty and contains         *)
(* "client".                                                               *)
ContainsClient(cfg) == IsString(cfg.ovpn) /\ cfg.ovpn.client

-----------------------------------------------------------------------------
(* parse_server_config_json on the ovpn_server_config_t that             *)
(* ovpn_server_init filled in.  A string field is its strlen; a present   *)
(* key is strncpy'd into its char[size] with size - 1 as the bound, so a *)
(* longer value is cut; numbers are assigned, booleans are cJSON_IsTrue.  *)
(* cJSON_GetStringValue of a non-string, and a number read from a non-    *)
(* number, are NULL and NaN: strncpy from NULL and a NaN converted to int *)
(* are undefined, and the result records that its effect is undefined.   *)

Top == "top"

(* Where each string field is read from, and the size of its array. *)
StringKeys ==
    [server_name |-> <<Top, "server_name", 256>>,
     listen_address |-> <<Top, "listen_address", 64>>,
     protocol |-> <<Top, "protocol", 16>>,
     device_type |-> <<Top, "device_type", 16>>,
     server_subnet |-> <<Top, "server_subnet", 32>>,
     ca_cert_path |-> <<"certificates", "ca_cert_path", 512>>,
     server_cert_path |-> <<"certificates", "server_cert_path", 512>>,
     server_key_path |-> <<"certificates", "server_key_path", 512>>,
     dh_params_path |-> <<"certificates", "dh_params_path", 512>>,
     cipher |-> <<"security", "cipher", 64>>,
     auth_digest |-> <<"security", "auth_digest", 32>>,
     management_address |-> <<"management", "address", 64>>,
     log_file |-> <<"logging", "log_file", 512>>]

NumberKeys ==
    [listen_port |-> <<Top, "listen_port">>,
     max_clients |-> <<"client_config", "max_clients">>,
     management_port |-> <<"management", "port">>,
     log_verbosity |-> <<"logging", "verbosity">>]

BoolKeys ==
    [compression_enabled |-> <<"security", "compression_enabled">>,
     duplicate_cn_allowed |-> <<"security", "duplicate_cn_allowed">>,
     client_to_client |-> <<"client_config", "client_to_client">>,
     push_routes |-> <<"client_config", "push_routes">>,
     log_append |-> <<"logging", "append">>]

(* The value at a path, looked up in the group (if (group)) first. *)
At(doc, p) == IF p[1] = Top THEN Item(doc, p[2]) ELSE Item(Item(doc, p[1]), p[2])

(* strncpy(dst, src, size - 1) of a string of n characters. *)
Strncpy(n, size) == IF n < size - 1 THEN n ELSE size - 1

(* The dns_servers array: the first two elements are copied into      *)
(* char[64] each; later elements are not read.                           *)
DnsItems(doc) ==
    LET a == Item(Item(doc, "client_config"), "dns_servers")
    IN  IF a.t = "array" THEN SubSeq(a.elems, 1, IF Len(a.elems) < 2 THEN Len(a.elems) ELSE 2)
        ELSE <<>>

ParseServerConfigJson(cfg, doc) ==
    LET strs == {f \in DOMAIN StringKeys : Present(At(doc, StringKeys[f]))}
        nums == {f \in DOMAIN NumberKeys : Present(At(doc, NumberKeys[f]))}
        bools == {f \in DOMAIN BoolKeys : Present(At(doc, BoolKeys[f]))}
        dns == DnsItems(doc)
        typed == /\ \A f \in strs : IsString(At(doc, StringKeys[f]))
                 /\ \A f \in nums : IsNumber(At(doc, NumberKeys[f]))
                 /\ \A i \in DOMAIN dns : IsString(dns[i])
    IN
    IF doc = Malformed THEN [rc |-> -1, defined |-> TRUE, cfg |-> cfg]
    ELSE IF ~typed THEN [rc |-> 0, defined |-> FALSE, cfg |-> cfg]
    ELSE [rc |-> 0, defined |-> TRUE,
          cfg |-> [f \in DOMAIN cfg |->
                     IF f \in strs THEN Strncpy(At(doc, StringKeys[f]).len, StringKeys[f][3])
                     ELSE IF f \in nums THEN At(doc, NumberKeys[f]).v
                     ELSE IF f \in bools THEN IsTrue(At(doc, BoolKeys[f]))
                     ELSE IF f = "dns_servers"
                       THEN [i \in 1..2 |-> IF i \in DOMAIN dns
                                              THEN Strncpy(dns[i].len, 64)
                                              ELSE cfg.dns_servers[i]]
                     ELSE cfg[f]]]
=============================================================================
