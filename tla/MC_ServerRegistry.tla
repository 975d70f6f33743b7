-------------------------- MODULE MC_ServerRegistry --------------------------
(***************************************************************************)
(* Bounds and call repertoires for checking ServerRegistry.               *)
(***************************************************************************)
EXTENDS ServerRegistry, ProfileBuilder, ConfigParsing, TLC

(* "10.8.0.0/28": hosts .10 to .14 lie in the scan range, so the sixth  *)
(* record finds the subnet exhausted.                                     *)
Subnet28 == [slash |-> TRUE, prefix |-> 28]

(* Six records: one more than the /28 has hosts. *)
Registry_MaxClients == 6

(* Three starts: a restart after an engine exit or failure, and one more *)
(* after a failed thread creation.                                        *)
Lifecycle_MaxStarts == 3

ServerCalls == {"create_client", "revoke_client", "start", "stop", "cleanup"}
RegistryCalls == {"create_client", "revoke_client"}
LifecycleCalls == {"start", "stop", "cleanup"}

(* Inputs for checking the allocate_static_ip scan on its own: subnets of *)
(* up to 4094 hosts, the /28 whose hosts run out inside the window,      *)
(* /30../32 where no offset from 10 is a host, and a subnet string with  *)
(* no '/'; every set of used offsets around .10 and the /28 broadcast.    *)
Subnets == [slash : {TRUE}, prefix : 20..32] \cup [slash : {FALSE}, prefix : {24}]
UsedWindow == 9..16

(* The scan against the reference on every input above (a constant,     *)
(* which TLC evaluates once).                                             *)
FirstFitOnAllInputs ==
    \A s \in Subnets, u \in SUBSET UsedWindow :
        AllocateStaticIp(s, u) = FirstFreeHost(s, u)

(* allocate_static_ip returns the lowest free host offset of the subnet  *)
(* from .10 on, and 0 exactly when none is free: it never hands out the  *)
(* broadcast offset, an address in use, or one outside the subnet.  It is *)
(* checked for every input above and for the subnet and the in-use set   *)
(* of the current record table.                                           *)
ScanIsFirstFit ==
    /\ FirstFitOnAllInputs
    /\ AllocateStaticIp(Subnet, InUse) = FirstFreeHost(Subnet, InUse)

(***************************************************************************)
(* Inputs of build_client_ovpn_config.                                     *)
(***************************************************************************)

(* The configuration ovpn_server_init leaves: the strncpy'd defaults   *)
(* ("OpenVPN Server", "0.0.0.0", "udp", "tun", "10.8.0.0/24",          *)
(* "AES-256-GCM", "SHA256"), port 1194, 100 clients, verbosity 3, and    *)
(* calloc's zeroes elsewhere; ca_cert_content is never loaded.           *)
InitServerConfig ==
    [server_name |-> 14, listen_address |-> 7, listen_port |-> 1194,
     protocol |-> 3, device_type |-> 3, server_subnet |-> 11,
     ca_cert_path |-> 0, server_cert_path |-> 0, server_key_path |-> 0,
     dh_params_path |-> 0, cipher |-> 11, auth_digest |-> 6,
     compression_enabled |-> FALSE, duplicate_cn_allowed |-> FALSE,
     max_clients |-> 100, client_to_client |-> FALSE, push_routes |-> FALSE,
     dns_servers |-> <<0, 0>>, management_address |-> 0, management_port |-> 0,
     log_file |-> 0, log_verbosity |-> 3, log_append |-> FALSE,
     ca_cert_content |-> 0]

(* server_config_json of example_server_usage.c (keys the parser never   *)
(* looks up left out). *)
ExampleServerJson ==
    Obj([server_name |-> Chars(20), listen_address |-> Chars(7),
         listen_port |-> Num(1194), protocol |-> Chars(3), device_type |-> Chars(3),
         server_subnet |-> Chars(11),
         certificates |-> Obj([ca_cert_path |-> Chars(19), server_cert_path |-> Chars(23),
                               server_key_path |-> Chars(23), dh_params_path |-> Chars(23)]),
         security |-> Obj([cipher |-> Chars(11), auth_digest |-> Chars(6),
                           compression_enabled |-> JTrue, duplicate_cn_allowed |-> JFalse]),
         client_config |-> Obj([max_clients |-> Num(100), client_to_client |-> JFalse,
                                push_routes |-> JTrue,
                                dns_servers |-> Arr(<<Chars(7), Chars(7)>>)]),
         management |-> Obj([address |-> Chars(9), port |-> Num(7505)]),
         logging |-> Obj([log_file |-> Chars(27), verbosity |-> Num(3), append |-> JTrue])])

(* A document whose every string is longer than any field, with three  *)
(* DNS servers and a listen_port as wide as an int prints              *)
(* (load_config_json does not range-check it; INT_MIN has the same 11  *)
(* characters but -INT_MIN is beyond TLC's integers).                    *)
Long == Chars(600)
LongestServerJson ==
    Obj([listen_address |-> Long, listen_port |-> Num(-2147483647),
         protocol |-> Long, device_type |-> Long,
         security |-> Obj([cipher |-> Long, auth_digest |-> Long,
                           compression_enabled |-> JTrue]),
         client_config |-> Obj([dns_servers |-> Arr(<<Long, Long, Long>>)])])

(* A number where a string is read: strncpy from NULL. *)
MistypedServerJson == Obj([device_type |-> Num(1)])

ServerDocs == {ExampleServerJson, LongestServerJson, MistypedServerJson, Malformed}

(* Spec 7 (ParseFailure): a configuration document the server cannot   *)
(* use is rejected with an error.  parse_server_config_json instead      *)
(* strncpy's from cJSON_GetStringValue of whatever value a known key     *)
(* holds, which is NULL for a number, and reads a number from a string as *)
(* NaN: the load of MistypedServerJson is undefined, not an error.  Not *)
(* a property of any run (ServerConfigs leaves undefined loads out).      *)
LoadRejectsMistypedDocuments ==
    \A d \in ServerDocs : ParseServerConfigJson(InitServerConfig, d).defined

(* What build_client_ovpn_config reads of the configuration. *)
ProfileView(c) ==
    [devLen |-> c.device_type, protoLen |-> c.protocol, listenLen |-> c.listen_address,
     listenPort |-> c.listen_port, cipherLen |-> c.cipher, authLen |-> c.auth_digest,
     compression |-> c.compression_enabled, dns |-> c.dns_servers,
     caLen |-> c.ca_cert_content]

(* Each load: the configuration it leaves when its behaviour is defined *)
(* (a failed cJSON_Parse leaves the defaults).                           *)
Loads == {ParseServerConfigJson(InitServerConfig, d) : d \in ServerDocs}
ServerConfigs == {ProfileView(l.cfg) : l \in {l \in Loads : l.defined}}
ExampleServerConfig == ProfileView(ParseServerConfigJson(InitServerConfig, ExampleServerJson).cfg)

(* A common name as short as the example's "john.doe" or cut to 255 by   *)
(* the strncpy of create_client.  No code sets route_count, so a record  *)
(* has no routes.                                                          *)
ShortNameLen == 8
ClientRecords == [nameLen : {ShortNameLen, 255}, routes : {<<>>}]

(* Every option flag; remote host and custom directives empty or at     *)
(* their longest (char[256] and char[1024]).                              *)
ProfileOptions ==
    [remoteHostLen : {0, 255}, remotePort : {0, 65535}, redirect : BOOLEAN,
     customLen : {0, 1023}, inline : BOOLEAN, ca : BOOLEAN, cert : BOOLEAN,
     key : BOOLEAN]

(* No file, an empty one, and 40 fgets chunks of 255 characters, which  *)
(* alone pass 7900 and make the largest step past the copy guard.     *)
CredentialFiles ==
    {NoFile} \cup
    {OpenedFile(f) : f \in {<<>>, [i \in 1..40 |-> LineMax]}}

(* The example program's options: inline CA, certificate and key,        *)
(* redirect-gateway, remote "vpn.company.com":1194.  The client files   *)
(* are never written (generate_client_certificate_files is a stub), so  *)
(* both fopen calls fail.                                                  *)
ExampleOptions ==
    [remoteHostLen |-> 15, remotePort |-> 1194, redirect |-> TRUE,
     customLen |-> 0, inline |-> TRUE, ca |-> TRUE, cert |-> TRUE, key |-> TRUE]

(* The profile build on every input above (a constant, evaluated once). *)
ProfileFitsOnAllInputs ==
    \A cfg \in ServerConfigs, client \in ClientRecords, opts \in ProfileOptions,
       cert \in CredentialFiles, key \in CredentialFiles :
        WritesInsideBuffer(BuildClientOvpnConfig(client, cfg, opts,
                                                 [cert |-> cert, key |-> key]))

(* The stored name of a record as the header prints it. *)
RecordShape(r) == [nameLen |-> IF r.name.cut THEN 255 ELSE ShortNameLen,
                   routes |-> <<>>]

(* build_client_ovpn_config never writes outside its 8192-byte buffer:  *)
(* the pos < 7900 test of the credential copy loops, with fgets chunks  *)
(* of at most 255 characters and the closing tags, keeps every          *)
(* snprintf(config + pos, 8192 - pos, ...) at pos <= 8192.  Checked for  *)
(* every configuration the loads above leave, and for the example's     *)
(* options and loaded configuration on every record of the current      *)
(* table.                                                                  *)
ProfileFitsBuffer ==
    /\ ProfileFitsOnAllInputs
    /\ \A j \in DOMAIN clients :
          WritesInsideBuffer(BuildClientOvpnConfig(RecordShape(clients[j]),
                                ExampleServerConfig, ExampleOptions,
                                [cert |-> NoFile, key |-> NoFile]))
=============================================================================
