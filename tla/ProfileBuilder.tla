--------------------------- MODULE ProfileBuilder ---------------------------
(***************************************************************************)
(* build_client_ovpn_config of src/source-port/apis/openvpn_server_api.c: *)
(* the client profile is written into one malloc(8192) buffer by a chain  *)
(* of calls                                                                *)
(*                                                                         *)
(*     pos += snprintf(config + pos, 8192 - pos, fmt, ...);                *)
(*                                                                         *)
(* Each piece is abstracted to the number of characters snprintf would    *)
(* print (its return value): the literal text of the format plus the      *)
(* strlen of each %s argument and the decimal width of each %d.  The      *)
(* state of a build is                                                     *)
(*   pos       the int pos after the calls so far,                         *)
(*   maxStart  the largest offset any call started writing at,             *)
(*   dropped   the credential lines fgets read that were never copied.     *)
(* A call at pos <= 8192 writes inside the buffer (size 8192 - pos >= 0);  *)
(* at pos > 8192 the negative int becomes a huge size_t and the call       *)
(* writes past the end.                                                    *)
(***************************************************************************)
EXTENDS Integers, Sequences, SequencesExt

(* malloc(8192) and the size argument 8192 - pos. *)
BufSize == 8192

(* The fgets loops copy a further line only while pos < 7900. *)
CopyGuard == 7900

(* char line[256]: fgets returns at most 255 characters per call. *)
LineMax == 255

(* ctime() prints "Www Mmm dd hh:mm:ss yyyy\n". *)
CtimeWidth == 25

(* A credential file as fgets reads it: whether fopen succeeded, and the  *)
(* lengths of the chunks fgets returns, each 1..LineMax.                  *)
OpenedFile(lines) == [opened |-> TRUE, lines |-> lines]

(* fopen of clients/<name>.crt or .key failed. *)
NoFile == [opened |-> FALSE, lines |-> <<>>]

(* The characters %d prints for an int. *)
RECURSIVE DecimalWidth(_)
DecimalWidth(n) ==
    IF n < 0 THEN 1 + DecimalWidth(-n)
    ELSE IF n < 10 THEN 1 ELSE 1 + DecimalWidth(n \div 10)

(* The build before the first call: int pos = 0. *)
EmptyBuild == [pos |-> 0, maxStart |-> 0, dropped |-> 0]

(* pos += snprintf(config + pos, 8192 - pos, ...) printing n characters. *)
Snprintf(b, n) ==
    [b EXCEPT !.pos = @ + n, !.maxStart = Max({@, b.pos})]

(* An if (cond) around one such call. *)
SnprintfIf(b, cond, n) == IF cond THEN Snprintf(b, n) ELSE b

(* The basic configuration: 154 characters of format text, the client's *)
(* common_name, ctime, device_type, protocol, the remote host (the       *)
(* option's when non-empty, else listen_address), the port (the option's *)
(* when > 0, else listen_port), cipher and auth_digest.                   *)
HeaderLength(client, cfg, opts) ==
    154 + client.nameLen + CtimeWidth + cfg.devLen + cfg.protoLen
        + (IF opts.remoteHostLen > 0 THEN opts.remoteHostLen ELSE cfg.listenLen)
        + DecimalWidth(IF opts.remotePort > 0 THEN opts.remotePort ELSE cfg.listenPort)
        + cfg.cipherLen + cfg.authLen

(* "route %s\n" for each of the client's routes pushed to it. *)
AddRoutes(b, routes) ==
    FoldLeft(LAMBDA acc, r : SnprintfIf(acc, r.push, 7 + r.netLen), b, routes)

(* "dhcp-option DNS %s\n" for each non-empty dns_servers entry. *)
AddDns(b, dns) ==
    FoldLeft(LAMBDA acc, len : SnprintfIf(acc, len > 0, 17 + len), b, dns)

(* Fault variant: the copy loop without its pos < 7900 test. *)
RECURSIVE CopyLinesUnguarded(_, _)
CopyLinesUnguarded(b, lines) ==
    IF lines = <<>> THEN b
    ELSE CopyLinesUnguarded(Snprintf(b, Head(lines)), Tail(lines))

(* while (fgets(line, 256, f) && pos < 7900) pos += snprintf(..., line): *)
(* fgets reads a chunk first; once pos reaches 7900 it and the rest of   *)
(* the file are left out.                                                 *)
RECURSIVE CopyLines(_, _)
CopyLines(b, lines) ==
    IF lines = <<>> THEN b
    ELSE IF b.pos < CopyGuard THEN CopyLines(Snprintf(b, Head(lines)), Tail(lines))
    ELSE [b EXCEPT !.dropped = @ + Len(lines)]

(* An inline <cert> or <key> block: nothing if not requested or if fopen *)
(* fails; else the opening tag, the copied lines, the closing tag.       *)
InlineFile(b, wanted, file, openLen, closeLen) ==
    IF ~wanted \/ ~file.opened THEN b
    ELSE Snprintf(CopyLines(Snprintf(b, openLen), file.lines), closeLen)

(* use_inline_certs: "<ca>\n%s</ca>\n" around ca_cert_content, then the  *)
(* <cert> and <key> blocks.                                               *)
InlineCredentials(b, cfg, opts, files) ==
    LET withCa == SnprintfIf(b, opts.ca, 11 + cfg.caLen)
        withCert == InlineFile(withCa, opts.cert, files.cert, 7, 8)
    IN  InlineFile(withCert, opts.key, files.key, 6, 7)

(* Otherwise "ca ca.crt\n", "cert %s.crt\n", "key %s.key\n". *)
ReferencedCredentials(b, client, opts) ==
    LET withCa == SnprintfIf(b, opts.ca, 10)
        withCert == SnprintfIf(withCa, opts.cert, 10 + client.nameLen)
    IN  SnprintfIf(withCert, opts.key, 9 + client.nameLen)

(* build_client_ovpn_config once the client record is found and the     *)
(* buffer allocated.                                                      *)
BuildClientOvpnConfig(client, cfg, opts, files) ==
    LET header == Snprintf(EmptyBuild, HeaderLength(client, cfg, opts))
        redirect == SnprintfIf(header, opts.redirect, 22)
        compress == SnprintfIf(redirect, cfg.compression, 13)
        routes == AddRoutes(compress, client.routes)
        dns == AddDns(routes, cfg.dns)
        custom == SnprintfIf(dns, opts.customLen > 0, opts.customLen + 1)
    IN  IF opts.inline THEN InlineCredentials(custom, cfg, opts, files)
        ELSE ReferencedCredentials(custom, client, opts)

(* Every snprintf of the build starts at an offset inside the buffer, or  *)
(* at its end where the size is 0 and nothing is written.                 *)
WritesInsideBuffer(b) == b.maxStart <= BufSize
=============================================================================
