--------------------------- MODULE TCPOverIPv4Ops ---------------------------
(***************************************************************************)
(* Class TCPOverIPv4Adapter (src/util/tcp_over_ip.cc) as operators on a    *)
(* record of its members. It puts messages into datagrams, and of those    *)
(* that arrive finds the ones that belong to the connection. An address is *)
(* a host and a port; a datagram that carries no valid segment has no      *)
(* message.                                                                *)
(***************************************************************************)

(* What a socket that listens on all addresses has for its host.            *)
AnyHost == "0"

Address(host, port) == [host |-> host, port |-> port]

NewAdapter(source, destination, listening) ==
    [source |-> source, destination |-> destination, listening |-> listening]

WrapTCPInIP(a, msg) == [src |-> a.source, dst |-> a.destination, msg |-> msg]

(* Fault: the hosts are not looked at, only the ports.                      *)
AnyDatagram(a, datagram) == TRUE

(* Before anyone has connected, all hosts and all addresses of one's own    *)
(* will do.                                                                 *)
HostsMatch(a, datagram) ==
    a.listening \/ (datagram.dst.host = a.source.host /\ datagram.src.host = a.destination.host)

(* The first SYN tells whom to talk to, and under which address.            *)
Adopt(a, datagram) ==
    IF a.listening
    THEN NewAdapter(Address(datagram.dst.host, a.source.port), datagram.src, FALSE)
    ELSE a

ForUs(a, datagram) ==
    /\ HostsMatch(a, datagram)
    /\ datagram.dst.port = a.source.port
    /\ a.listening => datagram.msg.sender.SYN /\ ~datagram.msg.sender.RST

(* The adapter after the datagram, and whether its message is to be heard.  *)
UnwrapTCPInIP(a, datagram) ==
    LET adopted == Adopt(a, datagram)
    IN  IF ForUs(a, datagram)
        THEN [adapter |-> adopted, heard |-> datagram.src.port = adopted.destination.port]
        ELSE [adapter |-> a, heard |-> FALSE]
=============================================================================
