-------------------------------- MODULE Packets --------------------------------
(***************************************************************************)
(* The packet builders and parsers of src/src/net/net.c.  A packet is the  *)
(* sequence of its bytes, an address its bytes in network order.  <<>>     *)
(* stands for a call that fails.                                           *)
(***************************************************************************)
EXTENDS Integers, Sequences, SequencesExt

NET_ETHERNET_HEADER == 14
NET_IPV4_HEADER_MIN == 20
NET_ARP_PACKET_SIZE == 28
NET_PROTOCOL_UDP == 17
IPV4 == <<8, 0>>                                       \* NET_ETHERTYPE_IPV4

Slice(bytes, offset, size) == SubSeq(bytes, offset + 1, offset + size)
load16(bytes, offset) == bytes[offset + 1] * 256 + bytes[offset + 2]
store16(value) == <<value \div 256, value % 256>>

WordSum(bytes) ==
  LET even == {i \in 0 .. Len(bytes) - 2 : i % 2 = 0}
      words == FoldLeft(LAMBDA sum, i : IF i - 1 \in even THEN sum + load16(bytes, i - 1) ELSE sum,
                        0, [i \in 1 .. Len(bytes) |-> i])
  IN  words + IF Len(bytes) % 2 # 0 THEN Last(bytes) * 256 ELSE 0
RECURSIVE Carry(_)
Carry(sum) == IF sum >= 65536 THEN Carry((sum % 65536) + sum \div 65536) ELSE sum

(* Mutation of net_checksum: the carries are dropped.                      *)
net_checksum_no_carry(bytes) == 65535 - (WordSum(bytes) % 65536)

net_checksum(bytes) == 65535 - Carry(WordSum(bytes))

net_ethernet_build(capacity, destination, source, ethertype, payload) ==
  IF capacity < NET_ETHERNET_HEADER + Len(payload) THEN <<>>
  ELSE destination \o source \o ethertype \o payload
net_ethernet_parse(bytes) ==
  IF Len(bytes) < NET_ETHERNET_HEADER THEN <<>>
  ELSE <<Slice(bytes, 0, 6), Slice(bytes, 6, 6), Slice(bytes, 12, 2),
         Slice(bytes, 14, Len(bytes) - NET_ETHERNET_HEADER)>>

net_arp_build(capacity, operation, sender_mac, sender_ip, target_mac, target_ip) ==
  IF capacity < NET_ARP_PACKET_SIZE \/ operation \notin {1, 2} THEN <<>>
  ELSE store16(1) \o IPV4 \o <<6, 4>> \o store16(operation)
         \o sender_mac \o sender_ip \o target_mac \o target_ip
net_arp_parse(bytes) ==
  IF \/ Len(bytes) < NET_ARP_PACKET_SIZE
     \/ load16(bytes, 0) # 1 \/ Slice(bytes, 2, 2) # IPV4
     \/ bytes[5] # 6 \/ bytes[6] # 4 \/ load16(bytes, 6) \notin {1, 2}
  THEN <<>>
  ELSE <<load16(bytes, 6), Slice(bytes, 8, 6), Slice(bytes, 14, 4),
         Slice(bytes, 18, 6), Slice(bytes, 24, 4)>>

(* The header is summed with its checksum field still zero.                *)
net_ipv4_build(capacity, source, destination, protocol, ttl, identification, payload) ==
  LET total == NET_IPV4_HEADER_MIN + Len(payload)
      Header(checksum) ==
        <<69, 0>> \o store16(total) \o store16(identification) \o <<64, 0, ttl, protocol>>
          \o checksum \o source \o destination
  IN  IF total > 65535 \/ capacity < total \/ ttl = 0 THEN <<>>
      ELSE Header(store16(net_checksum(Header(<<0, 0>>)))) \o payload
net_ipv4_parse(bytes) ==
  IF Len(bytes) < NET_IPV4_HEADER_MIN THEN <<>>
  ELSE IF bytes[1] \div 16 # 4 \/ bytes[1] % 16 < 5 THEN <<>>
  ELSE LET header_size == (bytes[1] % 16) * 4
           total == load16(bytes, 2)
       IN  IF header_size > Len(bytes) \/ total < header_size \/ total > Len(bytes) THEN <<>>
           ELSE IF net_checksum(Slice(bytes, 0, header_size)) # 0 THEN <<>>
           ELSE <<load16(bytes, 4), bytes[9], bytes[10], Slice(bytes, 12, 4),
                  Slice(bytes, 16, 4), Slice(bytes, header_size, total - header_size)>>

(* The sum of the pseudo-header and the datagram.                          *)
udp_checksum(source_ip, destination_ip, udp) ==
  65535 - Carry(WordSum(source_ip) + WordSum(destination_ip) + NET_PROTOCOL_UDP
                  + Len(udp) + WordSum(udp))
net_udp_build(capacity, source_ip, destination_ip, source_port, destination_port, payload) ==
  LET total == 8 + Len(payload)
      Datagram(checksum) ==
        store16(source_port) \o store16(destination_port) \o store16(total)
          \o store16(checksum) \o payload
      checksum == udp_checksum(source_ip, destination_ip, Datagram(0))
  IN  IF total > 65535 \/ capacity < total \/ source_port = 0 \/ destination_port = 0 THEN <<>>
      ELSE Datagram(IF checksum = 0 THEN 65535 ELSE checksum)

(* The checksum of a received datagram is not looked at.                   *)
net_udp_parse(bytes) ==
  IF Len(bytes) < 8 THEN <<>>
  ELSE IF load16(bytes, 4) < 8 \/ load16(bytes, 4) > Len(bytes) THEN <<>>
  ELSE <<load16(bytes, 0), load16(bytes, 2), Slice(bytes, 8, load16(bytes, 4) - 8)>>

net_icmp_echo_reply(bytes) ==
  LET Reply(checksum) == <<0, 0>> \o checksum \o Slice(bytes, 4, Len(bytes) - 4) IN
  IF Len(bytes) < 8 THEN <<>>
  ELSE IF bytes[1] # 8 \/ bytes[2] # 0 \/ net_checksum(bytes) # 0 THEN <<>>
  ELSE Reply(store16(net_checksum(Reply(<<0, 0>>))))
------------------------------------------------------------------------------
Mac(n) == <<2, 0, 0, 0, 0, n>>
Ip(n) == <<192, 168, n, n>>
Damage(bytes, i, byte) == [bytes EXCEPT ![i] = byte]
Swapped(bytes) == [i \in DOMAIN bytes |-> bytes[IF i % 2 = 0 THEN i - 1 ELSE i + 1]]

(* A payload sent through UDP, IPv4 and Ethernet arrives with its ports    *)
(* and addresses; what is cut short or has a damaged byte in the IPv4      *)
(* header does not; a datagram never carries the checksum 0, which would   *)
(* mean that it has none, and carries one a receiver accepts.  The sum is  *)
(* the one's complement one of every other host: swapping the bytes of     *)
(* each word swaps those of the checksum.                                  *)
DeliversExact(payload, identification, port, n) ==
  LET Udp(data) == net_udp_build(64, Ip(n), Ip(1), port, 7, data)
      udp == Udp(payload)
      ip == net_ipv4_build(64, Ip(n), Ip(1), NET_PROTOCOL_UDP, 64, identification, udp)
      frame == net_ethernet_build(64, Mac(n), Mac(1), IPV4, ip \o <<0, 0>>)
      received == net_ethernet_parse(frame)
      packet == net_ipv4_parse(received[4])
      balanced == Udp(store16(load16(Udp(<<0, 0>>), 6)))      \* sums to 0
      Checksum(bytes) == store16(net_checksum(bytes))
      header == Slice(ip, 0, 10)                              \* up to the checksum
  IN  /\ received[1] = Mac(n) /\ received[2] = Mac(1) /\ received[3] = IPV4
      /\ packet = <<identification, 64, NET_PROTOCOL_UDP, Ip(n), Ip(1), udp>>
      /\ net_udp_parse(packet[6]) = <<port, 7, payload>>
      /\ \A d \in {udp, balanced} : load16(d, 6) # 0 /\ udp_checksum(Ip(n), Ip(1), d) = 0
      /\ \A bytes \in {header, header \o Slice(ip, 12, 8)} :
           Checksum(Swapped(bytes)) = Swapped(Checksum(bytes))
      /\ net_ipv4_parse(Front(ip)) = <<>> /\ net_udp_parse(Front(udp)) = <<>>
      /\ \A i \in 1 .. NET_IPV4_HEADER_MIN : \A byte \in {0, 69, 70, 255} \ {ip[i]} :
           net_ipv4_parse(Damage(ip, i, byte)) = <<>>

(* An ARP packet is parsed to what it was built from, the reply to an echo *)
(* request is a valid message with the request's data, and a request with  *)
(* a damaged byte gets none.                                               *)
RepliesExact(payload, identification, n) ==
  LET Echo(checksum) ==
        <<8, 0>> \o checksum \o store16(identification) \o <<0, n>> \o payload
      request == Echo(store16(net_checksum(Echo(<<0, 0>>))))
      reply == net_icmp_echo_reply(request)
  IN  /\ \A operation \in {1, 2} :
           net_arp_parse(net_arp_build(28, operation, Mac(1), Ip(1), Mac(n), Ip(n))) =
             <<operation, Mac(1), Ip(1), Mac(n), Ip(n)>>
      /\ net_checksum(request) = 0
      /\ reply # <<>> /\ reply[1] = 0 /\ net_checksum(reply) = 0
      /\ Slice(reply, 4, Len(reply) - 4) = Slice(request, 4, Len(request) - 4)
      /\ net_icmp_echo_reply(reply) = <<>>
      /\ \A i \in 1 .. Len(request) : \A byte \in {0, 8, 255} \ {request[i]} :
           net_icmp_echo_reply(Damage(request, i, byte)) = <<>>

=============================================================================
