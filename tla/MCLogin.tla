--------------------------------- MODULE MCLogin ---------------------------------
EXTENDS Login, Codecs, TLC

Untold(type) == Handshake(type, <<>>)
Tickets(list) == Handshake("NewSessionTicket", list)
Ticket(type, lifetime) == [type |-> type, lifetime |-> lifetime]

MCFlights == {
    <<Untold("CertVerify"), Tickets(<<Ticket(2, 1), Ticket(1, 0), Ticket(1, 1)>>)>>,
    <<Untold("CertVerify"), Tickets(<<Ticket(2, 1), Ticket(1, 0)>>)>>,
    <<Tickets(<<Ticket(1, 1)>>)>>}

MCReplies == {
    [cmd |-> "manualauth", hybrid |-> TRUE, complete |-> TRUE],
    [cmd |-> "manualauth", hybrid |-> TRUE, complete |-> FALSE],
    [cmd |-> "other", hybrid |-> FALSE, complete |-> FALSE]}

Domain(name, ips, proto, ports) ==
    [name |-> name, ips |-> ips, protocols |-> <<[name |-> proto, ports |-> ports]>>]
Answer(status, retcode, domains) == [status |-> status, retcode |-> retcode, domains |-> domains]

(* A full list; one that names the domain and the protocol twice; one without  *)
(* a preferred port and without ShortLink servers; one that is refused.        *)
MCAnswers == {
    Answer(200, 0, <<Domain(LonglinkDomain, <<3, 0, 2, 1, 3>>, ProtoMmtls, <<443, 80, 8080>>),
                     Domain(ShortlinkDomain, <<1, 1, 2>>, "http", <<443, 80>>)>>),
    Answer(200, 0, <<Domain(LonglinkDomain, <<3>>, ProtoMmtls, <<80>>),
                     Domain(ShortlinkDomain, <<2>>, "http", <<80>>),
                     [name |-> LonglinkDomain, ips |-> <<2, 1>>,
                      protocols |-> <<[name |-> ProtoMmtls, ports |-> <<80>>],
                                      [name |-> "http", ports |-> <<443>>],
                                      [name |-> ProtoMmtls, ports |-> <<9000, 8080>>]>>]>>),
    Answer(200, 0, <<Domain(LonglinkDomain, <<2, 1>>, ProtoMmtls, <<9001, 9000>>),
                     Domain("", <<1>>, "http", <<80>>)>>),
    Answer(200, 1, <<Domain(LonglinkDomain, <<1>>, ProtoMmtls, <<80>>)>>)}

MCDefaultTarget == [ip |-> 0, port |-> 80]

(* Strings of one byte, of a varint byte that goes on, and longer than 15.     *)
MCStrings == {<<>>, <<1>>, <<0, 63>>, [k \in 1 .. 33 |-> 10]}
MCHeaders == {[k \in 1 .. 12 |-> k]}
MCValues == {0, 33, 1023, 2047}

(* Where the length needs another byte, of literals and of matches.            *)
MCTexts == {[k \in 1 .. n |-> k % 251] : n \in {0, 1, 4, 14, 15, 18, 270, 525}}

(* Codecs have no steps: a behaviour is one of a login, or it is one of the    *)
(* codecs with one of their other inputs.                                      *)
Zero == [kind |-> "number", n |-> 0]
MCInit == LoginInit /\ CodecsInit
MCNext ==
    \/ LoginNext /\ input = Zero /\ UNCHANGED input
    \/ input # Zero /\ UNCHANGED <<loginVars, input>>
MCSpec == MCInit /\ [][MCNext]_<<loginVars, input>> /\ WF_loginVars(LoginStep)
==================================================================================
