-------------------------- MODULE MC_ClientRoutes ---------------------------
(* Small networks, tables and configurations for ClientRoutes. *)
EXTENDS ClientRoutes

CONSTANTS absent

\* Everything; the remote site with one host in it; the TUN's own network.
All == 1..5
Site == {2, 3}
SiteHost == {3}
Tun == {5}

MCNets == {All, Site, SiteHost, Tun}

Config(r) == [server |-> 1, quicEnabled |-> TRUE, grpcEnabled |-> TRUE,
              quicServer |-> Absent, grpcServer |-> Absent, sane |-> TRUE,
              routes |-> r, certificate |-> TRUE, autoRoute |-> TRUE]

Both == Config(<<Site, SiteHost>>)
Twice == Config(<<Site, Site>>)
GrpcInside == [Both EXCEPT !.grpcServer = 3]
GrpcUnused == [GrpcInside EXCEPT !.grpcEnabled = FALSE]
Everything == Config(<<All>>)
Manual == [Both EXCEPT !.autoRoute = FALSE]
GrpcInTunNet == [Both EXCEPT !.grpcServer = 5]
NoCertificate == [Both EXCEPT !.certificate = FALSE]

MCConfigs == {Both, Twice, GrpcInside, GrpcUnused, Everything, Manual, NoCertificate,
              GrpcInTunNet}

Files(e, c, a) == [p \in Places |->
    IF p = "explicit" THEN e ELSE IF p = "current" THEN c ELSE a]

MCFileSets == { Files(Both, GrpcInside, Manual), Files(Twice, absent, GrpcUnused),
                Files(NoCertificate, GrpcInTunNet, absent), Files(absent, Everything, Both) }

MCTables == {{}, {All}, {All, SiteHost}}
=============================================================================
