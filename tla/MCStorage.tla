----------------------------- MODULE MCStorage -----------------------------
(* Instances of Storage for TLC.                                           *)
EXTENDS StorageFeed, TLC

RowidBound(cert, key, app, conn, layout) ==
    [r \in IdRelations |->
        CASE r = "Certificate" -> cert
          [] r = "Key" -> key
          [] r = "ApplicationCertificate" -> app
          [] r = "HistoricServerConnection" -> conn
          [] r = "Layout" -> layout]

\* One row of each relation a setting can refer to.
RowidsOfSettings == RowidBound(1, 1, 1, 1, 1)

\* One chain of foreign keys, and a second certificate for the lists.
RowidsOfOneChain == RowidBound(2, 1, 1, 1, 0)
=============================================================================
