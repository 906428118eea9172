------------------------------ MODULE MCService ------------------------------
EXTENDS Service

ArgsCases ==
    {<< >>, "EnableHTTPS" :> "1",
     "config" :> "c.json" @@ "FileStoragePath" :> "args.json" @@ "EnableHTTPS" :> "0"}

EnvCases ==
    {<< >>, "DataSourceName" :> "env" @@ "EnableHTTPS" :> "true",
     "config" :> "" @@ "DataSourceName" :> "", "config" :> "d.json",
     "EnableHTTPS" :> "yes"}

FilesCases ==
    {"c.json" :> [DataSourceName |-> "file", EnableHTTPS |-> TRUE],
     "c.json" :> Malformed}

SettingsCases == [args : ArgsCases, env : EnvCases, files : FilesCases]
=============================================================================
