---------------------------- MODULE MCServiceIngress ----------------------------
(* A small instance of ServiceIngress: webhooks that become events and one  *)
(* request for each way in which the process answers by itself.             *)
EXTENDS ServiceIngress

Post(path, body, token) ==
    [method |-> "POST", path |-> path, body |-> body, token |-> token, message |-> "m1"]
MCMessages == {"m1", "m2"}
MCInputs ==
    {Post("feishu", "ok", "good"), Post("feishu", "challenge", "good"),
     Post("feishu", "challenge", "bad"), Post("feishu", "challengeless", "good"),
     Post("gitlab", "breaking", "good"), Post("malformed", "ok", "good"),
     Post("kubernetes", "ok", "bad"), Post("gitlab", "ok", "bad"),
     Post("gitlab", "large", "good"), Post("unknown", "ok", "good"),
     [Post("ready", "ok", "bad") EXCEPT !.method = "GET"],
     [Post("health", "ok", "bad") EXCEPT !.method = "GET"],
     [Post("tekton", "ok", "good") EXCEPT !.method = "GET"]}
================================================================================
