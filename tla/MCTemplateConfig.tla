-------------------------- MODULE MCTemplateConfig --------------------------
(* Two keys, of which only one looks secret, and four manifests: a         *)
(* container, the same with the secret field turned into a plain one and a *)
(* default that refers to it, a bundle and a system service.               *)
EXTENDS TemplateConfig

MCRefOf == [x \in {"${cfg.pass}"} |-> "pass"]

MCDefault(x) == [k \in Key |-> IF k = "url" THEN x ELSE Absent]

MCTemplate ==
    {[runtime |-> "container", uses |-> Key, needs |-> {"url"}, secret |-> Key,
      default |-> MCDefault("a"), power |-> FALSE],
     [runtime |-> "container", uses |-> Key, needs |-> {}, secret |-> {},
      default |-> MCDefault("${cfg.pass}"), power |-> FALSE],
     [runtime |-> "compose", uses |-> Key, needs |-> {}, secret |-> {"pass"},
      default |-> MCDefault(Absent), power |-> FALSE],
     [runtime |-> "system", uses |-> {"url"}, needs |-> {}, secret |-> {"pass"},
      default |-> MCDefault("a"), power |-> TRUE]}

=============================================================================
