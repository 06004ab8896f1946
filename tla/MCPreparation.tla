--------------------------- MODULE MCPreparation ---------------------------
EXTENDS Preparation

\* One place of each kind a stage depends on.
Places ==
  {Entry("prepare_method"), <<"instance", "prepare_headers">>, Code("prepare_url"),
   Entry("__setattr__"), Entry("to_native_string"), Entry("builtin_str"),
   Code("quote_from_bytes"), Entry("url.LocationParseError"), Entry("models.InvalidURL"),
   Entry("MissingSchema"), Entry("utils.InvalidURL"), Entry("math"),
   Entry("_HEADER_VALIDATORS"), Entry("InvalidHeader"), Entry("OrderedDict"),
   Entry("_encode_params"), Code("prepare_content_length"),
   Entry("b64encode")}
=============================================================================
