-------------------------- MODULE MCCatalogMetrics --------------------------
(* The same instances with the gauges of CatalogMetrics. *)
EXTENDS CatalogMetrics, MCIcebergCatalog
=============================================================================
